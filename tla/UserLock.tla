------------------------------ MODULE UserLock ------------------------------
(***************************************************************************)
(* The per-user promise chain of server/userLock.js.                       *)
(*                                                                         *)
(* A call of withUserLock(userId, fn) is one element of Calls and stands   *)
(* for the promises that call creates: `result` (what the caller awaits)   *)
(* and `tail` (what the next call of the same user chains off).  A promise *)
(* reaction is an action of its own; reactions of settled promises run in  *)
(* any order here, which includes the order of the microtask queue.        *)
(* Every call is made at most once, so a call also names its promises.     *)
(***************************************************************************)
EXTENDS Naturals, Sequences

CONSTANTS
    Users,   \* keys of the `chains` map
    Calls,   \* calls of withUserLock
    UserOf,  \* the userId argument of each call
    NoCall   \* an absent map entry, or the already resolved promise

ASSUME UserOfAssumption == UserOf \in [Calls -> Users]
ASSUME NoCallAssumption == NoCall \notin Calls

VARIABLES
    chains,    \* chains[u]: the call whose tail the map holds for u
    previous,  \* previous[c]: the call whose tail c chained off
    phase,     \* how far the promises of c have got
    outcome,   \* what the `result` promise of c settled with
    arrivals   \* history: the calls of u in this process, in arrival order

lockVars == <<chains, previous, phase, outcome, arrivals>>

(***************************************************************************)
(* idle: not called; queued: waiting on the previous tail; running: fn has *)
(* been called; settled: `result` has settled; tail: `tail` has resolved;  *)
(* done: the clean-up reaction has run; lost: the process died under it.   *)
(***************************************************************************)
Phases == {"idle", "queued", "running", "settled", "tail", "done", "lost"}
Pending == {"queued", "running", "settled", "tail"}
Outcomes == {"fulfilled", "rejected"}

LockInit ==
    /\ chains = [u \in Users |-> NoCall]
    /\ previous = [c \in Calls |-> NoCall]
    /\ phase = [c \in Calls |-> "idle"]
    /\ outcome = [c \in Calls |-> "none"]
    /\ arrivals = [u \in Users |-> <<>>]

-----------------------------------------------------------------------------

\* Mutant. Chaining off the caller-visible promise instead of a swallowing tail.
TailOutcomePoisoned(o) == o

\* `tail = result.then(() => {}, () => {})`: fulfilled whatever result did.
TailOutcome(o) == "fulfilled"

\* The promise `previous` a call chained off, fulfilled.
Fulfilled(p) ==
    p # NoCall => phase[p] \in {"tail", "done"} /\ TailOutcome(outcome[p]) = "fulfilled"

\* The synchronous body of withUserLock: read the map, link, write the map.
WithUserLock(c) ==
    /\ phase[c] = "idle"
    /\ previous' = [previous EXCEPT ![c] = chains[UserOf[c]]]
    /\ chains' = [chains EXCEPT ![UserOf[c]] = c]
    /\ phase' = [phase EXCEPT ![c] = "queued"]
    /\ arrivals' = [arrivals EXCEPT ![UserOf[c]] = Append(@, c)]
    /\ UNCHANGED outcome

\* `previous.then(() => fn())`.
RunFn(c) ==
    /\ phase[c] = "queued"
    /\ Fulfilled(previous[c])
    /\ phase' = [phase EXCEPT ![c] = "running"]
    /\ UNCHANGED <<chains, previous, outcome, arrivals>>

\* The promise fn returned settles, and `result` with it.
SettleResult(c, o) ==
    /\ phase[c] = "running"
    /\ phase' = [phase EXCEPT ![c] = "settled"]
    /\ outcome' = [outcome EXCEPT ![c] = o]
    /\ UNCHANGED <<chains, previous, arrivals>>

ResolveTail(c) ==
    /\ phase[c] = "settled"
    /\ phase' = [phase EXCEPT ![c] = "tail"]
    /\ UNCHANGED <<chains, previous, outcome, arrivals>>

\* Mutant. Cleaning up without the identity check.
ChainsAfterDropUnchecked(c) == [chains EXCEPT ![UserOf[c]] = NoCall]

\* `if (chains.get(userId) === tail) chains.delete(userId)`.
ChainsAfterDrop(c) ==
    IF chains[UserOf[c]] = c THEN [chains EXCEPT ![UserOf[c]] = NoCall] ELSE chains

DropEntry(c) ==
    /\ phase[c] = "tail"
    /\ phase' = [phase EXCEPT ![c] = "done"]
    /\ chains' = ChainsAfterDrop(c)
    /\ UNCHANGED <<previous, outcome, arrivals>>

\* What is left of a call when its process dies: one that has settled is over,
\* its bookkeeping reactions with it; any other will never settle.
AfterRestart(p) ==
    CASE p \in {"queued", "running"} -> "lost"
      [] p \in {"settled", "tail"} -> "done"
      [] OTHER -> p

\* The process dies and a new one starts: the map is module state, so it is
\* empty again.
LockRestart ==
    /\ \E c \in Calls : phase[c] \in Pending
    /\ chains' = [u \in Users |-> NoCall]
    /\ phase' = [c \in Calls |-> AfterRestart(phase[c])]
    /\ arrivals' = [u \in Users |-> <<>>]
    /\ UNCHANGED <<previous, outcome>>

Reaction(c) ==
    \/ RunFn(c)
    \/ \E o \in Outcomes : SettleResult(c, o)
    \/ ResolveTail(c)
    \/ DropEntry(c)

LockNext ==
    \/ \E c \in Calls : WithUserLock(c) \/ Reaction(c)
    \/ LockRestart

(***************************************************************************)
(* The event loop runs every reaction that is due, and every fn passed to  *)
(* withUserLock is a finite sequence of awaited database calls, each of    *)
(* which returns or throws.  Nobody is obliged to send a request.          *)
(***************************************************************************)
LockFairness == \A c \in Calls : WF_lockVars(Reaction(c))

LockSpec == LockInit /\ [][LockNext]_lockVars

LockFairSpec == LockSpec /\ LockFairness

-----------------------------------------------------------------------------

\* Type invariant.
LockTypeOK ==
    /\ chains \in [Users -> Calls \cup {NoCall}]
    /\ previous \in [Calls -> Calls \cup {NoCall}]
    /\ phase \in [Calls -> Phases]
    /\ outcome \in [Calls -> Outcomes \cup {"none"}]
    /\ arrivals \in [Users -> Seq(Calls)]

\* Two calls of one user never run their fn at the same time (userLock.js:
\* "exclusive access to userId's save").
Exclusive ==
    \A c, d \in Calls :
        /\ UserOf[c] = UserOf[d]
        /\ phase[c] = "running"
        /\ phase[d] = "running"
        => c = d

\* A call leaves the queue only after every call of its user that arrived
\* before it has finished, so the saves are rewritten in arrival order.
ArrivalOrder ==
    \A u \in Users : \A j \in 1..Len(arrivals[u]) : \A i \in 1..(j - 1) :
        phase[arrivals[u][j]] # "queued" => phase[arrivals[u][i]] \in {"tail", "done"}

\* The map holds the tail of the last arrival until that call is cleaned up
\* and nothing afterwards: an entry is neither dropped under a waiting call
\* nor left behind once the chain has drained.
EntryTracksLastCall ==
    \A u \in Users :
        LET n == Len(arrivals[u]) IN
        IF n = 0 \/ (n > 0 /\ phase[arrivals[u][n]] = "done")
        THEN chains[u] = NoCall
        ELSE chains[u] = arrivals[u][n]

\* A queued call gets to run its fn unless the process dies under it: a
\* rejected fn does not poison the chain, and nothing waits on itself.
EveryCallRuns ==
    \A c \in Calls : phase[c] = "queued" ~> phase[c] \in {"running", "lost"}

-----------------------------------------------------------------------------
(***************************************************************************)
(* Why the chain works: the inductive invariant behind the properties.     *)
(***************************************************************************)

\* Arrivals are the calls of this process that are past idle, once each.
ArrivalsAreCalls ==
    /\ \A u \in Users : \A i \in 1..Len(arrivals[u]) :
          /\ UserOf[arrivals[u][i]] = u
          /\ phase[arrivals[u][i]] \in Pending \cup {"done"}
    /\ \A u \in Users : \A i, j \in 1..Len(arrivals[u]) :
          arrivals[u][i] = arrivals[u][j] => i = j
    /\ \A c \in Calls : phase[c] \in Pending =>
          \E i \in 1..Len(arrivals[UserOf[c]]) : arrivals[UserOf[c]][i] = c

\* Each arrival chained off the one before it, unless that one was already
\* cleaned up; the first one of a process chained off nothing.
Linked ==
    \A u \in Users : \A j \in 1..Len(arrivals[u]) :
        \/ j > 1 /\ previous[arrivals[u][j]] = arrivals[u][j - 1]
        \/ /\ previous[arrivals[u][j]] = NoCall
           /\ j > 1 => phase[arrivals[u][j - 1]] = "done"

\* Strong enough to be preserved by every step; it implies Exclusive.
ChainInv ==
    /\ LockTypeOK
    /\ ArrivalsAreCalls
    /\ Linked
    /\ ArrivalOrder
    /\ EntryTracksLastCall
=============================================================================
