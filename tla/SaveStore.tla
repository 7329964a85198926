------------------------------ MODULE SaveStore ------------------------------
(***************************************************************************)
(* What the save path promises: every request rewrites its user's save in  *)
(* one indivisible step, in arrival order, whatever else is in flight.     *)
(* SaveService, which awaits the database between reading and writing,     *)
(* implements this.                                                        *)
(*                                                                         *)
(* A save is abstracted to what the promise is about: the requests whose   *)
(* changes it holds, how far it has been evaluated, and how much time it   *)
(* has been paid for (one unit of production per unit of time).            *)
(***************************************************************************)
EXTENDS Naturals, Sequences

CONSTANTS
    Users,
    Requests,
    UserOf,     \* the signed-in user of each request
    ReadOnly,   \* the requests that carry no change of their own
    MinGap,     \* shortest elapsed time evaluate() pays for: one second
    MaxClock,   \* bound on the clock, for model checking only
    NoSave      \* no row in the saves table

Save == [since: Nat, last: Nat, paid: Nat, applied: Seq(Requests)]

VARIABLES
    clock,   \* Date.now()
    save,    \* the saves table
    stamp,   \* the `now` each request took when it arrived
    status   \* where each request is, as its client sees it

vars == <<clock, save, stamp, status>>

\* A user without a row is evaluated from a fresh state, "last evaluated now".
Loaded(row, now) ==
    IF row = NoSave
    THEN [since |-> now, last |-> now, paid |-> 0, applied |-> <<>>]
    ELSE row

Elapsed(from, to) == IF to > from THEN to - from ELSE 0

\* What evaluate() pays for a gap: nothing below one second.
PaidFor(gap) == IF gap < MinGap THEN 0 ELSE gap

\* The row a request writes: the loaded save evaluated forward to its `now`,
\* its own changes applied, last_save set to `now`.
Rewritten(row, r, now) ==
    LET s == Loaded(row, now) IN
    [since |-> s.since,
     last |-> now,
     paid |-> s.paid + PaidFor(Elapsed(s.last, now)),
     applied |-> IF r \in ReadOnly THEN s.applied ELSE Append(s.applied, r)]

Init ==
    /\ clock = 0
    /\ save \in [Users -> {NoSave, [since |-> 0, last |-> 0, paid |-> 0, applied |-> <<>>]}]
    /\ stamp = [r \in Requests |-> 0]
    /\ status = [r \in Requests |-> "unsent"]

Tick ==
    /\ clock < MaxClock
    /\ clock' = clock + 1
    /\ UNCHANGED <<save, stamp, status>>

Submit(r) ==
    /\ status[r] = "unsent"
    /\ status' = [status EXCEPT ![r] = "open"]
    /\ stamp' = [stamp EXCEPT ![r] = clock]
    /\ UNCHANGED <<clock, save>>

\* No request of the same user that arrived earlier is still to take effect.
InTurn(r) ==
    \A q \in Requests :
        UserOf[q] = UserOf[r] /\ status[q] = "open" => stamp[r] <= stamp[q]

Commit(r) ==
    /\ status[r] = "open"
    /\ InTurn(r)
    /\ status' = [status EXCEPT ![r] = "committed"]
    /\ save' = [save EXCEPT ![UserOf[r]] = Rewritten(@, r, stamp[r])]
    /\ UNCHANGED <<clock, stamp>>

\* A client is told that its request succeeded only after it did.
Acknowledge(r) ==
    /\ status[r] = "committed"
    /\ status' = [status EXCEPT ![r] = "ok"]
    /\ UNCHANGED <<clock, save, stamp>>

\* An error says nothing about whether the request took effect.
Fail(r) ==
    /\ status[r] \in {"open", "committed"}
    /\ status' = [status EXCEPT ![r] = "error"]
    /\ UNCHANGED <<clock, save, stamp>>

Crash ==
    /\ status' = [r \in Requests |->
                    IF status[r] \in {"open", "committed"} THEN "lost" ELSE status[r]]
    /\ UNCHANGED <<clock, save, stamp>>

Next ==
    \/ Tick
    \/ \E r \in Requests : Submit(r) \/ Commit(r) \/ Acknowledge(r) \/ Fail(r)
    \/ Crash

Spec == Init /\ [][Next]_vars
=============================================================================
