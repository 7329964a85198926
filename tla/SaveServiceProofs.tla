-------------------------- MODULE SaveServiceProofs --------------------------
(***************************************************************************)
(* For any users and calls: a user's save is rewritten by one call at a    *)
(* time, in arrival order, and the map entry is kept exactly as long as it *)
(* is needed.  Hence, for any requests and length of run, awaiting the     *)
(* database inside withUserLock looks to every client like one indivisible *)
(* rewrite of its save (Atomic), because nobody else can have written the  *)
(* row a request has read (DataInv), because the lock is exclusive.        *)
(*                                                                         *)
(* Then the move of the saves to Postgres, for any number of processes,    *)
(* boots and writes, and tables in any order: what Postgres holds of the   *)
(* file is one moment's, no boot serves an empty game over a file with     *)
(* players in it, and a user in Postgres has an identity to log in with.   *)
(*                                                                         *)
(* Last what a request evaluates a save with, for any documents, events,   *)
(* loads and bounds: the config log, and what a load is served.            *)
(* getEffectiveConfig compares a version and an event's id; the proofs     *)
(* show when these two numbers stand for the document and the event.       *)
(***************************************************************************)
EXTENDS SaveService, Migration, ConfigService, TLAPS

(***************************************************************************)
(* The lock by itself.                                                     *)
(***************************************************************************)

\* Every variable of the lock keeps its type.
THEOREM LockTypeCorrect == LockSpec => []LockTypeOK
<1>1. LockInit => LockTypeOK
  BY NoCallAssumption DEF LockInit, LockTypeOK, Phases, Outcomes
<1>2. LockTypeOK /\ [LockNext]_lockVars => LockTypeOK'
  <2> SUFFICES ASSUME LockTypeOK, [LockNext]_lockVars PROVE LockTypeOK'
    OBVIOUS
  <2> USE UserOfAssumption DEF LockTypeOK, Phases, Outcomes
  <2>1. ASSUME NEW c \in Calls, WithUserLock(c) PROVE LockTypeOK'
    BY <2>1 DEF WithUserLock
  <2>2. ASSUME NEW c \in Calls, RunFn(c) PROVE LockTypeOK'
    BY <2>2 DEF RunFn
  <2>3. ASSUME NEW c \in Calls, NEW o \in Outcomes, SettleResult(c, o) PROVE LockTypeOK'
    BY <2>3 DEF SettleResult
  <2>4. ASSUME NEW c \in Calls, ResolveTail(c) PROVE LockTypeOK'
    BY <2>4 DEF ResolveTail
  <2>5. ASSUME NEW c \in Calls, DropEntry(c) PROVE LockTypeOK'
    BY <2>5 DEF DropEntry, ChainsAfterDrop
  <2>6. CASE LockRestart
    BY <2>6 DEF LockRestart, AfterRestart
  <2>7. CASE UNCHANGED lockVars
    BY <2>7 DEF lockVars
  <2> QED
    BY <2>1, <2>2, <2>3, <2>4, <2>5, <2>6, <2>7 DEF LockNext, Reaction
<1> QED
  BY <1>1, <1>2, PTL DEF LockSpec

-----------------------------------------------------------------------------

\* A step that leaves the queue alone and only moves the phase of one call
\* forward among the pending ones preserves what links the arrivals.
LEMMA PhaseMoveKeepsLinks ==
    ASSUME ChainInv, LockTypeOK',
           NEW c \in Calls, NEW p \in Pending \cup {"done"},
           phase[c] \in Pending,
           phase' = [phase EXCEPT ![c] = p],
           UNCHANGED <<previous, arrivals>>
    PROVE  ArrivalsAreCalls' /\ Linked'
<1> USE DEF ChainInv, LockTypeOK
<1>1. \A d \in Calls : /\ phase[d] \in Pending <=> phase'[d] \in Pending \/ (d = c /\ p = "done")
                       /\ phase[d] \in Pending \cup {"done"} => phase'[d] \in Pending \cup {"done"}
                       /\ phase[d] = "done" => phase'[d] = "done"
  BY DEF Pending
<1>2. \A w \in Users : \A i \in 1..Len(arrivals[w]) : arrivals[w][i] \in Calls
  OBVIOUS
<1>3. ArrivalsAreCalls'
  BY <1>1, <1>2 DEF ArrivalsAreCalls
<1>4. Linked'
  BY <1>1, <1>2 DEF Linked, ArrivalsAreCalls
<1> QED
  BY <1>3, <1>4

\* The synchronous part of withUserLock appends its caller to the chain.
LEMMA ArrivalKeepsChain ==
    ASSUME ChainInv, LockTypeOK', NEW c \in Calls, WithUserLock(c)
    PROVE  ChainInv'
<1> DEFINE u == UserOf[c]
           n == Len(arrivals[u])
<1> USE DEF ChainInv
<1>1. u \in Users /\ n \in Nat /\ arrivals[u] \in Seq(Calls)
  BY UserOfAssumption DEF LockTypeOK
<1>2. \A w \in Users : w # u => arrivals'[w] = arrivals[w]
  BY DEF WithUserLock, LockTypeOK
<1>3. /\ Len(arrivals'[u]) = n + 1
      /\ arrivals'[u][n + 1] = c
      /\ \A i \in 1..n : arrivals'[u][i] = arrivals[u][i]
  BY <1>1 DEF WithUserLock, LockTypeOK
<1>4. /\ \A d \in Calls : d # c => phase'[d] = phase[d] /\ previous'[d] = previous[d]
      /\ phase'[c] = "queued" /\ previous'[c] = chains[u]
      /\ chains'[u] = c
      /\ \A w \in Users : w # u => chains'[w] = chains[w]
  BY <1>1 DEF WithUserLock, LockTypeOK
<1>5. \A w \in Users : \A i \in 1..Len(arrivals[w]) :
         arrivals[w][i] \in Calls /\ arrivals[w][i] # c
  BY DEF WithUserLock, ArrivalsAreCalls, LockTypeOK, Pending
<1>6. ArrivalsAreCalls'
  <2>1. ASSUME NEW w \in Users, NEW i \in 1..Len(arrivals'[w])
        PROVE  UserOf[arrivals'[w][i]] = w /\ phase'[arrivals'[w][i]] \in Pending \cup {"done"}
    <3>1. CASE w = u /\ i = n + 1
      BY <3>1, <1>3, <1>4 DEF Pending
    <3>2. CASE ~(w = u /\ i = n + 1)
      <4>1. i \in 1..Len(arrivals[w]) /\ arrivals'[w][i] = arrivals[w][i]
        BY <3>2, <1>1, <1>2, <1>3
      <4> QED
        BY <4>1, <1>4, <1>5 DEF ArrivalsAreCalls
    <3> QED
      BY <3>1, <3>2
  <2>2. ASSUME NEW w \in Users, NEW i \in 1..Len(arrivals'[w]), NEW j \in 1..Len(arrivals'[w]),
               arrivals'[w][i] = arrivals'[w][j]
        PROVE  i = j
    <3>1. CASE w = u
      <4>1. ASSUME NEW k \in 1..(n + 1), NEW l \in 1..(n + 1), k < l
            PROVE  arrivals'[u][k] # arrivals'[u][l]
        <5>1. k \in 1..n /\ arrivals'[u][k] = arrivals[u][k] /\ arrivals[u][k] # c
          BY <4>1, <1>1, <1>3, <1>5
        <5>2. CASE l = n + 1
          BY <5>1, <5>2, <1>3
        <5>3. CASE l # n + 1
          <6>1. l \in 1..n /\ arrivals'[u][l] = arrivals[u][l] /\ k # l
            BY <4>1, <5>3, <1>1, <1>3
          <6>. QED
            BY <5>1, <6>1, <1>1 DEF ArrivalsAreCalls
        <5> QED
          BY <5>2, <5>3
      <4>2. i \in 1..(n + 1) /\ j \in 1..(n + 1)
        BY <3>1, <1>3
      <4> QED
        BY <4>1, <4>2, <3>1, <2>2, <1>1
    <3>2. CASE w # u
      BY <3>2, <2>2, <1>2 DEF ArrivalsAreCalls
    <3> QED
      BY <3>1, <3>2
  <2>3. ASSUME NEW d \in Calls, phase'[d] \in Pending
        PROVE  \E i \in 1..Len(arrivals'[UserOf[d]]) : arrivals'[UserOf[d]][i] = d
    <3>1. CASE d = c
      BY <3>1, <1>1, <1>3
    <3>2. CASE d # c
      <4>1. PICK i \in 1..Len(arrivals[UserOf[d]]) : arrivals[UserOf[d]][i] = d
        BY <2>3, <3>2, <1>4 DEF ArrivalsAreCalls
      <4>2. UserOf[d] \in Users
        BY UserOfAssumption
      <4> QED
        BY <4>1, <4>2, <1>1, <1>2, <1>3
    <3> QED
      BY <3>1, <3>2
  <2> QED
    BY <2>1, <2>2, <2>3 DEF ArrivalsAreCalls
<1>7. Linked'
  <2> SUFFICES ASSUME NEW w \in Users, NEW j \in 1..Len(arrivals'[w])
               PROVE  \/ j > 1 /\ previous'[arrivals'[w][j]] = arrivals'[w][j - 1]
                      \/ /\ previous'[arrivals'[w][j]] = NoCall
                         /\ j > 1 => phase'[arrivals'[w][j - 1]] = "done"
    BY DEF Linked
  <2>1. CASE w = u /\ j = n + 1
    <3>1. CASE n = 0
      BY <2>1, <3>1, <1>1, <1>3, <1>4 DEF EntryTracksLastCall
    <3>2. CASE n > 0
      BY <2>1, <3>2, <1>1, <1>3, <1>4, <1>5 DEF EntryTracksLastCall
    <3> QED
      BY <3>1, <3>2, <1>1
  <2>2. CASE ~(w = u /\ j = n + 1)
    <3>1. /\ j \in 1..Len(arrivals[w])
          /\ arrivals'[w][j] = arrivals[w][j]
          /\ j > 1 => arrivals'[w][j - 1] = arrivals[w][j - 1]
      BY <2>2, <1>1, <1>2, <1>3, SMTT(30)
    <3>2. j > 1 => j - 1 \in 1..Len(arrivals[w])
      BY <3>1, <1>1
    <3> QED
      BY <3>1, <3>2, <1>4, <1>5 DEF Linked
  <2> QED
    BY <2>1, <2>2
<1>8. ArrivalOrder'
  <2> SUFFICES ASSUME NEW w \in Users, NEW j \in 1..Len(arrivals'[w]), NEW i \in 1..(j - 1),
                      phase'[arrivals'[w][j]] # "queued"
               PROVE  phase'[arrivals'[w][i]] \in {"tail", "done"}
    BY DEF ArrivalOrder
  <2>1. ~(w = u /\ j = n + 1)
    BY <1>1, <1>3, <1>4
  <2>2. /\ j \in 1..Len(arrivals[w]) /\ i \in 1..Len(arrivals[w])
        /\ arrivals'[w][j] = arrivals[w][j]
        /\ arrivals'[w][i] = arrivals[w][i]
    BY <2>1, <1>1, <1>2, <1>3
  <2> QED
    BY <2>2, <1>4, <1>5 DEF ArrivalOrder
<1>9. EntryTracksLastCall'
  <2> SUFFICES ASSUME NEW w \in Users
               PROVE  LET m == Len(arrivals'[w]) IN
                      IF m = 0 \/ (m > 0 /\ phase'[arrivals'[w][m]] = "done")
                      THEN chains'[w] = NoCall
                      ELSE chains'[w] = arrivals'[w][m]
    BY DEF EntryTracksLastCall
  <2>1. CASE w = u
    BY <2>1, <1>1, <1>3, <1>4
  <2>2. CASE w # u
    <3>1. Len(arrivals[w]) \in Nat
      BY DEF LockTypeOK
    <3> QED
      BY <2>2, <3>1, <1>2, <1>4, <1>5 DEF EntryTracksLastCall
  <2> QED
    BY <2>1, <2>2
<1> QED
  BY <1>6, <1>7, <1>8, <1>9

\* A call whose predecessor's tail is fulfilled is the first of its user not
\* to have finished.
LEMMA RunKeepsChain ==
    ASSUME ChainInv, LockTypeOK', NEW c \in Calls, RunFn(c)
    PROVE  ChainInv'
<1> USE DEF ChainInv
<1>1. ArrivalsAreCalls' /\ Linked'
  BY PhaseMoveKeepsLinks DEF RunFn, Pending
<1>2. ArrivalOrder'
  <2> SUFFICES ASSUME NEW w \in Users, NEW j \in 1..Len(arrivals[w]), NEW i \in 1..(j - 1),
                      phase'[arrivals[w][j]] # "queued"
               PROVE  phase'[arrivals[w][i]] \in {"tail", "done"}
    BY DEF ArrivalOrder, RunFn
  <2>0. Len(arrivals[w]) \in Nat /\ i \in 1..Len(arrivals[w])
        /\ arrivals[w][i] \in Calls /\ arrivals[w][j] \in Calls
    BY DEF LockTypeOK
  <2>1. CASE arrivals[w][j] = c
    <3>1. j - 1 \in 1..Len(arrivals[w]) /\ arrivals[w][j - 1] \in Calls
      BY <2>0 DEF LockTypeOK
    <3>2. phase[arrivals[w][j - 1]] \in {"tail", "done"}
      BY <2>1, <3>1, NoCallAssumption DEF Linked, RunFn, Fulfilled
    <3>3. phase[arrivals[w][i]] \in {"tail", "done"}
      <4>1. CASE i = j - 1
        BY <4>1, <3>2
      <4>2. CASE i # j - 1
        BY <4>2, <3>1, <3>2 DEF ArrivalOrder
      <4> QED
        BY <4>1, <4>2
    <3> QED
      BY <3>3, <2>0 DEF RunFn, LockTypeOK
  <2>2. CASE arrivals[w][j] # c
    BY <2>2, <2>0 DEF ArrivalOrder, RunFn, LockTypeOK
  <2> QED
    BY <2>1, <2>2
<1>3. EntryTracksLastCall'
  BY DEF EntryTracksLastCall, RunFn, LockTypeOK
<1> QED
  BY <1>1, <1>2, <1>3

\* Settling, and resolving the tail, only move the one call that left the
\* queue last.
LEMMA SettleKeepsChain ==
    ASSUME ChainInv, LockTypeOK', NEW c \in Calls,
           NEW p \in {"settled", "tail"}, NEW q \in {"running", "settled"},
           phase[c] = q, phase' = [phase EXCEPT ![c] = p],
           UNCHANGED <<chains, previous, arrivals>>
    PROVE  ChainInv'
<1> USE DEF ChainInv
<1>1. ArrivalsAreCalls' /\ Linked'
  BY PhaseMoveKeepsLinks DEF Pending
<1>2. ArrivalOrder'
  <2> SUFFICES ASSUME NEW w \in Users, NEW j \in 1..Len(arrivals[w]), NEW i \in 1..(j - 1),
                      phase'[arrivals[w][j]] # "queued"
               PROVE  phase'[arrivals[w][i]] \in {"tail", "done"}
    BY DEF ArrivalOrder
  <2>1. arrivals[w][i] \in Calls /\ arrivals[w][j] \in Calls
    BY DEF LockTypeOK
  <2>2. phase[arrivals[w][i]] \in {"tail", "done"}
    BY <2>1 DEF ArrivalOrder, LockTypeOK
  <2> QED
    BY <2>1, <2>2 DEF LockTypeOK
<1>3. EntryTracksLastCall'
  BY DEF EntryTracksLastCall, LockTypeOK
<1> QED
  BY <1>1, <1>2, <1>3

\* The clean-up deletes the entry only if it is still its own.
LEMMA DropKeepsChain ==
    ASSUME ChainInv, LockTypeOK', NEW c \in Calls, DropEntry(c)
    PROVE  ChainInv'
<1> USE DEF ChainInv
<1>1. ArrivalsAreCalls' /\ Linked'
  BY PhaseMoveKeepsLinks DEF DropEntry, Pending
<1>2. ArrivalOrder'
  <2> SUFFICES ASSUME NEW w \in Users, NEW j \in 1..Len(arrivals[w]), NEW i \in 1..(j - 1),
                      phase'[arrivals[w][j]] # "queued"
               PROVE  phase'[arrivals[w][i]] \in {"tail", "done"}
    BY DEF ArrivalOrder, DropEntry
  <2>1. arrivals[w][i] \in Calls /\ arrivals[w][j] \in Calls
    BY DEF LockTypeOK
  <2>2. phase[arrivals[w][i]] \in {"tail", "done"}
    BY <2>1 DEF ArrivalOrder, DropEntry, LockTypeOK
  <2> QED
    BY <2>1, <2>2 DEF DropEntry, LockTypeOK
<1>3. EntryTracksLastCall'
  <2> SUFFICES ASSUME NEW w \in Users
               PROVE  LET n == Len(arrivals[w]) IN
                      IF n = 0 \/ (n > 0 /\ phase'[arrivals[w][n]] = "done")
                      THEN chains'[w] = NoCall
                      ELSE chains'[w] = arrivals[w][n]
    BY DEF EntryTracksLastCall, DropEntry
  <2> DEFINE n == Len(arrivals[w])
  <2>1. n \in Nat /\ (n > 0 => arrivals[w][n] \in Calls /\ UserOf[arrivals[w][n]] = w)
    BY DEF LockTypeOK, ArrivalsAreCalls
  <2>2. CASE n > 0 /\ arrivals[w][n] = c
    BY <2>1, <2>2, NoCallAssumption DEF EntryTracksLastCall, DropEntry, ChainsAfterDrop, LockTypeOK
  <2>3. CASE ~(n > 0 /\ arrivals[w][n] = c)
    <3>1. chains[w] # c
      BY <2>1, <2>3, NoCallAssumption DEF EntryTracksLastCall
    <3>2. chains'[w] = chains[w]
      BY <3>1 DEF DropEntry, ChainsAfterDrop, LockTypeOK
    <3> QED
      BY <2>1, <2>3, <3>2 DEF EntryTracksLastCall, DropEntry, LockTypeOK
  <2> QED
    BY <2>2, <2>3
<1> QED
  BY <1>1, <1>2, <1>3

\* A restart leaves nothing pending and an empty map.
LEMMA RestartKeepsChain ==
    ASSUME ChainInv, LockTypeOK', LockRestart
    PROVE  ChainInv'
<1>1. \A u \in Users : arrivals'[u] = <<>> /\ Len(arrivals'[u]) = 0 /\ chains'[u] = NoCall
  BY DEF LockRestart
<1>2. \A c \in Calls : phase'[c] \notin Pending
  BY DEF LockRestart, AfterRestart, Pending
<1> QED
  BY <1>1, <1>2 DEF ChainInv, ArrivalsAreCalls, Linked, ArrivalOrder, EntryTracksLastCall

LEMMA ChainInvariant == LockSpec => []ChainInv
<1>1. LockInit => ChainInv
  <2> SUFFICES ASSUME LockInit PROVE ChainInv
    OBVIOUS
  <2>1. LockTypeOK
    BY NoCallAssumption DEF LockInit, LockTypeOK, Phases, Outcomes
  <2>2. \A u \in Users : arrivals[u] = <<>> /\ chains[u] = NoCall
    BY Zenon DEF LockInit
  <2> QED
    BY <2>1, <2>2 DEF LockInit, ChainInv, ArrivalsAreCalls, Linked, ArrivalOrder,
                      EntryTracksLastCall, Pending
<1>2. ChainInv /\ LockTypeOK' /\ [LockNext]_lockVars => ChainInv'
  <2> SUFFICES ASSUME ChainInv, LockTypeOK', [LockNext]_lockVars PROVE ChainInv'
    OBVIOUS
  <2>1. ASSUME NEW c \in Calls, WithUserLock(c) PROVE ChainInv'
    BY <2>1, ArrivalKeepsChain
  <2>2. ASSUME NEW c \in Calls, RunFn(c) PROVE ChainInv'
    BY <2>2, RunKeepsChain
  <2>3. ASSUME NEW c \in Calls, NEW o \in Outcomes, SettleResult(c, o) PROVE ChainInv'
    BY <2>3, SettleKeepsChain DEF SettleResult
  <2>4. ASSUME NEW c \in Calls, ResolveTail(c) PROVE ChainInv'
    BY <2>4, SettleKeepsChain DEF ResolveTail
  <2>5. ASSUME NEW c \in Calls, DropEntry(c) PROVE ChainInv'
    BY <2>5, DropKeepsChain
  <2>6. CASE LockRestart
    BY <2>6, RestartKeepsChain
  <2>7. CASE UNCHANGED lockVars
    BY <2>7 DEF lockVars, ChainInv, LockTypeOK, ArrivalsAreCalls, Linked, ArrivalOrder,
                EntryTracksLastCall
  <2> QED
    BY <2>1, <2>2, <2>3, <2>4, <2>5, <2>6, <2>7 DEF LockNext, Reaction
<1> QED
  BY <1>1, <1>2, LockTypeCorrect, PTL DEF LockSpec

-----------------------------------------------------------------------------

\* withUserLock gives its fn exclusive access: of two running calls of one
\* user the later arrival would have left the queue before the earlier one
\* finished.
THEOREM ExclusiveAccess == LockSpec => []Exclusive
<1>1. ChainInv => Exclusive
  <2> SUFFICES ASSUME ChainInv,
                      NEW c \in Calls, NEW d \in Calls, UserOf[c] = UserOf[d],
                      phase[c] = "running", phase[d] = "running"
               PROVE  c = d
    BY DEF Exclusive
  <2> DEFINE s == arrivals[UserOf[c]]
  <2>1. PICK i \in 1..Len(s) : s[i] = c
    BY DEF ChainInv, ArrivalsAreCalls, Pending
  <2>2. PICK j \in 1..Len(s) : s[j] = d
    BY DEF ChainInv, ArrivalsAreCalls, Pending
  <2>3. UserOf[c] \in Users /\ Len(s) \in Nat
    BY UserOfAssumption DEF ChainInv, LockTypeOK
  <2>4. ~(i < j) /\ ~(j < i)
    BY <2>1, <2>2, <2>3 DEF ChainInv, ArrivalOrder
  <2> QED
    BY <2>1, <2>2, <2>3, <2>4
<1> QED
  BY <1>1, ChainInvariant, PTL

\* Calls of one user run in the order they arrived.
THEOREM RunsInArrivalOrder == LockSpec => []ArrivalOrder
<1>1. ChainInv => ArrivalOrder
  BY DEF ChainInv
<1> QED
  BY <1>1, ChainInvariant, PTL

\* The map entry of a user is the tail of the last unfinished arrival.
THEOREM EntryIsLastCall == LockSpec => []EntryTracksLastCall
<1>1. ChainInv => EntryTracksLastCall
  BY DEF ChainInv
<1> QED
  BY <1>1, ChainInvariant, PTL

-----------------------------------------------------------------------------
(***************************************************************************)
(* The save path under the lock.                                           *)
(***************************************************************************)

USE DEF lockVars, dataVars

\* A request runs its fn, or one of its bookkeeping reactions, through steps
\* the lock allows; every other step leaves the lock alone.
LEMMA StepsOfLock == Spec => LockSpec
<1>1. Init => LockInit
  BY DEF Init
<1>2. [Next]_vars => [LockNext]_lockVars
  <2> SUFFICES ASSUME [Next]_vars PROVE [LockNext]_lockVars
    OBVIOUS
  <2>1. ASSUME NEW r \in Calls, Arrive(r) PROVE LockNext
    BY <2>1 DEF Arrive, LockNext
  <2>2. ASSUME NEW r \in Calls, Begin(r) PROVE LockNext
    BY <2>2 DEF Begin, LockNext, Reaction
  <2>3. ASSUME NEW r \in Calls, Return(r) \/ Throw(r) PROVE LockNext
    BY <2>3 DEF Return, Throw, LockNext, Reaction, Outcomes
  <2>4. ASSUME NEW r \in Calls, Cleanup(r) PROVE LockNext
    BY <2>4 DEF Cleanup, LockNext, Reaction
  <2>5. CASE Restart
    BY <2>5 DEF Restart, LockNext
  <2>6. ASSUME \/ Tick
               \/ UNCHANGED vars
               \/ \E r \in Calls : \/ LoadEvaluateAndSchedule(r)
                                   \/ PutSave(r)
                                   \/ UpdateParticipationProgress(r)
        PROVE  UNCHANGED lockVars
    BY <2>6 DEF Tick, vars, LoadEvaluateAndSchedule, PutSave,
                UpdateParticipationProgress, lockVars
  <2> QED
    BY <2>1, <2>2, <2>3, <2>4, <2>5, <2>6 DEF Next, Advance
<1> QED
  BY <1>1, <1>2, PTL DEF Spec, LockSpec

LEMMA LockInvariant == Spec => [](ChainInv /\ Exclusive)
  BY ChainInvariant, ExclusiveAccess, StepsOfLock, PTL

-----------------------------------------------------------------------------

\* Writing a request's result into a save gives a save.
LEMMA RewrittenIsSave ==
    ASSUME NEW old \in Store!Save \cup {NoSave}, NEW r \in Calls, NEW now \in Nat
    PROVE  Store!Rewritten(old, r, now) \in Store!Save
<1> DEFINE s == Store!Loaded(old, now)
<1>1. s \in Store!Save
  BY DEF Store!Loaded, Store!Save
<1>2. Store!PaidFor(Store!Elapsed(s.last, now)) \in Nat
  BY <1>1, TimeAssumption DEF Store!PaidFor, Store!Elapsed, Store!Save
<1> QED
  BY <1>1, <1>2 DEF Store!Rewritten, Store!Save

\* Each step of a request keeps DataInv; the lock's own invariants are given.
LEMMA StepKeepsDataInv ==
    ASSUME DataInv, ChainInv, Exclusive, LockTypeOK', [Next]_vars
    PROVE  DataInv'
<1> USE RequestAssumption, UserOfAssumption, NoCallAssumption DEF DataInv
<1>1. CASE Tick
  <2>1. TypeOK'
    BY <1>1 DEF Tick, TypeOK
  <2>2. StampsInOrder'
    BY <1>1 DEF Tick, StampsInOrder, TypeOK
  <2>3. LocalWhileRunning' /\ ViewIsCurrent'
    BY <1>1 DEF Tick, LocalWhileRunning, ViewIsCurrent
  <2> QED
    BY <2>1, <2>2, <2>3
<1>2. ASSUME NEW r \in Calls, Arrive(r) PROVE DataInv'
  <2> DEFINE u == UserOf[r]
             n == Len(arrivals[u])
  <2> USE <1>2 DEF Arrive, WithUserLock
  <2>1. TypeOK'
    BY DEF TypeOK
  <2>2. StampsInOrder'
    <3>1. \A q \in Calls : stamp'[q] <= clock'
      BY DEF TypeOK, StampsInOrder
    <3>2. ASSUME NEW w \in Users, NEW j \in 1..Len(arrivals'[w]), NEW i \in 1..(j - 1)
          PROVE  stamp'[arrivals'[w][i]] <= stamp'[arrivals'[w][j]]
      <4>1. ASSUME NEW v \in Users, NEW k \in 1..Len(arrivals[v])
            PROVE  arrivals[v][k] \in Calls /\ arrivals[v][k] # r
        <5>1. arrivals[v] \in Seq(Calls)
          BY DEF ChainInv, LockTypeOK
        <5>2. phase[arrivals[v][k]] # "idle"
          BY DEF ChainInv, ArrivalsAreCalls, Pending
        <5> QED
          BY <5>1, <5>2
      <4>2. n \in Nat /\ Len(arrivals[w]) \in Nat /\ arrivals[u] \in Seq(Calls)
        BY DEF ChainInv, LockTypeOK
      <4>3. arrivals' = [arrivals EXCEPT ![u] = Append(@, r)]
        OBVIOUS
      <4>4. CASE w = u /\ j = n + 1
        <5>1. i \in 1..n /\ arrivals'[w][j] = r /\ arrivals'[w][i] = arrivals[w][i]
          BY <4>2, <4>3, <4>4 DEF ChainInv, LockTypeOK
        <5> QED
          BY <5>1, <4>1, <4>4 DEF TypeOK, StampsInOrder
      <4>5. CASE ~(w = u /\ j = n + 1)
        <5>1. /\ j \in 1..Len(arrivals[w]) /\ i \in 1..Len(arrivals[w])
              /\ arrivals'[w][j] = arrivals[w][j] /\ arrivals'[w][i] = arrivals[w][i]
          BY <4>2, <4>3, <4>5 DEF ChainInv, LockTypeOK
        <5> QED
          BY <5>1, <4>1 DEF TypeOK, StampsInOrder
      <4> QED
        BY <4>4, <4>5
    <3> QED
      BY <3>1, <3>2 DEF StampsInOrder
  <2>3. LocalWhileRunning'
    BY DEF LocalWhileRunning, TypeOK, LockTypeOK
  <2>4. ViewIsCurrent'
    BY DEF ViewIsCurrent, LocalWhileRunning, TypeOK
  <2> QED
    BY <2>1, <2>2, <2>3, <2>4
<1>3. ASSUME NEW r \in Calls, Begin(r) \/ Cleanup(r) PROVE DataInv'
  <2> USE <1>3 DEF Begin, Cleanup, RunFn, ResolveTail, DropEntry
  <2>1. TypeOK' /\ StampsInOrder'
    BY DEF TypeOK, StampsInOrder
  <2>2. LocalWhileRunning' /\ ViewIsCurrent'
    BY DEF LocalWhileRunning, ViewIsCurrent, TypeOK, LockTypeOK
  <2> QED
    BY <2>1, <2>2
<1>4. ASSUME NEW r \in Calls, LoadEvaluateAndSchedule(r) PROVE DataInv'
  <2> USE <1>4 DEF LoadEvaluateAndSchedule
  <2>1. TypeOK'
    <3>1. Store!Rewritten(save[UserOf[r]], r, stamp[r]) \in Store!Save
      BY RewrittenIsSave DEF TypeOK
    <3> QED
      BY <3>1 DEF TypeOK
  <2>2. StampsInOrder'
    BY DEF StampsInOrder
  <2>3. LocalWhileRunning' /\ ViewIsCurrent'
    BY DEF LocalWhileRunning, ViewIsCurrent, TypeOK
  <2> QED
    BY <2>1, <2>2, <2>3
<1>5. ASSUME NEW r \in Calls, PutSave(r) PROVE DataInv'
  <2> USE <1>5 DEF PutSave
  <2>1. TypeOK'
    BY DEF TypeOK
  <2>2. StampsInOrder'
    BY DEF StampsInOrder
  <2>3. LocalWhileRunning'
    BY DEF LocalWhileRunning, TypeOK
  <2>4. ViewIsCurrent'
    <3> SUFFICES ASSUME NEW q \in Calls, step'[q] = "loaded"
                 PROVE  view'[q] = Store!Rewritten(save'[UserOf[q]], q, stamp'[q])
      BY DEF ViewIsCurrent
    <3>1. q # r /\ step[q] = "loaded" /\ phase[q] = "running"
      BY DEF TypeOK, LocalWhileRunning
    <3>2. UserOf[q] # UserOf[r]
      BY <3>1 DEF Exclusive
    <3> QED
      BY <3>1, <3>2 DEF ViewIsCurrent, TypeOK
  <2> QED
    BY <2>1, <2>2, <2>3, <2>4
<1>6. ASSUME NEW r \in Calls, UpdateParticipationProgress(r) PROVE DataInv'
  <2> USE <1>6 DEF UpdateParticipationProgress
  <2>1. Len(Claims(view[r])) \in Nat
    BY DEF TypeOK, Claims, Store!Save
  <2>2. TypeOK'
    BY <2>1 DEF TypeOK
  <2>3. StampsInOrder' /\ LocalWhileRunning' /\ ViewIsCurrent'
    BY DEF StampsInOrder, LocalWhileRunning, ViewIsCurrent, TypeOK
  <2> QED
    BY <2>2, <2>3
<1>7. ASSUME NEW r \in Calls, Return(r) \/ Throw(r) PROVE DataInv'
  <2> USE <1>7 DEF Return, Throw, Leave, SettleResult
  <2>1. TypeOK' /\ StampsInOrder'
    BY DEF TypeOK, StampsInOrder
  <2>2. /\ UNCHANGED <<save, stamp>>
        /\ \A q \in Calls : /\ step'[q] = IF q = r THEN "start" ELSE step[q]
                            /\ q # r => view'[q] = view[q]
    BY DEF TypeOK
  <2>5. \A q \in Calls : q # r => phase'[q] = phase[q]
    BY DEF LockTypeOK, ChainInv
  <2>3. LocalWhileRunning'
    BY <2>2, <2>5 DEF LocalWhileRunning
  <2>4. ViewIsCurrent'
    BY <2>2 DEF ViewIsCurrent
  <2> QED
    BY <2>1, <2>3, <2>4
<1>8. CASE Restart
  <2> USE <1>8 DEF Restart, Leave, LockRestart
  <2>1. TypeOK' /\ LocalWhileRunning' /\ ViewIsCurrent'
    BY DEF TypeOK, LocalWhileRunning, ViewIsCurrent
  <2>2. StampsInOrder'
    BY DEF StampsInOrder
  <2> QED
    BY <2>1, <2>2
<1>9. CASE UNCHANGED vars
  BY <1>9 DEF vars, TypeOK, StampsInOrder, LocalWhileRunning, ViewIsCurrent
<1> QED
  BY <1>1, <1>2, <1>3, <1>4, <1>5, <1>6, <1>7, <1>8, <1>9 DEF Next, Advance

LEMMA DataInvariant == Spec => []DataInv
<1>1. ASSUME Init, ChainInv PROVE DataInv
  <2> USE <1>1 DEF Init
  <2>1. TypeOK
    <3>1. [since |-> 0, last |-> 0, paid |-> 0, applied |-> <<>>] \in Store!Save
      BY DEF Store!Save
    <3>2. save \in [Users -> Store!Save \cup {NoSave}]
      BY <3>1
    <3> QED
      BY <3>2 DEF TypeOK, ChainInv
  <2>2. StampsInOrder
    <3>1. \A u \in Users : arrivals[u] = <<>>
      BY Zenon DEF LockInit
    <3> QED
      BY <3>1 DEF StampsInOrder
  <2>3. LocalWhileRunning /\ ViewIsCurrent
    BY DEF LocalWhileRunning, ViewIsCurrent
  <2> QED
    BY <2>1, <2>2, <2>3 DEF DataInv
<1>2. DataInv /\ ChainInv /\ Exclusive /\ ChainInv' /\ [Next]_vars => DataInv'
  BY StepKeepsDataInv DEF ChainInv
<1> QED
  BY <1>1, <1>2, LockInvariant, PTL DEF Spec

\* Every variable of the save path keeps its type.
THEOREM TypeCorrect == Spec => []TypeOK
<1>1. DataInv => TypeOK
  BY DEF DataInv
<1> QED
  BY <1>1, DataInvariant, PTL

-----------------------------------------------------------------------------

\* Seen from its clients, each step of the save path is one of the abstract
\* store's, or none.
LEMMA StepsOfStore ==
    ASSUME DataInv, ChainInv, Exclusive, [Next]_vars
    PROVE  [Store!Next]_(Store!vars)
<1> DEFINE status == [q \in Calls |-> Status(q)]
<1> USE RequestAssumption, UserOfAssumption, NoCallAssumption DEF DataInv
<1>0. phase \in [Calls -> Phases] /\ outcome \in [Calls -> Outcomes \cup {"none"}]
  BY DEF ChainInv, LockTypeOK
<1>1. CASE Tick
  BY <1>1 DEF Tick, Store!Next, Store!Tick, Status
<1>2. ASSUME NEW r \in Calls, Arrive(r) PROVE Store!Next
  <2>1. status' = [status EXCEPT ![r] = "open"] /\ status[r] = "unsent"
    BY <1>2, <1>0 DEF Arrive, WithUserLock, Status
  <2> QED
    BY <1>2, <2>1 DEF Arrive, WithUserLock, Store!Next, Store!Submit
<1>3. ASSUME NEW r \in Calls, PutSave(r) PROVE Store!Next
  <2>1. status' = [status EXCEPT ![r] = "committed"] /\ status[r] = "open"
    BY <1>3, <1>0 DEF PutSave, Status, TypeOK
  <2>2. save' = [save EXCEPT ![UserOf[r]] = Store!Rewritten(@, r, stamp[r])]
    BY <1>3 DEF PutSave, ViewIsCurrent, TypeOK
  <2>3. Store!InTurn(r)
    <3> SUFFICES ASSUME NEW q \in Calls, UserOf[q] = UserOf[r], status[q] = "open"
                 PROVE  stamp[r] <= stamp[q]
      BY DEF Store!InTurn
    <3> DEFINE s == arrivals[UserOf[r]]
    <3>1. phase[r] = "running" /\ phase[q] \in {"queued", "running"}
      BY <1>3, <1>0 DEF PutSave, Status, Phases
    <3>2. PICK i \in 1..Len(s) : s[i] = r
      BY <3>1 DEF ChainInv, ArrivalsAreCalls, Pending
    <3>3. PICK j \in 1..Len(s) : s[j] = q
      BY <3>1 DEF ChainInv, ArrivalsAreCalls, Pending
    <3>4. Len(s) \in Nat /\ UserOf[r] \in Users
      BY DEF ChainInv, LockTypeOK
    <3>5. ~(j < i)
      BY <3>1, <3>2, <3>3, <3>4 DEF ChainInv, ArrivalOrder
    <3>6. CASE i = j
      BY <3>2, <3>3, <3>6 DEF TypeOK
    <3>7. CASE i < j
      BY <3>2, <3>3, <3>4, <3>7 DEF StampsInOrder
    <3> QED
      BY <3>4, <3>5, <3>6, <3>7
  <2> QED
    BY <1>3, <2>1, <2>2, <2>3 DEF PutSave, Store!Next, Store!Commit
<1>4. ASSUME NEW r \in Calls, Return(r) PROVE Store!Next
  <2>1. status' = [status EXCEPT ![r] = "ok"] /\ status[r] = "committed"
    BY <1>4, <1>0 DEF Return, Leave, LastStep, SettleResult, Status, TypeOK
  <2> QED
    BY <1>4, <2>1 DEF Return, Leave, Store!Next, Store!Acknowledge
<1>5. ASSUME NEW r \in Calls, Throw(r) PROVE Store!Next
  <2>1. status' = [status EXCEPT ![r] = "error"] /\ status[r] \in {"open", "committed"}
    BY <1>5, <1>0 DEF Throw, Leave, SettleResult, Status, TypeOK
  <2> QED
    BY <1>5, <2>1 DEF Throw, Leave, Store!Next, Store!Fail
<1>6. CASE Restart
  <2>1. status' = [q \in Calls |->
                     IF status[q] \in {"open", "committed"} THEN "lost" ELSE status[q]]
    BY <1>6, <1>0 DEF Restart, Leave, LockRestart, AfterRestart, Status, Phases
  <2> QED
    BY <1>6, <2>1 DEF Restart, Leave, Store!Next, Store!Crash
<1>7. ASSUME NEW r \in Calls,
             \/ Begin(r) \/ LoadEvaluateAndSchedule(r)
             \/ UpdateParticipationProgress(r) \/ Cleanup(r)
      PROVE  UNCHANGED Store!vars
  <2>1. CASE Begin(r)
    BY <2>1, <1>0 DEF Begin, RunFn, Status, LocalWhileRunning, Store!vars
  <2>2. CASE LoadEvaluateAndSchedule(r)
    BY <2>2, <1>0 DEF LoadEvaluateAndSchedule, Status, TypeOK, Store!vars
  <2>3. CASE UpdateParticipationProgress(r)
    BY <2>3, <1>0 DEF UpdateParticipationProgress, Status, TypeOK, Store!vars
  <2>4. CASE Cleanup(r)
    BY <2>4, <1>0 DEF Cleanup, ResolveTail, DropEntry, Status, Store!vars
  <2> QED
    BY <1>7, <2>1, <2>2, <2>3, <2>4
<1>8. CASE UNCHANGED vars
  BY <1>8 DEF vars, Store!vars, Status
<1> QED
  BY <1>1, <1>2, <1>3, <1>4, <1>5, <1>6, <1>7, <1>8 DEF Next, Advance

\* Every behaviour of the save path is one of the store that rewrites saves in
\* one indivisible step, in arrival order.
THEOREM Atomic == Spec => LooksAtomic
<1>1. Init => Store!Init
  BY DEF Init, Store!Init, Status, LockInit
<1>2. DataInv /\ ChainInv /\ Exclusive /\ [Next]_vars => [Store!Next]_(Store!vars)
  BY StepsOfStore
<1> QED
  BY <1>1, <1>2, DataInvariant, LockInvariant, PTL DEF Spec, LooksAtomic, Store!Spec

-----------------------------------------------------------------------------

\* Evaluating and applying keeps what the save held, and moves its clock to
\* the request's `now`.
LEMMA RewrittenKeeps ==
    ASSUME NEW old \in Store!Save \cup {NoSave}, NEW r \in Calls, NEW now \in Nat,
           old # NoSave => old.last <= now /\ old.since + old.paid <= old.last
    PROVE  LET new == Store!Rewritten(old, r, now) IN
           /\ new # NoSave
           /\ new.last = now
           /\ new.since + new.paid <= new.last
           /\ r \notin ReadOnly => Contains(new.applied, r)
           /\ old # NoSave =>
                 /\ new.since = old.since
                 /\ IsPrefix(old.applied, new.applied)
                 /\ \A q \in Calls : Contains(old.applied, q) => Contains(new.applied, q)
<1> DEFINE s == Store!Loaded(old, now)
           new == Store!Rewritten(old, r, now)
<1>1. s \in Store!Save /\ s.last <= now /\ s.since + s.paid <= s.last
  BY DEF Store!Loaded, Store!Save
<1>2. new \in Store!Save /\ new # NoSave
  BY RewrittenIsSave, NoSaveAssumption
<1>3. new.last = now /\ new.since = s.since /\ new.since + new.paid <= new.last
  BY <1>1 DEF Store!Rewritten, Store!PaidFor, Store!Elapsed, Store!Save
<1>4. new.applied = IF r \in ReadOnly THEN s.applied ELSE Append(s.applied, r)
  BY DEF Store!Rewritten
<1>5. s.applied \in Seq(Calls)
  BY <1>1 DEF Store!Save
<1>6. r \notin ReadOnly => Contains(new.applied, r)
  <2>1. ASSUME r \notin ReadOnly PROVE new.applied[Len(s.applied) + 1] = r /\ Len(new.applied) = Len(s.applied) + 1
    BY <2>1, <1>4, <1>5
  <2> QED
    BY <2>1, <1>5 DEF Contains
<1>7. IsPrefix(s.applied, new.applied)
  BY <1>4, <1>5 DEF IsPrefix
<1>8. ASSUME NEW q \in Calls, Contains(s.applied, q) PROVE Contains(new.applied, q)
  <2>1. PICK i \in 1..Len(s.applied) : s.applied[i] = q
    BY <1>8 DEF Contains
  <2>2. i \in 1..Len(new.applied) /\ new.applied[i] = q
    BY <2>1, <1>4, <1>5
  <2> QED
    BY <2>2 DEF Contains
<1>9. old # NoSave => s = old
  BY DEF Store!Loaded
<1> QED
  BY <1>2, <1>3, <1>6, <1>7, <1>8, <1>9

\* The store's own steps preserve SaveInv, so the steps that implement them do.
LEMMA StoreStepKeepsSaveInv ==
    ASSUME TypeOK, TypeOK', StampsInOrder, SaveInv, [Store!Next]_(Store!vars)
    PROVE  SaveInv'
<1> DEFINE status == [q \in Calls |-> Status(q)]
<1>0. /\ \A q \in Calls : status[q] = Status(q) /\ status'[q] = Status(q)'
      /\ save \in [Users -> Store!Save \cup {NoSave}]
      /\ stamp \in [Calls -> Nat] /\ clock \in Nat
      /\ UserOf \in [Calls -> Users]
  BY RequestAssumption, UserOfAssumption, NoCallAssumption DEF TypeOK
<1> DEFINE Kept(q) == q \notin ReadOnly => Contains(Applied(UserOf[q]), q)
           Behind(u, t) == save[u] # NoSave => save[u].last <= t
<1>1. SaveInv <=> /\ \A q \in Calls : status[q] \in {"committed", "ok"} => Kept(q)
                  /\ \A u \in Users : Behind(u, clock)
                  /\ \A q \in Calls : status[q] = "open" => Behind(UserOf[q], stamp[q])
                  /\ NoTimePaidTwice
  BY <1>0 DEF SaveInv
<1>2. SaveInv' <=> /\ \A q \in Calls : status'[q] \in {"committed", "ok"} => Kept(q)'
                   /\ \A u \in Users : Behind(u, clock)'
                   /\ \A q \in Calls : status'[q] = "open" => Behind(UserOf[q], stamp[q])'
                   /\ NoTimePaidTwice'
  BY <1>0 DEF SaveInv
<1> HIDE DEF status
<1>3. CASE \E r \in Calls : Store!Commit(r)
  <2> PICK r \in Calls : Store!Commit(r)
    BY <1>3
  <2> DEFINE u == UserOf[r]
             new == Store!Rewritten(save[u], r, stamp[r])
  <2>1. /\ status' = [status EXCEPT ![r] = "committed"] /\ status[r] = "open"
        /\ save' = [save EXCEPT ![u] = new]
        /\ UNCHANGED <<clock, stamp>>
        /\ \A q \in Calls : UserOf[q] = u /\ status[q] = "open" => stamp[r] <= stamp[q]
    BY DEF Store!Commit, Store!InTurn, status
  <2>2. Behind(u, stamp[r]) /\ (save[u] # NoSave => save[u].since + save[u].paid <= save[u].last)
    BY <2>1, <1>0, <1>1 DEF SaveInv, NoTimePaidTwice
  <2>a. save[u] \in Store!Save \cup {NoSave} /\ stamp[r] \in Nat /\ u \in Users /\ stamp[r] <= clock
    BY <1>0, StampsInOrder DEF StampsInOrder
  <2>3. /\ new # NoSave
        /\ new.last = stamp[r]
        /\ new.since + new.paid <= new.last
        /\ r \notin ReadOnly => Contains(new.applied, r)
        /\ save[u] # NoSave =>
              \A q \in Calls : Contains(save[u].applied, q) => Contains(new.applied, q)
    BY <2>2, <2>a, RewrittenKeeps
  <2>4. ASSUME NEW q \in Calls, status'[q] \in {"committed", "ok"}, q \notin ReadOnly
        PROVE  Contains(Applied(UserOf[q]), q)'
    <3>1. CASE q = r
      BY <3>1, <2>1, <2>3, <2>4, <1>0 DEF Applied
    <3>2. CASE q # r
      <4>1. Contains(Applied(UserOf[q]), q)
        BY <3>2, <2>1, <2>4, <1>1, <1>0, SaveInv DEF status
      <4>2. CASE UserOf[q] = u
        <5>1. save[u] # NoSave
          BY <4>1, <4>2 DEF Applied, Contains
        <5> QED
          BY <4>1, <4>2, <5>1, <2>1, <2>3, <1>0 DEF Applied
      <4>3. CASE UserOf[q] # u
        BY <4>1, <4>3, <2>1, <1>0 DEF Applied
      <4> QED
        BY <4>2, <4>3
    <3> QED
      BY <3>1, <3>2
  <2>5. ASSUME NEW w \in Users PROVE Behind(w, clock)'
    <3>1. CASE w = u
      BY <3>1, <2>a, <2>1, <2>3, <1>0
    <3>2. CASE w # u
      BY <3>2, <2>a, <2>1, <1>0, <1>1, SaveInv
    <3> QED
      BY <3>1, <3>2
  <2>6. ASSUME NEW q \in Calls, status'[q] = "open" PROVE Behind(UserOf[q], stamp[q])'
    <3>1. q # r /\ status[q] = "open"
      BY <2>6, <2>1 DEF status
    <3> QED
      BY <3>1, <2>1, <2>3, <1>0, <1>1, SaveInv
  <2>7. NoTimePaidTwice'
    BY <2>1, <2>3, <1>0 DEF NoTimePaidTwice, SaveInv
  <2> QED
    BY <2>4, <2>5, <2>6, <2>7, <1>2
<1>4. CASE ~ \E r \in Calls : Store!Commit(r)
  <2> DEFINE Quiet ==
        /\ save' = save /\ clock <= clock'
        /\ \A q \in Calls : status'[q] \in {"committed", "ok"} => status[q] \in {"committed", "ok"}
        /\ \A q \in Calls : status'[q] = "open" =>
              \/ status[q] = "open" /\ stamp'[q] = stamp[q]
              \/ stamp'[q] = clock
  <2>1. ASSUME Store!Tick PROVE Quiet
    BY <2>1, <1>0 DEF Store!Tick, status
  <2>2. ASSUME NEW r \in Calls, Store!Submit(r) PROVE Quiet
    <3>1. /\ status' = [status EXCEPT ![r] = "open"] /\ status[r] = "unsent"
          /\ stamp' = [stamp EXCEPT ![r] = clock] /\ UNCHANGED <<clock, save>>
      BY <2>2 DEF Store!Submit, status
    <3>2. DOMAIN status = Calls
      BY DEF status
    <3> QED
      BY <3>1, <3>2, <1>0
  <2>3. ASSUME NEW r \in Calls, Store!Acknowledge(r) PROVE Quiet
    <3>1. /\ status' = [status EXCEPT ![r] = "ok"] /\ status[r] = "committed"
          /\ UNCHANGED <<clock, save, stamp>>
      BY <2>3 DEF Store!Acknowledge, status
    <3>2. DOMAIN status = Calls
      BY DEF status
    <3> QED
      BY <3>1, <3>2, <1>0
  <2>4. ASSUME NEW r \in Calls, Store!Fail(r) PROVE Quiet
    <3>1. /\ status' = [status EXCEPT ![r] = "error"] /\ status[r] \in {"open", "committed"}
          /\ UNCHANGED <<clock, save, stamp>>
      BY <2>4 DEF Store!Fail, status
    <3>2. DOMAIN status = Calls
      BY DEF status
    <3> QED
      BY <3>1, <3>2, <1>0
  <2>5. ASSUME Store!Crash PROVE Quiet
    BY <2>5, <1>0 DEF Store!Crash, status
  <2>6. ASSUME UNCHANGED Store!vars PROVE Quiet
    BY <2>6, <1>0 DEF Store!vars, status
  <2>7. Quiet
    BY <1>4, <2>1, <2>2, <2>3, <2>4, <2>5, <2>6, [Store!Next]_(Store!vars) DEF Store!Next
  <2>8. clock' \in Nat
    BY TypeOK' DEF TypeOK
  <2>9. \A q \in Calls : status'[q] \in {"committed", "ok"} => Kept(q)'
    BY <2>7, <1>1, SaveInv DEF Applied
  <2>10. \A u \in Users : Behind(u, clock)'
    <3> SUFFICES ASSUME NEW u \in Users, save[u] # NoSave PROVE save[u].last <= clock'
      BY <2>7
    <3>1. save[u].last \in Nat /\ save[u].last <= clock
      BY <1>0, <1>1, SaveInv DEF Store!Save
    <3> QED
      BY <3>1, <2>7, <2>8, <1>0
  <2>11. \A q \in Calls : status'[q] = "open" => Behind(UserOf[q], stamp[q])'
    BY <2>7, <1>0, <1>1, SaveInv
  <2>12. NoTimePaidTwice'
    BY <2>7, SaveInv DEF NoTimePaidTwice, SaveInv
  <2> QED
    BY <2>9, <2>10, <2>11, <2>12, <1>2
<1> QED
  BY <1>3, <1>4

LEMMA SaveInvariant == Spec => []SaveInv
<1>1. Init => SaveInv
  BY RequestAssumption, UserOfAssumption, NoCallAssumption, NoSaveAssumption
     DEF Init, LockInit, SaveInv, NoTimePaidTwice, Status, Store!Save
<1>2. DataInv /\ TypeOK' /\ ChainInv /\ Exclusive /\ SaveInv /\ [Next]_vars => SaveInv'
  BY StepsOfStore, StoreStepKeepsSaveInv DEF DataInv
<1> QED
  BY <1>1, <1>2, DataInvariant, TypeCorrect, LockInvariant, PTL DEF Spec

\* A request that was answered with success stays in the save, whatever other
\* tabs, failing database calls and restarts do around it.
THEOREM NothingLost == Spec => []NoLostUpdate
<1>1. SaveInv => NoLostUpdate
  BY DEF SaveInv, NoLostUpdate
<1> QED
  BY <1>1, SaveInvariant, PTL

\* No stretch of a player's time is paid for twice: last_save never falls
\* behind what the save has already been paid for.
THEOREM TimePaidOnce == Spec => []NoTimePaidTwice
<1>1. SaveInv => NoTimePaidTwice
  BY DEF SaveInv
<1> QED
  BY <1>1, SaveInvariant, PTL

\* No write of a save takes back what an earlier write put there.
THEOREM NoRewind == Spec => NeverRewinds
<1> DEFINE Forward(u) ==
        save[u] # NoSave =>
            /\ save'[u] # NoSave
            /\ IsPrefix(save[u].applied, save'[u].applied)
            /\ save[u].last <= save'[u].last
            /\ save[u].since = save'[u].since
           status == [q \in Calls |-> Status(q)]
<1>1. ASSUME TypeOK, SaveInv, [Store!Next]_(Store!vars), NEW u \in Users, save'[u] # save[u]
      PROVE  Forward(u)
  <2>1. PICK r \in Calls : Store!Commit(r)
    BY <1>1 DEF Store!Next, Store!vars, Store!Tick, Store!Submit, Store!Acknowledge,
                Store!Fail, Store!Crash
  <2> DEFINE new == Store!Rewritten(save[u], r, stamp[r])
  <2>2. /\ save' = [save EXCEPT ![UserOf[r]] = Store!Rewritten(@, r, stamp[r])]
        /\ status[r] = "open"
    BY <2>1 DEF Store!Commit
  <2>3. UserOf[r] = u /\ save'[u] = new
    BY <1>1, <2>2, RequestAssumption, UserOfAssumption, NoCallAssumption DEF TypeOK
  <2>4. /\ save[u] \in Store!Save \cup {NoSave} /\ stamp[r] \in Nat
        /\ save[u] # NoSave => save[u].last <= stamp[r] /\ save[u].since + save[u].paid <= save[u].last
    BY <1>1, <2>2, <2>3 DEF TypeOK, SaveInv, NoTimePaidTwice
  <2>5. /\ new # NoSave
        /\ new.last = stamp[r]
        /\ save[u] # NoSave =>
              /\ new.since = save[u].since
              /\ IsPrefix(save[u].applied, new.applied)
    BY <2>4, RewrittenKeeps
  <2> QED
    BY <2>3, <2>4, <2>5
<1>2. TypeOK /\ SaveInv /\ [Store!Next]_(Store!vars)
        => [\A u \in Users : Forward(u)]_save
  <2> SUFFICES ASSUME TypeOK, SaveInv, [Store!Next]_(Store!vars), save' # save
               PROVE  \A u \in Users : Forward(u)
    OBVIOUS
  <2> TAKE u \in Users
  <2>1. CASE save'[u] # save[u]
    BY <2>1, <1>1
  <2>2. CASE save'[u] = save[u]
    <3>1. SUFFICES ASSUME save[u] # NoSave PROVE Forward(u)
      OBVIOUS
    <3>2. save[u].applied \in Seq(Calls) /\ save[u].last \in Nat
      BY <3>1, TypeOK DEF TypeOK, Store!Save
    <3>3. IsPrefix(save[u].applied, save[u].applied)
      BY <3>2 DEF IsPrefix
    <3> QED
      BY <2>2, <3>1, <3>2, <3>3
  <2> QED
    BY <2>1, <2>2
<1>3. DataInv /\ ChainInv /\ Exclusive /\ [Next]_vars => [Store!Next]_(Store!vars)
  BY StepsOfStore
<1> QED
  BY <1>2, <1>3, DataInvariant, TypeCorrect, LockInvariant, SaveInvariant, PTL DEF Spec, NeverRewinds

-----------------------------------------------------------------------------
(***************************************************************************)
(* Migration.                                                              *)
(***************************************************************************)

LEMMA Tables ==
    /\ Len(TABLES) \in Nat \ {0} /\ "users" \in Table /\ "identities" \in Table /\ Seeded \in Table
    /\ \A i \in 1..Len(TABLES) : TABLES[i] \in Table
    /\ \A t \in Table : \E i \in 1..Len(TABLES) : TABLES[i] = t
<1>1. TABLES \in Seq(Table) /\ DOMAIN TABLES = 1..Len(TABLES) /\ Len(TABLES) \in Nat
  BY TableAssumption
<1>2. Table = {TABLES[i] : i \in 1..Len(TABLES)}
  BY <1>1 DEF Table, ToSet
<1>3. {"users", "identities", Seeded} \subseteq Table
  BY TableAssumption
<1>. QED
  BY <1>1, <1>2, <1>3

(***************************************************************************)
(* Types.                                                                  *)
(***************************************************************************)

LEMMA EmptyTypes == Empty \in [Table -> Nat] /\ \A t \in Table : Empty[t] = 0
BY DEF Empty

FileTypes ==
    /\ shape \in {"absent", "legacy", "half", "modern", "unknown"}
    /\ source \in [Table -> Nat]
    /\ past \subseteq [Table -> Nat]
    /\ writes \in 0..MaxWrites

PgTypes == target \in [Table -> Nat \cup {Own}] /\ pgColumns \in BOOLEAN

Stage == {"down", "probe", "rebuild", "schema", "drop", "empty", "open", "copy",
          "synthesize", "verify", "commit", "seed", "serving"}

BootTypes ==
    /\ pc \in [Procs -> Stage]
    /\ url \in [Procs -> BOOLEAN]
    /\ file \in [Procs -> BOOLEAN]
    /\ at \in [Procs -> 1..Len(TABLES)]
    /\ legacy \in [Procs -> BOOLEAN]
    /\ synthesized \in [Procs -> Nat]

CopyTypes == tx \in [Procs -> [Table -> Nat]]

GhostTypes == boots \in 0..MaxBoots /\ blind \in BOOLEAN /\ halfRead \in BOOLEAN

LEMMA TypeParts == MigrationTypeOK <=> FileTypes /\ PgTypes /\ BootTypes /\ CopyTypes /\ GhostTypes
BY Zenon DEF MigrationTypeOK, FileTypes, PgTypes, BootTypes, CopyTypes, GhostTypes, Stage

LEMMA TypeInit == MigrationInit => MigrationTypeOK
<1> SUFFICES ASSUME MigrationInit PROVE MigrationTypeOK
  OBVIOUS
<1>1. source \in [Table -> Nat] /\ Contents \in [Table -> Nat]
  BY Tables DEF MigrationInit, Contents, SourceRows
<1>2. FileTypes
  BY <1>1, BoundAssumption DEF MigrationInit, FileTypes
<1>3. PgTypes
  BY EmptyTypes, Tables DEF MigrationInit, PgTypes
<1>4. BootTypes
  BY Tables DEF MigrationInit, BootTypes, Stage
<1>5. CopyTypes
  BY EmptyTypes DEF MigrationInit, CopyTypes
<1>6. GhostTypes
  <2>1. boots \in 0..MaxBoots
    BY BoundAssumption DEF MigrationInit
  <2>2. blind \in BOOLEAN /\ halfRead \in BOOLEAN
    BY Zenon DEF MigrationInit
  <2>. QED
    BY <2>1, <2>2 DEF GhostTypes
<1>. QED
  BY <1>2, <1>3, <1>4, <1>5, <1>6, TypeParts

LEMMA FileTypesStep == FileTypes /\ MigrationNext => FileTypes'
<1> SUFFICES ASSUME FileTypes, NEW p \in Procs,
                    \/ UNCHANGED fileVars
                    \/ CreateIdentities(p)
                    \/ RebuildUsers(p)
                    \/ \E ts \in WriteSets : SqliteWrite(p, ts)
             PROVE  FileTypes'
  BY DEF MigrationNext, Proceed, Boot, MaybeAutoMigrate, BackfillIdentities, DropColumns, CheckEmpty, OpenSource,
         CopyTable, SynthesizeIdentities, VerifyTable, Commit, Abort, SeedAndListen, PgWrite
<1>1. CASE UNCHANGED fileVars
  BY <1>1 DEF FileTypes, fileVars
<1>2. CASE CreateIdentities(p)
  BY <1>2 DEF FileTypes, CreateIdentities
<1>3. CASE RebuildUsers(p)
  <2>1. source' \in [Table -> Nat]
    BY <1>3, Tables DEF FileTypes, RebuildUsers
  <2>. QED
    BY <1>3, <2>1 DEF FileTypes, RebuildUsers
<1>4. ASSUME NEW ts \in WriteSets, SqliteWrite(p, ts) PROVE FileTypes'
  <2>1. source' \in [Table -> Nat]
    BY <1>4 DEF FileTypes, SqliteWrite
  <2>. QED
    BY <1>4, <2>1, BoundAssumption DEF FileTypes, SqliteWrite
<1>. QED
  BY <1>1, <1>2, <1>3, <1>4

LEMMA PgTypesStep == PgTypes /\ CopyTypes /\ MigrationNext => PgTypes'
<1> SUFFICES ASSUME PgTypes, CopyTypes, NEW p \in Procs,
                    \/ UNCHANGED pgVars
                    \/ BackfillIdentities(p) \/ DropColumns(p)
                    \/ Commit(p)
                    \/ SeedAndListen(p)
                    \/ PgWrite(p)
             PROVE  PgTypes'
  BY DEF MigrationNext, Proceed, Boot, CreateIdentities, RebuildUsers, SqliteWrite, MaybeAutoMigrate, CheckEmpty,
         OpenSource, CopyTable, SynthesizeIdentities, VerifyTable, Abort
<1>1. CASE UNCHANGED pgVars \/ DropColumns(p)
  BY <1>1 DEF PgTypes, pgVars, DropColumns
<1>2. CASE BackfillIdentities(p)
  BY <1>2, Tables DEF PgTypes, BackfillIdentities
<1>3. CASE Commit(p)
  BY <1>3 DEF PgTypes, CopyTypes, Commit
<1>4. CASE SeedAndListen(p)
  BY <1>4, Tables DEF PgTypes, SeedAndListen, Seed
<1>5. CASE PgWrite(p)
  BY <1>5 DEF PgTypes, PgWrite
<1>. QED
  BY <1>1, <1>2, <1>3, <1>4, <1>5

LEMMA CopyTypesStep == FileTypes /\ BootTypes /\ CopyTypes /\ MigrationNext => CopyTypes'
<1> SUFFICES ASSUME FileTypes, BootTypes, CopyTypes, NEW p \in Procs,
                    \/ UNCHANGED tx
                    \/ CopyTable(p)
                    \/ SynthesizeIdentities(p)
                    \/ Commit(p) \/ Abort(p)
             PROVE  CopyTypes'
  BY DEF MigrationNext, Proceed, Boot, CreateIdentities, RebuildUsers, SqliteWrite, MaybeAutoMigrate,
         BackfillIdentities, DropColumns, CheckEmpty, OpenSource, VerifyTable, SeedAndListen, PgWrite
<1>1. CASE UNCHANGED tx
  BY <1>1 DEF CopyTypes
<1>2. CASE CopyTable(p)
  <2>1. PICK n \in Nat : tx' = [tx EXCEPT ![p][TABLES[at[p]]] = n]
    BY <1>2, Tables DEF CopyTable, FileTypes, BootTypes
  <2>. QED
    BY <2>1 DEF CopyTypes
<1>3. CASE SynthesizeIdentities(p)
  <2>1. PICK n \in Nat : tx' = [tx EXCEPT ![p]["identities"] = n]
    BY <1>3, Tables, ZenonT(60) DEF SynthesizeIdentities, CopyTypes, BootTypes
  <2>. QED
    BY <2>1 DEF CopyTypes
<1>4. CASE Commit(p) \/ Abort(p)
  BY <1>4, EmptyTypes DEF CopyTypes, Commit, Abort
<1>. QED
  BY <1>1, <1>2, <1>3, <1>4

LEMMA BootTypesStep == FileTypes /\ BootTypes /\ MigrationNext => BootTypes'
<1> SUFFICES ASSUME FileTypes, BootTypes, MigrationNext PROVE BootTypes'
  OBVIOUS
<1> USE Tables DEF BootTypes, Stage, Goto, ToNextTable, Past, fileVars, pgVars, ghosts
<1>1. ASSUME NEW p \in Procs, NEW withUrl \in BOOLEAN, Boot(p, withUrl) PROVE BootTypes'
  BY <1>1 DEF Boot
<1>2. ASSUME NEW p \in Procs, CreateIdentities(p) \/ MaybeAutoMigrate(p) PROVE BootTypes'
  BY <1>2 DEF CreateIdentities, MaybeAutoMigrate
<1>3. ASSUME NEW p \in Procs, RebuildUsers(p) PROVE BootTypes'
  BY <1>3 DEF RebuildUsers
<1>4. ASSUME NEW p \in Procs, NEW ts \in WriteSets, SqliteWrite(p, ts) PROVE BootTypes'
  BY <1>4 DEF SqliteWrite
<1>5. ASSUME NEW p \in Procs, BackfillIdentities(p) PROVE BootTypes'
  BY <1>5 DEF BackfillIdentities
<1>6. ASSUME NEW p \in Procs, DropColumns(p) \/ CheckEmpty(p) PROVE BootTypes'
  <2>1. PICK l \in {"seed", "empty", "open"} : pc' = [pc EXCEPT ![p] = l]
    BY <1>6, Zenon DEF DropColumns, CheckEmpty
  <2>2. at' \in [Procs -> 1..Len(TABLES)]
    <3>1. CASE DropColumns(p)
      BY <3>1 DEF DropColumns
    <3>2. CASE CheckEmpty(p) /\ UNCHANGED at
      BY <3>2
    <3>3. CASE CheckEmpty(p) /\ ToNextTable(p, "empty", "open")
      BY <3>3
    <3>. QED
      BY <1>6, <3>1, <3>2, <3>3 DEF CheckEmpty
  <2>. QED
    BY <1>6, <2>1, <2>2 DEF DropColumns, CheckEmpty
<1>7. ASSUME NEW p \in Procs, OpenSource(p) PROVE BootTypes'
  BY <1>7 DEF OpenSource
<1>8. ASSUME NEW p \in Procs, VerifyTable(p) PROVE BootTypes'
  BY <1>8 DEF VerifyTable
<1>9. ASSUME NEW p \in Procs, CopyTable(p) PROVE BootTypes'
  BY <1>9, SMTT(30) DEF CopyTable, FileTypes
<1>10. ASSUME NEW p \in Procs, SynthesizeIdentities(p) PROVE BootTypes'
  BY <1>10 DEF SynthesizeIdentities
<1>11. ASSUME NEW p \in Procs, Commit(p) \/ Abort(p) PROVE BootTypes'
  BY <1>11 DEF Commit, Abort
<1>12. ASSUME NEW p \in Procs, SeedAndListen(p) \/ PgWrite(p) PROVE BootTypes'
  BY <1>12 DEF SeedAndListen, PgWrite
<1>. QED
  BY <1>1, <1>2, <1>3, <1>4, <1>5, <1>6, <1>7, <1>8, <1>9, <1>10, <1>11, <1>12 DEF MigrationNext, Proceed

LEMMA GhostTypesStep == FileTypes /\ GhostTypes /\ MigrationNext => GhostTypes'
<1> SUFFICES ASSUME FileTypes, GhostTypes, NEW p \in Procs,
                    \/ UNCHANGED ghosts
                    \/ \E withUrl \in BOOLEAN : Boot(p, withUrl)
                    \/ MaybeAutoMigrate(p)
                    \/ CopyTable(p) \/ SynthesizeIdentities(p)
             PROVE  GhostTypes'
  BY DEF MigrationNext, Proceed, CreateIdentities, RebuildUsers, SqliteWrite, BackfillIdentities, DropColumns,
         CheckEmpty, OpenSource, VerifyTable, Commit, Abort, SeedAndListen, PgWrite, ghosts
<1>1. CASE UNCHANGED ghosts
  BY <1>1 DEF GhostTypes, ghosts
<1>2. ASSUME NEW withUrl \in BOOLEAN, Boot(p, withUrl) PROVE GhostTypes'
  BY <1>2, BoundAssumption DEF GhostTypes, Boot
<1>3. CASE MaybeAutoMigrate(p)
  BY <1>3, Zenon DEF GhostTypes, MaybeAutoMigrate
<1>4. CASE CopyTable(p) \/ SynthesizeIdentities(p)
  BY <1>4, Zenon DEF GhostTypes, CopyTable, SynthesizeIdentities
<1>. QED
  BY <1>1, <1>2, <1>3, <1>4

LEMMA TypeStep == MigrationTypeOK /\ [MigrationNext]_migrationVars => MigrationTypeOK'
<1>1. CASE MigrationNext
  BY <1>1, TypeParts, FileTypesStep, PgTypesStep, CopyTypesStep, BootTypesStep, GhostTypesStep,
     Zenon DEF MigrationTypeOK, FileTypes, PgTypes, BootTypes, CopyTypes, GhostTypes, Stage
<1>2. CASE UNCHANGED migrationVars
  BY <1>2 DEF migrationVars, fileVars, pgVars, ghosts, MigrationTypeOK
<1>. QED
  BY <1>1, <1>2

(***************************************************************************)
(* The inductive invariant.  A Postgres boot is "connected" from its first *)
(* statement on; Done(p, t) says its verification has compared table t.    *)
(***************************************************************************)

Copying == {"copy", "synthesize"}
Verifying == {"verify", "commit"}
Upgraded == {"empty", "open", "seed"} \cup Copying \cup Verifying
Connected == {"schema", "drop"} \cup Upgraded

PgServing(p) == pc[p] = "serving" /\ url[p]

Seen(p, t) == \E i \in 1..Len(TABLES) : i < at[p] /\ TABLES[i] = t
Done(p, t) == pc[p] = "commit" \/ Seen(p, t)

\* The file a SQLite process works on has been upgraded as far as it went;
\* nobody writes a file that is not modern, and what it holds is in past.
FileInv ==
    /\ \A p \in Procs : pc[p] \in Connected => url[p]
    /\ \A p \in Procs : pc[p] = "rebuild" => ~ url[p] /\ shape \notin {"absent", "legacy"}
    /\ \A p \in Procs : pc[p] = "serving" /\ ~ url[p] => shape \notin {"absent", "legacy", "half"}
    /\ shape = "absent" => source["users"] = 0
    /\ shape \in {"legacy", "half"} => source["identities"] = 0
    /\ shape \notin {"legacy", "half"} /\ source["users"] # 0 => source["identities"] # 0
    /\ Contents \in past

\* What a transaction holds was in the file when it was copied, and the file
\* has only grown.
CopyOk(p) ==
    /\ pc[p] \notin Copying \cup Verifying => tx[p] = Empty
    /\ pc[p] \in {"open", "synthesize"} => at[p] = 1
    /\ pc[p] \in Copying => \A t \in Table : tx[p][t] <= source[t]
    /\ pc[p] \in Copying /\ shape = "legacy" =>
          /\ legacy[p]
          /\ pc[p] = "synthesize" \/ Seen(p, "users") => synthesized[p] = source["users"]

CopyInv == \A p \in Procs : CopyOk(p)

\* All of what verification compares is a moment's: the one at which the
\* identities were synthesized, after the last copy and before the first read.
Moment(p, m) ==
    \A t \in Table :
        /\ tx[p][t] <= m[t]
        /\ m[t] <= source[t] \/ tx[p][t] = m[t]
        /\ Done(p, t) => tx[p][t] = m[t]

MomentInv == \A p \in Procs : pc[p] \in Verifying => \E m \in past : Moment(p, m)

\* Users are copied with identities, or verification ends the boot.
IdentityOk(p) ==
    /\ tx[p]["users"] <= source["users"]
    /\ pc[p] \in Verifying /\ ~ halfRead /\ tx[p]["users"] # 0 =>
          \/ tx[p]["identities"] # 0
          \/ shape \notin {"legacy", "half"} /\ ~ Done(p, "identities")

IdentityInv == \A p \in Procs : IdentityOk(p)

\* The columns go once, and only Postgres servers' rows were there before.
ColumnInv ==
    /\ \A p \in Procs : pc[p] \in Upgraded \/ PgServing(p) => ~ pgColumns
    /\ pgColumns => \A t \in Table : target[t] \in {0, Own}
    /\ \A p \in Procs :
          pc[p] = "drop" /\ pgColumns /\ target["users"] # 0 => target["identities"] # 0

\* Every boot found the players, and has copied or found them in Postgres.
FoundInv ==
    ~ blind =>
        \A p \in Procs : url[p] /\ pc[p] \notin {"down", "probe"} => source["users"] # 0 /\ file[p]

VerifiedInv ==
    ~ blind => \A p \in Procs : pc[p] \in Verifying /\ Done(p, "users") => tx[p]["users"] # 0

ServedInv ==
    ~ blind =>
        /\ (\E t \in Table : target[t] # 0) => target["users"] \in Nat \ {0}
        /\ \A p \in Procs : pc[p] = "seed" \/ PgServing(p) => target["users"] \in Nat \ {0}

\* A step of p that leaves the file alone.
QuietStep(p) ==
    /\ UNCHANGED <<fileVars, url>>
    /\ \E l \in Stage \ {"rebuild"} :
          /\ pc' = [pc EXCEPT ![p] = l]
          /\ l \in Connected \cup {"serving"} => url[p]

LEMMA FileInit == MigrationInit => FileInv
<1> SUFFICES ASSUME MigrationInit PROVE FileInv
  OBVIOUS
<1>1. shape \in {"absent", "legacy", "modern", "unknown"} /\ Contents \in past
      /\ \A p \in Procs : pc[p] = "down"
  BY DEF MigrationInit
<1>2. /\ shape = "absent" => source = Empty
      /\ source["identities"] = IF shape = "legacy" THEN 0 ELSE source["users"]
  BY DEF MigrationInit
<1>3. shape = "absent" => source["users"] = 0
  BY <1>2, EmptyTypes, Tables
<1>. QED
  BY <1>1, <1>2, <1>3 DEF FileInv, Connected, Upgraded, Copying, Verifying

LEMMA FileStep == MigrationTypeOK /\ FileInv /\ MigrationNext => FileInv'
<1> SUFFICES ASSUME MigrationTypeOK, FileInv, MigrationNext PROVE FileInv'
  OBVIOUS
<1> USE DEF Connected, Upgraded, Copying, Verifying
<1>T. FileTypes /\ BootTypes
  BY TypeParts
<1>T2. FileTypes' /\ BootTypes'
  BY <1>T, FileTypesStep, BootTypesStep
<1>1. ASSUME NEW p \in Procs, NEW withUrl \in BOOLEAN, Boot(p, withUrl) PROVE FileInv'
  <2>1. UNCHANGED fileVars /\ Contents' = Contents
    BY <1>1 DEF Boot, fileVars, Contents, SourceRows
  <2>2. \A q \in Procs : IF q = p THEN pc'[q] = "probe" ELSE pc'[q] = pc[q] /\ url'[q] = url[q]
    BY <1>1, <1>T DEF Boot, BootTypes, Goto
  <2>. QED
    BY <2>1, <2>2 DEF FileInv, fileVars
<1>2. ASSUME NEW p \in Procs, CreateIdentities(p) PROVE FileInv'
  <2>1. UNCHANGED <<source, url>> /\ past' = past \cup {source}
        /\ shape' \notin {"absent", "legacy"}
        /\ shape' \in {shape, "modern", "half"}
        /\ (shape \in {"modern", "unknown", "half"} => shape' = shape)
        /\ (shape = "absent" => shape' = "modern")
        /\ (shape = "legacy" => shape' = "half")
    BY <1>2, <1>T DEF CreateIdentities, FileTypes
  <2>. ~ url[p]
    BY <1>2 DEF CreateIdentities
  <2>2. Contents' = source
    BY <2>1, <1>T DEF Contents, SourceRows, FileTypes
  <2>3. \A q \in Procs : IF q = p THEN pc'[q] = "rebuild" ELSE pc'[q] = pc[q]
    BY <1>2, <1>T DEF CreateIdentities, BootTypes, Goto
  <2>4. \A q \in Procs : pc'[q] = "serving" /\ ~ url'[q] => shape' \notin {"absent", "legacy", "half"}
    BY <2>1, <2>3, <1>T DEF FileInv, FileTypes
  <2>5. shape' \in {"legacy", "half"} => source'["identities"] = 0
    BY <2>1, <1>T DEF FileInv, FileTypes
  <2>6. shape' \notin {"legacy", "half"} /\ source'["users"] # 0 => source'["identities"] # 0
    BY <2>1, <1>T DEF FileInv, FileTypes
  <2>. QED
    BY <2>1, <2>2, <2>3, <2>4, <2>5, <2>6 DEF FileInv
<1>3. ASSUME NEW p \in Procs, RebuildUsers(p) PROVE FileInv'
  <2>1. pc[p] = "rebuild" /\ shape' = IF shape = "half" THEN "modern" ELSE shape
    BY <1>3 DEF RebuildUsers
  <2>2. shape' \notin {"absent", "legacy", "half"}
    BY <2>1 DEF FileInv
  <2>3. source'["users"] = source["users"]
        /\ (shape # "half" => source'["identities"] = source["identities"])
        /\ (shape = "half" => source'["identities"] = source["users"])
    BY <1>3, Tables, TableAssumption DEF RebuildUsers
  <2>4. Contents' = source' /\ source' \in past'
    BY <1>3, <2>2, <1>T2 DEF Contents, SourceRows, FileTypes, RebuildUsers
  <2>5. \A q \in Procs : url'[q] = url[q] /\ IF q = p THEN pc'[q] = "serving" ELSE pc'[q] = pc[q]
    BY <1>3, <1>T DEF RebuildUsers, BootTypes, Goto
  <2>. QED
    BY <2>1, <2>2, <2>3, <2>4, <2>5 DEF FileInv
<1>4. ASSUME NEW p \in Procs, NEW ts \in WriteSets, SqliteWrite(p, ts) PROVE FileInv'
  <2>1. UNCHANGED <<shape, pc, url>> /\ shape \notin {"absent", "legacy", "half"}
    BY <1>4 DEF SqliteWrite, FileInv
  <2>2. Contents' = source' /\ source' \in past'
    BY <1>4, <2>1, <1>T2 DEF Contents, SourceRows, FileTypes, SqliteWrite
  <2>3. source'["users"] # 0 => source'["identities"] # 0
    <3>1. source' = [t \in Table |-> IF t \in ts THEN source[t] + 1 ELSE source[t]]
      BY <1>4 DEF SqliteWrite
    <3>2. "users" \in ts => "identities" \in ts
      BY TableAssumption
    <3>. QED
      BY <3>1, <3>2, <2>1, <1>T, Tables DEF FileInv, FileTypes
  <2>. QED
    BY <2>1, <2>2, <2>3 DEF FileInv
<1>5. ASSUME NEW p \in Procs, QuietStep(p) PROVE FileInv'
  <2>1. UNCHANGED <<fileVars, url>> /\ Contents' = Contents
    BY <1>5 DEF QuietStep, fileVars, Contents, SourceRows
  <2>2. PICK l \in Stage \ {"rebuild"} :
          /\ pc' = [pc EXCEPT ![p] = l]
          /\ l \in Connected \cup {"serving"} => url[p]
    BY <1>5 DEF QuietStep
  <2>. QED
    BY <2>1, <2>2, <1>T DEF FileInv, fileVars, BootTypes, Stage
<1>6. ASSUME NEW p \in Procs,
             \/ MaybeAutoMigrate(p) \/ BackfillIdentities(p) \/ OpenSource(p)
             \/ SynthesizeIdentities(p) \/ Commit(p) \/ Abort(p) \/ SeedAndListen(p)
      PROVE  QuietStep(p)
  BY <1>6, <1>T DEF QuietStep, BootTypes, FileInv, Stage, Goto, fileVars, MaybeAutoMigrate, BackfillIdentities,
     OpenSource, SynthesizeIdentities, Commit, Abort, SeedAndListen
<1>7. ASSUME NEW p \in Procs, DropColumns(p) \/ CheckEmpty(p) \/ CopyTable(p) \/ VerifyTable(p) PROVE QuietStep(p)
  <2>1. pc[p] \in Connected /\ UNCHANGED <<fileVars, url>>
    BY <1>7 DEF fileVars, DropColumns, CheckEmpty, CopyTable, VerifyTable
  <2>2. PICK l \in Connected : pc' = [pc EXCEPT ![p] = l]
    BY <1>7, Zenon DEF DropColumns, CheckEmpty, CopyTable, VerifyTable, ToNextTable, Goto
  <2>. QED
    BY <2>1, <2>2 DEF QuietStep, FileInv, Stage
<1>8. ASSUME NEW p \in Procs, PgWrite(p) PROVE QuietStep(p)
  <2>1. pc' = [pc EXCEPT ![p] = "serving"] /\ url[p] /\ UNCHANGED <<fileVars, url>>
    BY <1>8, <1>T DEF PgWrite, BootTypes, fileVars
  <2>. QED
    BY <2>1 DEF QuietStep, Stage
<1>. QED
  BY <1>1, <1>2, <1>3, <1>4, <1>5, <1>6, <1>7, <1>8 DEF MigrationNext, Proceed

(***************************************************************************)
(* What every step does to the file, and to the processes not taking it.   *)
(***************************************************************************)

Step(p) ==
    \/ \E withUrl \in BOOLEAN : Boot(p, withUrl)
    \/ Proceed(p)
    \/ Abort(p)
    \/ \E ts \in WriteSets : SqliteWrite(p, ts)
    \/ PgWrite(p)

\* The file only grows, an old-shape one is not written, and no file goes
\* back to an older shape.
Grows ==
    /\ \A t \in Table : source[t] <= source'[t]
    /\ past \subseteq past'
    /\ shape' = "legacy" => shape = "legacy" /\ source' = source
    /\ shape' \in {"legacy", "half"} => shape \in {"legacy", "half"}

LEMMA FileGrows == ASSUME MigrationTypeOK, FileInv, MigrationNext PROVE Grows
<1>T. FileTypes
  BY TypeParts
<1> SUFFICES ASSUME NEW p \in Procs,
                    \/ UNCHANGED fileVars
                    \/ CreateIdentities(p)
                    \/ RebuildUsers(p)
                    \/ \E ts \in WriteSets : SqliteWrite(p, ts)
             PROVE  Grows
  BY DEF MigrationNext, Proceed, Boot, MaybeAutoMigrate, BackfillIdentities, DropColumns, CheckEmpty, OpenSource,
         CopyTable, SynthesizeIdentities, VerifyTable, Commit, Abort, SeedAndListen, PgWrite
<1>1. CASE UNCHANGED fileVars
  BY <1>1, <1>T DEF Grows, FileTypes, fileVars
<1>2. CASE CreateIdentities(p)
  BY <1>2, <1>T DEF Grows, FileTypes, CreateIdentities
<1>3. CASE RebuildUsers(p)
  <2>1. shape = "half" => source["identities"] = 0
    BY DEF FileInv
  <2>2. \A t \in Table : source[t] <= source'[t]
    BY <1>3, <1>T, <2>1, Tables DEF RebuildUsers, FileTypes
  <2>3. shape' \notin {"legacy", "half"} /\ past \subseteq past'
    BY <1>3 DEF RebuildUsers, FileInv
  <2>. QED
    BY <2>2, <2>3 DEF Grows
<1>4. ASSUME NEW ts \in WriteSets, SqliteWrite(p, ts) PROVE Grows
  <2>1. \A t \in Table : source[t] <= source'[t]
    BY <1>4, <1>T DEF SqliteWrite, FileTypes
  <2>2. shape' \notin {"legacy", "half"} /\ past \subseteq past'
    BY <1>4 DEF SqliteWrite, FileInv
  <2>. QED
    BY <2>1, <2>2 DEF Grows
<1>. QED
  BY <1>1, <1>2, <1>3, <1>4

Kept(q) ==
    /\ pc'[q] = pc[q] /\ url'[q] = url[q] /\ file'[q] = file[q] /\ at'[q] = at[q]
    /\ tx'[q] = tx[q] /\ legacy'[q] = legacy[q] /\ synthesized'[q] = synthesized[q]

LEMMA OthersKept ==
    ASSUME MigrationTypeOK, NEW p \in Procs, Step(p), NEW q \in Procs, q # p PROVE Kept(q)
<1>T. BootTypes /\ CopyTypes
  BY TypeParts
<1> USE <1>T DEF BootTypes, CopyTypes, Kept, Goto, ToNextTable, fileVars, pgVars, ghosts
<1>1. ASSUME NEW withUrl \in BOOLEAN, Boot(p, withUrl) PROVE Kept(q)
  BY <1>1 DEF Boot
<1>2. CASE CreateIdentities(p) \/ MaybeAutoMigrate(p)
  BY <1>2 DEF CreateIdentities, MaybeAutoMigrate
<1>3. CASE RebuildUsers(p)
  BY <1>3 DEF RebuildUsers
<1>4. ASSUME NEW ts \in WriteSets, SqliteWrite(p, ts) PROVE Kept(q)
  BY <1>4 DEF SqliteWrite
<1>5. CASE BackfillIdentities(p) \/ DropColumns(p)
  BY <1>5 DEF BackfillIdentities, DropColumns
<1>6. CASE CheckEmpty(p)
  BY <1>6 DEF CheckEmpty
<1>7. CASE OpenSource(p)
  BY <1>7 DEF OpenSource
<1>8. CASE CopyTable(p)
  BY <1>8 DEF CopyTable
<1>9. CASE SynthesizeIdentities(p)
  BY <1>9 DEF SynthesizeIdentities
<1>10. CASE VerifyTable(p)
  BY <1>10 DEF VerifyTable
<1>11. CASE Commit(p) \/ Abort(p)
  BY <1>11 DEF Commit, Abort
<1>12. CASE SeedAndListen(p) \/ PgWrite(p)
  BY <1>12 DEF SeedAndListen, PgWrite
<1>. QED
  BY <1>1, <1>2, <1>3, <1>4, <1>5, <1>6, <1>7, <1>8, <1>9, <1>10, <1>11, <1>12 DEF Step, Proceed

\* A step of p outside its transaction: what the transaction holds, and how
\* far it has walked, is as it was, or p is down or its rows committed.
Outside(p) ==
    /\ pc'[p] \notin Copying \cup Verifying \cup {"open"}
    /\ tx'[p] = Empty

LEMMA OutsideSteps ==
    ASSUME MigrationTypeOK, CopyInv, NEW p \in Procs,
           \/ \E withUrl \in BOOLEAN : Boot(p, withUrl)
           \/ CreateIdentities(p) \/ RebuildUsers(p) \/ MaybeAutoMigrate(p)
           \/ BackfillIdentities(p) \/ DropColumns(p)
           \/ Commit(p) \/ Abort(p) \/ SeedAndListen(p)
           \/ \E ts \in WriteSets : SqliteWrite(p, ts)
           \/ PgWrite(p)
    PROVE  Outside(p)
<1>T. BootTypes /\ CopyTypes
  BY TypeParts
<1> USE <1>T DEF BootTypes, CopyTypes, Outside, CopyInv, CopyOk, Copying, Verifying, Goto, fileVars, pgVars, ghosts
<1>1. CASE Commit(p) \/ Abort(p)
  BY <1>1, EmptyTypes DEF Commit, Abort
<1>2. CASE DropColumns(p)
  <2>1. PICK l \in {"seed", "empty"} : pc' = [pc EXCEPT ![p] = l]
    BY <1>2, Zenon DEF DropColumns
  <2>. QED
    BY <1>2, <2>1 DEF DropColumns
<1>3. CASE \/ \E withUrl \in BOOLEAN : Boot(p, withUrl)
           \/ CreateIdentities(p) \/ RebuildUsers(p) \/ MaybeAutoMigrate(p)
  BY <1>3 DEF Boot, CreateIdentities, RebuildUsers, MaybeAutoMigrate
<1>4. CASE BackfillIdentities(p) \/ SeedAndListen(p) \/ PgWrite(p) \/ \E ts \in WriteSets : SqliteWrite(p, ts)
  BY <1>4 DEF BackfillIdentities, SeedAndListen, PgWrite, SqliteWrite
<1>. QED
  BY <1>1, <1>2, <1>3, <1>4

LEMMA NextIsAStep == MigrationNext <=> \E p \in Procs : Step(p)
BY DEF MigrationNext, Step

\* The loops over the tables: what has been walked past after one more.
LEMMA Walk ==
    ASSUME MigrationTypeOK, NEW p \in Procs, NEW here, NEW after, ToNextTable(p, here, after)
    PROVE  \/ /\ at'[p] = 1 /\ pc'[p] = after
              /\ \A u \in Table : Seen(p, u) \/ u = TABLES[at[p]]
           \/ /\ at'[p] = at[p] + 1 /\ pc'[p] = here
              /\ \A u \in Table : Seen(p, u)' => Seen(p, u) \/ u = TABLES[at[p]]
<1>1. BootTypes
  BY TypeParts
<1>2. CASE Past(p)
  <2>1. at'[p] = 1 /\ pc'[p] = after
    BY <1>1, <1>2 DEF ToNextTable, Goto, BootTypes
  <2>2. \A u \in Table : Seen(p, u) \/ u = TABLES[at[p]]
    BY <1>1, <1>2, Tables DEF Seen, Past, BootTypes
  <2>. QED
    BY <2>1, <2>2
<1>3. CASE ~ Past(p)
  <2>1. at'[p] = at[p] + 1 /\ pc'[p] = here
    BY <1>1, <1>3 DEF ToNextTable, Goto, BootTypes
  <2>2. \A u \in Table : Seen(p, u)' => Seen(p, u) \/ u = TABLES[at[p]]
    BY <1>1, <2>1, Tables DEF Seen, BootTypes
  <2>. QED
    BY <2>1, <2>2
<1>. QED
  BY <1>2, <1>3

LEMMA FirstStep == ASSUME NEW p \in Procs, at[p] = 1 PROVE \A u \in Table : ~ Seen(p, u)
BY Tables DEF Seen

(***************************************************************************)
(* What a transaction holds was in the file.                               *)
(***************************************************************************)

LEMMA CopyInit == MigrationInit => CopyInv
BY EmptyTypes DEF MigrationInit, CopyInv, CopyOk, Copying, Verifying

LEMMA CopyStep == MigrationTypeOK /\ FileInv /\ CopyInv /\ MigrationNext => CopyInv'
<1> SUFFICES ASSUME MigrationTypeOK, FileInv, CopyInv, MigrationNext, NEW p \in Procs, Step(p), NEW q \in Procs PROVE CopyOk(q)'
  BY NextIsAStep DEF CopyInv
<1>T. FileTypes /\ BootTypes /\ CopyTypes
  BY TypeParts
<1>G. Grows
  BY FileGrows
<1>O. CopyOk(q) /\ CopyOk(p)
  BY DEF CopyInv
<1> USE DEF Copying, Verifying
<1>1. CASE q # p
  <2>1. Kept(q) /\ \A t \in Table : Seen(q, t)' <=> Seen(q, t)
    BY <1>1, OthersKept DEF Kept, Seen
  <2>2. pc'[q] \in Copying => \A t \in Table : tx'[q][t] <= source'[t]
    <3>1. FileTypes' /\ CopyTypes'
      BY <1>T, FileTypesStep, CopyTypesStep
    <3>. QED
      BY <3>1, <2>1, <1>O, <1>G, <1>T DEF CopyOk, Kept, Grows, FileTypes, CopyTypes
  <2>. QED
    BY <2>1, <2>2, <1>O, <1>G, Tables DEF CopyOk, Kept, Grows
<1>2. CASE q = p /\ Outside(p)
  BY <1>2 DEF CopyOk, Outside
<1>3. CASE q = p /\ CheckEmpty(p)
  <2>1. tx'[p] = Empty
    BY <1>3, <1>O DEF CheckEmpty, CopyOk
  <2>2. pc'[p] = "seed" \/ pc'[p] = "empty" \/ (pc'[p] = "open" /\ at'[p] = 1)
    BY <1>3, <1>T, Walk DEF CheckEmpty, Goto, BootTypes
  <2>. QED
    BY <1>3, <2>1, <2>2 DEF CopyOk
<1>4. CASE q = p /\ OpenSource(p)
  <2>1. pc'[p] = "copy" /\ at'[p] = 1 /\ tx'[p] = Empty /\ UNCHANGED fileVars
        /\ (shape = "legacy" => legacy'[p])
    BY <1>4, <1>O, <1>T DEF OpenSource, CopyOk, Goto, BootTypes, fileVars
  <2>2. ~ Seen(p, "users")'
    BY <2>1, Tables DEF Seen
  <2>3. \A t \in Table : tx'[p][t] <= source'[t]
    BY <2>1, EmptyTypes, <1>T DEF FileTypes, fileVars
  <2>. QED
    BY <1>4, <2>1, <2>2, <2>3 DEF CopyOk, fileVars
<1>5. CASE q = p /\ CopyTable(p)
  <2> DEFINE t == TABLES[at[p]]
  <2>1. t \in Table /\ pc[p] = "copy" /\ UNCHANGED fileVars /\ legacy'[p] = legacy[p]
    BY <1>5, <1>T, Tables DEF CopyTable, BootTypes, fileVars
  <2>2. tx'[p] = [tx[p] EXCEPT ![t] = IF TableExists(t) THEN source[t] ELSE 0]
    BY <1>5, <1>T DEF CopyTable, CopyTypes
  <2>3. ToNextTable(p, "copy", "synthesize")
    BY <1>5 DEF CopyTable
  <2>4. \A u \in Table : tx'[p][u] <= source'[u]
    BY <2>1, <2>2, <1>O, <1>T DEF CopyOk, FileTypes, CopyTypes, fileVars
  <2>5. synthesized'[p] = IF t = "users" /\ legacy[p] THEN source[t] ELSE synthesized[p]
    BY <1>5, <1>T DEF CopyTable, BootTypes
  <2>6. \/ at'[p] = 1 /\ pc'[p] = "synthesize" /\ (Seen(p, "users") \/ t = "users")
        \/ pc'[p] = "copy" /\ (Seen(p, "users")' => Seen(p, "users") \/ t = "users")
    BY <2>3, Walk, Tables
  <2>. HIDE DEF t
  <2>7. shape' = "legacy" => legacy'[p]
    BY <2>1, <1>O DEF CopyOk, fileVars
  <2>8. ASSUME shape' = "legacy", pc'[p] = "synthesize" \/ Seen(p, "users")'
        PROVE  synthesized'[p] = source'["users"]
    BY <2>1, <2>5, <2>6, <2>7, <2>8, <1>O DEF CopyOk, fileVars
  <2>. QED
    BY <1>5, <2>4, <2>6, <2>7, <2>8 DEF CopyOk
<1>6. CASE q = p /\ SynthesizeIdentities(p)
  BY <1>6, <1>T DEF SynthesizeIdentities, CopyOk, Goto, BootTypes
<1>7. CASE q = p /\ VerifyTable(p)
  <2>1. pc'[p] \in {"verify", "commit"}
    BY <1>7, Walk DEF VerifyTable
  <2>. QED
    BY <1>7, <2>1 DEF CopyOk
<1>. QED
  BY <1>1, <1>2, <1>3, <1>4, <1>5, <1>6, <1>7, OutsideSteps DEF Step, Proceed

(***************************************************************************)
(* All of it is one moment's.                                              *)
(***************************************************************************)

LEMMA MomentStep == MigrationTypeOK /\ FileInv /\ CopyInv /\ MomentInv /\ MigrationNext => MomentInv'
<1> SUFFICES ASSUME MigrationTypeOK, FileInv, CopyInv, MomentInv, MigrationNext,
                    NEW p \in Procs, Step(p), NEW q \in Procs, pc'[q] \in Verifying
             PROVE  \E m \in past' : Moment(q, m)'
  BY NextIsAStep DEF MomentInv
<1>T. FileTypes /\ BootTypes /\ CopyTypes
  BY TypeParts
<1>G. Grows
  BY FileGrows
<1> USE DEF Copying, Verifying
<1>1. CASE q # p
  <2>1. Kept(q) /\ \A t \in Table : Done(q, t)' <=> Done(q, t)
    BY <1>1, OthersKept DEF Kept, Done, Seen
  <2>2. PICK m \in past : Moment(q, m)
    BY <2>1 DEF Kept, MomentInv
  <2>3. ASSUME NEW t \in Table
        PROVE  /\ tx'[q][t] <= m[t]
               /\ m[t] <= source'[t] \/ tx'[q][t] = m[t]
               /\ Done(q, t)' => tx'[q][t] = m[t]
    <3>1. m[t] \in Nat /\ source[t] \in Nat /\ source'[t] \in Nat /\ source[t] <= source'[t]
      BY <1>T, <1>G, FileTypesStep DEF FileTypes, Grows
    <3>. QED
      BY <2>1, <2>2, <3>1 DEF Moment, Kept
  <2>. QED
    BY <2>2, <2>3, <1>G DEF Moment, Grows
<1>2. CASE q = p /\ SynthesizeIdentities(p)
  <2>1. pc[p] = "synthesize" /\ pc'[p] = "verify" /\ at'[p] = 1 /\ UNCHANGED fileVars
        /\ tx'[p] = [tx[p] EXCEPT !["identities"] = IF TableExists("identities") THEN @ ELSE synthesized[p]]
    <3>1. CopyOk(p)
      BY DEF CopyInv
    <3>. QED
      BY <1>2, <3>1, <1>T DEF SynthesizeIdentities, Goto, BootTypes, CopyTypes, CopyOk, fileVars
  <2>2. \A t \in Table : tx[p][t] <= source[t]
    BY <2>1 DEF CopyInv, CopyOk
  <2>3. shape = "legacy" => synthesized[p] = source["users"]
    BY <2>1 DEF CopyInv, CopyOk
  <2>4. \A t \in Table : ~ Done(p, t)'
    BY <2>1, Tables DEF Done, Seen
  <2>5. ASSUME NEW t \in Table
        PROVE  tx'[p][t] <= Contents[t] /\ (Contents[t] <= source[t] \/ tx'[p][t] = Contents[t])
    <3>1. Contents[t] = IF t = "identities" /\ shape = "legacy" THEN source["users"] ELSE source[t]
      BY DEF Contents, SourceRows
    <3>2. tx'[p][t] = IF t = "identities" /\ shape = "legacy" THEN source["users"] ELSE tx[p][t]
      BY <2>1, <2>3, <1>T DEF TableExists, CopyTypes
    <3>3. source[t] \in Nat /\ source["users"] \in Nat
      BY <1>T, Tables DEF FileTypes
    <3>. QED
      BY <3>1, <3>2, <3>3, <2>2
  <2>. QED
    BY <1>2, <2>1, <2>4, <2>5 DEF Moment, FileInv, fileVars
<1>3. CASE q = p /\ VerifyTable(p)
  <2> DEFINE here == TABLES[at[p]]
  <2>1. pc[p] = "verify" /\ tx' = tx /\ UNCHANGED fileVars /\ here \in Table
        /\ tx[p][here] = SourceRows(here) /\ ToNextTable(p, "verify", "commit")
    BY <1>3, <1>T, Tables DEF VerifyTable, Agree, BootTypes, fileVars
  <2>2. PICK m \in past : Moment(p, m)
    BY <2>1 DEF MomentInv
  <2>3. \A t \in Table : Done(p, t)' => Done(p, t) \/ t = here
    BY <2>1, Walk DEF Done
  <2>4. tx[p][here] = m[here]
    <3>1. m[here] \in Nat /\ source[here] \in Nat /\ tx[p][here] \in Nat
      BY <2>1, <1>T DEF FileTypes, CopyTypes
    <3>2. CASE here = "identities" /\ shape = "legacy"
      BY <3>1, <3>2, <2>1, <2>2 DEF Moment, FileInv
    <3>3. CASE ~ (here = "identities" /\ shape = "legacy")
      BY <3>1, <3>3, <2>1, <2>2 DEF Moment, SourceRows
    <3>. QED
      BY <3>2, <3>3
  <2>. QED
    BY <1>3, <2>1, <2>2, <2>3, <2>4 DEF Moment, fileVars
<1>4. CASE q = p /\ Outside(p)
  BY <1>4 DEF Outside
<1>5. CASE q = p /\ (CheckEmpty(p) \/ OpenSource(p) \/ CopyTable(p))
  <2>1. pc'[p] \notin Verifying
    BY <1>5, <1>T, Walk DEF CheckEmpty, OpenSource, CopyTable, Goto, BootTypes
  <2>. QED
    BY <1>5, <2>1
<1>. QED
  BY <1>1, <1>2, <1>3, <1>4, <1>5, OutsideSteps DEF Step, Proceed

(***************************************************************************)
(* Users come with identities.                                             *)
(***************************************************************************)

LEMMA HalfReadStays == MigrationNext /\ halfRead \in BOOLEAN /\ halfRead => halfRead'
<1> SUFFICES ASSUME NEW p \in Procs, halfRead \in BOOLEAN, halfRead,
                    UNCHANGED halfRead \/ CopyTable(p) \/ SynthesizeIdentities(p)
             PROVE  halfRead'
  BY DEF MigrationNext, Proceed, Boot, CreateIdentities, RebuildUsers, SqliteWrite, MaybeAutoMigrate, BackfillIdentities,
         DropColumns, CheckEmpty, OpenSource, VerifyTable, Commit, Abort, SeedAndListen, PgWrite, ghosts
<1>. QED
  BY Zenon DEF CopyTable, SynthesizeIdentities

LEMMA IdentityStep == MigrationTypeOK /\ FileInv /\ CopyInv /\ IdentityInv /\ MigrationNext => IdentityInv'
<1> SUFFICES ASSUME MigrationTypeOK, FileInv, CopyInv, IdentityInv, MigrationNext, NEW p \in Procs, Step(p), NEW q \in Procs
             PROVE  IdentityOk(q)'
  BY NextIsAStep DEF IdentityInv
<1>T. FileTypes /\ BootTypes /\ CopyTypes /\ halfRead \in BOOLEAN
  BY TypeParts DEF GhostTypes
<1>T2. /\ source["users"] \in Nat /\ source'["users"] \in Nat /\ source["users"] <= source'["users"]
       /\ tx[q]["users"] \in Nat
  BY <1>T, FileTypesStep, FileGrows, Tables DEF FileTypes, CopyTypes, Grows
<1>G. Grows
  BY FileGrows
<1>O. IdentityOk(q)
  BY DEF IdentityInv
<1>C. CopyOk(p) /\ CopyOk(p)'
  BY CopyStep DEF CopyInv
<1> USE DEF Copying, Verifying
<1>1. CASE q # p
  <2>1. Kept(q) /\ (Done(q, "identities")' <=> Done(q, "identities")) /\ (halfRead => halfRead')
    BY <1>1, <1>T, OthersKept, HalfReadStays DEF Kept, Done, Seen
  <2>. QED
    BY <2>1, <1>O, <1>G, <1>T2 DEF IdentityOk, Kept, Grows
<1>2. CASE q = p /\ Outside(p)
  <2>1. tx'[p]["users"] = 0
    BY <1>2, EmptyTypes, Tables DEF Outside
  <2>. QED
    BY <1>2, <2>1, <1>T2 DEF IdentityOk, Outside
<1>3. CASE q = p /\ (CheckEmpty(p) \/ OpenSource(p))
  <2>1. pc'[p] \notin Verifying /\ tx' = tx /\ source' = source
    BY <1>3, <1>T, Walk DEF CheckEmpty, OpenSource, Goto, BootTypes, fileVars
  <2>. QED
    BY <1>3, <2>1, <1>O DEF IdentityOk
<1>4. CASE q = p /\ CopyTable(p)
  <2>1. pc'[p] \in Copying
    BY <1>4, <1>T, Walk DEF CopyTable
  <2>. QED
    BY <1>4, <2>1, <1>C, Tables DEF IdentityOk, CopyOk
<1>5. CASE q = p /\ SynthesizeIdentities(p)
  <2>1. pc[p] = "synthesize" /\ pc'[p] = "verify" /\ at'[p] = 1 /\ UNCHANGED fileVars
        /\ tx'[p] = [tx[p] EXCEPT !["identities"] = IF TableExists("identities") THEN @ ELSE synthesized[p]]
    BY <1>5, <1>C, <1>T DEF SynthesizeIdentities, Goto, BootTypes, CopyTypes, CopyOk, fileVars
  <2>2. tx'[p]["users"] = tx[p]["users"] /\ source' = source /\ shape' = shape
    BY <2>1, <1>T DEF CopyTypes, fileVars
  <2>3. ~ Done(p, "identities")'
    BY <2>1 DEF Done, Seen
  <2>4. shape = "half" => halfRead'
    BY <1>5, Zenon DEF SynthesizeIdentities
  <2>5. shape = "legacy" => tx'[p]["identities"] = source["users"]
    BY <2>1, <1>C, <1>T, Tables DEF CopyOk, TableExists, CopyTypes
  <2>. QED
    BY <1>5, <2>1, <2>2, <2>3, <2>4, <2>5, <1>O, <1>T2 DEF IdentityOk
<1>6. CASE q = p /\ VerifyTable(p)
  <2> DEFINE here == TABLES[at[p]]
  <2>1. pc[p] = "verify" /\ tx' = tx /\ UNCHANGED <<source, shape, halfRead>>
        /\ tx[p][here] = SourceRows(here) /\ ToNextTable(p, "verify", "commit")
    BY <1>6 DEF VerifyTable, Agree, fileVars, ghosts
  <2>2. Done(p, "identities")' => Done(p, "identities") \/ here = "identities"
    BY <2>1, Walk, Tables DEF Done
  <2>3. shape \notin {"legacy", "half"} /\ here = "identities" /\ tx[p]["users"] # 0 => tx[p]["identities"] # 0
    BY <2>1, <1>O, <1>T2, <1>6 DEF SourceRows, IdentityOk, FileInv
  <2>. QED
    BY <1>6, <2>1, <2>2, <2>3, <1>O DEF IdentityOk
<1>. QED
  BY <1>1, <1>2, <1>3, <1>4, <1>5, <1>6, OutsideSteps DEF Step, Proceed

(***************************************************************************)
(* The schema upgrade of Postgres.                                         *)
(***************************************************************************)

LEMMA ColumnInit == MigrationInit => ColumnInv
<1> SUFFICES ASSUME MigrationInit PROVE ColumnInv
  OBVIOUS
<1>1. \A t \in Table : target[t] \in {0, Own}
  BY EmptyTypes, Tables DEF MigrationInit
<1>2. \A p \in Procs : pc[p] = "down"
  BY DEF MigrationInit
<1>. QED
  BY <1>1, <1>2 DEF ColumnInv, Upgraded, Copying, Verifying, PgServing

LEMMA ColumnStep == MigrationTypeOK /\ FileInv /\ ColumnInv /\ MigrationNext => ColumnInv'
<1> SUFFICES ASSUME MigrationTypeOK, FileInv, ColumnInv, MigrationNext, NEW p \in Procs, Step(p), pgColumns' PROVE ColumnInv'
  BY NextIsAStep, Zenon DEF ColumnInv
<1>T. BootTypes /\ PgTypes
  BY TypeParts
<1>1. pgColumns /\ (Boot(p, TRUE) \/ Boot(p, FALSE) \/ Abort(p) \/ CreateIdentities(p) \/ RebuildUsers(p)
         \/ (\E ts \in WriteSets : SqliteWrite(p, ts)) \/ MaybeAutoMigrate(p) \/ BackfillIdentities(p))
  <2>1. ~ DropColumns(p) /\ pgColumns
    BY <1>T, Zenon DEF DropColumns, Step, Proceed, Boot, Abort, CreateIdentities, RebuildUsers, SqliteWrite,
       MaybeAutoMigrate, BackfillIdentities, CheckEmpty, OpenSource, CopyTable, SynthesizeIdentities,
       VerifyTable, Commit, SeedAndListen, PgWrite, pgVars
  <2>2. pc[p] \notin Upgraded /\ ~ PgServing(p)
    BY <2>1, Zenon DEF ColumnInv
  <2>. QED
    BY <2>1, <2>2 DEF Step, Proceed, CheckEmpty, OpenSource, CopyTable, SynthesizeIdentities, VerifyTable,
       Commit, SeedAndListen, PgWrite, Upgraded, Copying, Verifying, PgServing
<1>2. \A q \in Procs : pc[q] \notin Upgraded /\ ~ PgServing(q)
  BY <1>1, Zenon DEF ColumnInv
<1>3. \A q \in Procs : pc'[q] \notin Upgraded /\ ~ PgServing(q)'
  BY <1>1, <1>2, <1>T DEF FileInv, BootTypes, Goto, Boot, Abort, CreateIdentities, RebuildUsers, SqliteWrite,
     MaybeAutoMigrate, BackfillIdentities, Upgraded, Copying, Verifying, PgServing
<1>4. target' = target \/ BackfillIdentities(p)
  BY <1>1 DEF pgVars, Boot, Abort, CreateIdentities, RebuildUsers, SqliteWrite, MaybeAutoMigrate
<1>5. \A t \in Table : target[t] \in {0, Own}
  BY <1>1, Zenon DEF ColumnInv
<1>6. BackfillIdentities(p) =>
        target' = IF target["identities"] = 0 THEN [target EXCEPT !["identities"] = target["users"]] ELSE target
  <2>1. BackfillIdentities(p) =>
          target' = IF pgColumns /\ target["identities"] = 0
                    THEN [target EXCEPT !["identities"] = target["users"]] ELSE target
    BY DEF BackfillIdentities
  <2>. QED
    BY <1>1, <2>1
<1>7. \A t \in Table : target'[t] \in {0, Own}
  BY <1>4, <1>5, <1>6, <1>T, Tables DEF PgTypes
<1>8. ASSUME NEW q \in Procs, pc'[q] = "drop", target'["users"] # 0 PROVE target'["identities"] # 0
  <2>1. CASE BackfillIdentities(p)
    BY <2>1, <1>6, <1>8, <1>T, Tables DEF PgTypes
  <2>2. CASE ~ BackfillIdentities(p)
    <3>1. pc[q] = "drop" /\ target' = target
      BY <2>2, <1>1, <1>4, <1>8, <1>T DEF BootTypes, Goto, Boot, Abort, CreateIdentities, RebuildUsers,
         SqliteWrite, MaybeAutoMigrate
    <3>. QED
      BY <3>1, <1>1, <1>8, Zenon DEF ColumnInv
  <2>. QED
    BY <2>1, <2>2
<1>. QED
  BY <1>3, <1>7, <1>8, Zenon DEF ColumnInv

(***************************************************************************)
(* Every boot that was not blind found the players.                        *)
(***************************************************************************)

LEMMA BlindStays == MigrationNext /\ blind \in BOOLEAN /\ blind => blind'
<1> SUFFICES ASSUME NEW p \in Procs, blind \in BOOLEAN, blind, UNCHANGED blind \/ MaybeAutoMigrate(p)
             PROVE  blind'
  BY DEF MigrationNext, Proceed, Boot, CreateIdentities, RebuildUsers, SqliteWrite, CopyTable, SynthesizeIdentities,
         BackfillIdentities, DropColumns, CheckEmpty, OpenSource, VerifyTable, Commit, Abort, SeedAndListen,
         PgWrite, ghosts
<1>. QED
  BY Zenon DEF MaybeAutoMigrate

LEMMA FoundStep == MigrationTypeOK /\ FileInv /\ FoundInv /\ MigrationNext => FoundInv'
<1> SUFFICES ASSUME MigrationTypeOK, FileInv, FoundInv, MigrationNext, NEW p \in Procs, Step(p), ~ blind',
                    NEW q \in Procs, url'[q], pc'[q] \notin {"down", "probe"}
             PROVE  source'["users"] # 0 /\ file'[q]
  BY NextIsAStep, Zenon DEF FoundInv
<1>T. FileTypes /\ BootTypes /\ GhostTypes
  BY TypeParts
<1>1. ~ blind
  BY <1>T, BlindStays, Zenon DEF GhostTypes
<1>2. source["users"] # 0 => source'["users"] # 0
  <2>1. source["users"] \in Nat /\ source'["users"] \in Nat /\ source["users"] <= source'["users"]
    BY <1>T, FileTypesStep, FileGrows, Tables DEF FileTypes, Grows
  <2>. QED
    BY <2>1
<1>3. ASSUME pc[q] \notin {"down", "probe"}, url[q], file'[q] = file[q]
      PROVE  source'["users"] # 0 /\ file'[q]
  <2>1. source["users"] # 0 /\ file[q]
    BY <1>1, <1>3, Zenon DEF FoundInv
  <2>. QED
    BY <2>1, <1>2, <1>3
<1>4. CASE q # p
  <2>1. Kept(q)
    BY <1>4, OthersKept
  <2>. QED
    BY <2>1, <1>3 DEF Kept
<1>5. CASE q = p /\ MaybeAutoMigrate(p)
  <2>1. source["users"] # 0
    BY <1>5, Zenon DEF MaybeAutoMigrate
  <2>2. shape # "absent"
    BY <2>1 DEF FileInv
  <2>3. file'[p]
    BY <1>5, <2>2, <1>T DEF MaybeAutoMigrate, BootTypes
  <2>. QED
    BY <1>5, <2>1, <2>3, <1>2
<1>6. CASE q = p /\ ((\E withUrl \in BOOLEAN : Boot(p, withUrl)) \/ CreateIdentities(p) \/ RebuildUsers(p))
  BY <1>6, <1>T DEF Boot, CreateIdentities, RebuildUsers, BootTypes, FileInv, Goto
<1>7. CASE q = p /\ (\/ BackfillIdentities(p) \/ DropColumns(p) \/ CheckEmpty(p) \/ OpenSource(p)
                     \/ CopyTable(p) \/ SynthesizeIdentities(p) \/ VerifyTable(p) \/ Commit(p)
                     \/ Abort(p) \/ SeedAndListen(p) \/ PgWrite(p)
                     \/ \E ts \in WriteSets : SqliteWrite(p, ts))
  <2>1. pc[q] \notin {"down", "probe"} /\ url'[q] = url[q] /\ file'[q] = file[q]
    BY <1>7 DEF BackfillIdentities, DropColumns, CheckEmpty, OpenSource, CopyTable, SynthesizeIdentities,
       VerifyTable, Commit, Abort, SeedAndListen, PgWrite, SqliteWrite
  <2>. QED
    BY <2>1, <1>3
<1>. QED
  BY <1>4, <1>5, <1>6, <1>7 DEF Step, Proceed

LEMMA VerifiedStep == MigrationTypeOK /\ FileInv /\ CopyInv /\ FoundInv /\ VerifiedInv /\ MigrationNext => VerifiedInv'
<1> SUFFICES ASSUME MigrationTypeOK, FileInv, CopyInv, FoundInv, VerifiedInv, MigrationNext, NEW p \in Procs, Step(p), ~ blind',
                    NEW q \in Procs, pc'[q] \in Verifying, Done(q, "users")'
             PROVE  tx'[q]["users"] # 0
  BY NextIsAStep, Zenon DEF VerifiedInv
<1>T. FileTypes /\ BootTypes /\ CopyTypes /\ GhostTypes
  BY TypeParts
<1>B. ~ blind
  BY <1>T, BlindStays, Zenon DEF GhostTypes
<1>C. CopyOk(p)
  BY DEF CopyInv
<1> USE DEF Copying, Verifying
<1>1. CASE q # p
  <2>1. Kept(q) /\ Done(q, "users")
    BY <1>1, OthersKept DEF Kept, Done, Seen
  <2>2. tx[q]["users"] # 0
    BY <2>1, <1>B, Zenon DEF VerifiedInv, Kept
  <2>. QED
    BY <2>1, <2>2 DEF Kept
<1>2. CASE q = p /\ VerifyTable(p)
  <2> DEFINE here == TABLES[at[p]]
  <2>1. pc[p] = "verify" /\ tx' = tx /\ tx[p][here] = SourceRows(here) /\ ToNextTable(p, "verify", "commit")
    BY <1>2 DEF VerifyTable, Agree
  <2>2. Done(p, "users") \/ here = "users"
    BY <1>2, <2>1, Walk, Tables DEF Done
  <2>3. Done(p, "users") => tx[p]["users"] # 0
    BY <2>1, <1>B, Zenon DEF VerifiedInv
  <2>4. source["users"] # 0
    <3>1. url[p]
      BY <2>1 DEF FileInv, Connected, Upgraded
    <3>2. pc[p] \notin {"down", "probe"}
      BY <2>1
    <3>. QED
      BY <3>1, <3>2, <1>B, Zenon DEF FoundInv
  <2>. QED
    BY <1>2, <2>1, <2>2, <2>3, <2>4 DEF SourceRows
<1>3. CASE q = p /\ SynthesizeIdentities(p)
  <2>1. pc'[p] = "verify" /\ at'[p] = 1
    BY <1>3, <1>C, <1>T DEF SynthesizeIdentities, Goto, BootTypes, CopyOk
  <2>. QED
    BY <1>3, <2>1 DEF Done, Seen
<1>4. CASE q = p /\ Outside(p)
  BY <1>4 DEF Outside
<1>5. CASE q = p /\ (CheckEmpty(p) \/ OpenSource(p) \/ CopyTable(p))
  <2>1. pc'[p] \notin Verifying
    BY <1>5, <1>T, Walk DEF CheckEmpty, OpenSource, CopyTable, Goto, BootTypes
  <2>. QED
    BY <1>5, <2>1
<1>. QED
  BY <1>1, <1>2, <1>3, <1>4, <1>5, OutsideSteps DEF Step, Proceed

LEMMA ServedStep ==
    MigrationTypeOK /\ FileInv /\ FoundInv /\ VerifiedInv /\ ServedInv /\ MigrationNext => ServedInv'
<1> SUFFICES ASSUME MigrationTypeOK, FileInv, FoundInv, VerifiedInv, ServedInv, MigrationNext, NEW p \in Procs, Step(p), ~ blind'
             PROVE  /\ (\E t \in Table : target'[t] # 0) => target'["users"] \in Nat \ {0}
                    /\ \A q \in Procs : pc'[q] = "seed" \/ PgServing(q)' => target'["users"] \in Nat \ {0}
  BY NextIsAStep, Zenon DEF ServedInv
<1>T. BootTypes /\ PgTypes /\ CopyTypes /\ GhostTypes
  BY TypeParts
<1>B. ~ blind
  BY <1>T, BlindStays, Zenon DEF GhostTypes
<1> DEFINE Players == target["users"] \in Nat \ {0}
<1>S. /\ (\E t \in Table : target[t] # 0) => Players
      /\ \A q \in Procs : pc[q] = "seed" \/ PgServing(q) => Players
  BY <1>B, Zenon DEF ServedInv
<1>1. CASE target' = target
  <2>1. ASSUME NEW q \in Procs, pc'[q] = "seed" \/ PgServing(q)', q # p PROVE Players
    BY <2>1, <1>S, OthersKept DEF Kept, PgServing
  <2>2. ASSUME pc'[p] = "seed" \/ PgServing(p)' PROVE Players
    <3>1. CASE DropColumns(p)
      <4>1. url[p] /\ pc[p] \notin {"down", "probe"}
        BY <3>1 DEF DropColumns, FileInv, Connected
      <4>2. file[p]
        BY <4>1, <1>B, Zenon DEF FoundInv
      <4>3. pc' = [pc EXCEPT ![p] = "empty"]
        BY <3>1, <4>2, Zenon DEF DropColumns, Goto
      <4>. QED
        BY <2>2, <4>3, <1>T DEF BootTypes, PgServing
    <3>2. CASE CheckEmpty(p)
      <4>1. pc'[p] = "seed" => target[TABLES[at[p]]] # 0
        BY <3>2, Walk DEF CheckEmpty
      <4>2. pc'[p] \in {"seed", "empty", "open"} /\ TABLES[at[p]] \in Table
        BY <3>2, <1>T, Walk, Tables DEF CheckEmpty, Goto, BootTypes
      <4>. QED
        BY <2>2, <4>1, <4>2, <1>S DEF PgServing
    <3>3. CASE CopyTable(p) \/ VerifyTable(p)
      <4>1. pc'[p] \in {"copy", "synthesize", "verify", "commit"}
        BY <3>3, Walk DEF CopyTable, VerifyTable
      <4>. QED
        BY <2>2, <4>1 DEF PgServing
    <3>4. CASE Commit(p) \/ SeedAndListen(p) \/ PgWrite(p)
      <4>1. CASE SeedAndListen(p) \/ PgWrite(p)
        BY <4>1, <1>S DEF SeedAndListen, PgWrite, PgServing
      <4>2. CASE Commit(p)
        <5>1. tx[p]["users"] # 0
          BY <4>2, <1>B, Zenon DEF VerifiedInv, Commit, Done, Verifying
        <5>2. target'["users"] = tx[p]["users"]
          BY <4>2, <5>1, Tables DEF Commit
        <5>. QED
          BY <5>1, <5>2, <1>1, <1>T, Tables DEF CopyTypes
      <4>. QED
        BY <3>4, <4>1, <4>2
    <3>5. CASE \/ \E withUrl \in BOOLEAN : Boot(p, withUrl)
               \/ CreateIdentities(p) \/ RebuildUsers(p) \/ MaybeAutoMigrate(p) \/ BackfillIdentities(p)
               \/ OpenSource(p) \/ SynthesizeIdentities(p) \/ Abort(p)
               \/ \E ts \in WriteSets : SqliteWrite(p, ts)
      BY <2>2, <3>5, <1>T DEF PgServing, FileInv, BootTypes, Goto, Boot, CreateIdentities, RebuildUsers,
         MaybeAutoMigrate, BackfillIdentities, OpenSource, SynthesizeIdentities, Abort, SqliteWrite
    <3>. QED
      BY <3>1, <3>2, <3>3, <3>4, <3>5 DEF Step, Proceed
  <2>. QED
    BY <1>1, <1>S, <2>1, <2>2
<1>2. CASE Commit(p)
  <2>1. tx[p]["users"] # 0
    BY <1>2, <1>B, Zenon DEF VerifiedInv, Commit, Done, Verifying
  <2>2. target'["users"] = tx[p]["users"]
    BY <1>2, <2>1, Tables DEF Commit
  <2>. QED
    BY <2>1, <2>2, <1>T, Tables DEF CopyTypes
<1>3. CASE SeedAndListen(p) \/ PgWrite(p)
  <2>1. Players
    BY <1>3, <1>S DEF SeedAndListen, PgWrite, PgServing
  <2>2. target'["users"] = target["users"]
    BY <1>3, <2>1, <1>T, Tables, TableAssumption DEF SeedAndListen, PgWrite, PgTypes
  <2>. QED
    BY <2>1, <2>2
<1>4. CASE BackfillIdentities(p)
  <2>1. \/ target' = target
        \/ target' = [target EXCEPT !["identities"] = target["users"]]
    BY <1>4, Zenon DEF BackfillIdentities
  <2>2. target'["users"] = target["users"] /\ ((\E t \in Table : target'[t] # 0) => \E t \in Table : target[t] # 0)
    BY <2>1, <1>T, Tables DEF PgTypes
  <2>3. \A q \in Procs : pc'[q] = "seed" \/ PgServing(q)' => pc[q] = "seed" \/ PgServing(q)
    BY <1>4, <1>T DEF BackfillIdentities, Goto, BootTypes, PgServing
  <2>. QED
    BY <2>2, <2>3, <1>S
<1>. QED
  BY <1>1, <1>2, <1>3, <1>4 DEF Step, Proceed, Boot, CreateIdentities, RebuildUsers, SqliteWrite,
     MaybeAutoMigrate, DropColumns, CheckEmpty, OpenSource, CopyTable, SynthesizeIdentities, VerifyTable,
     Abort, pgVars

(***************************************************************************)
(* The two properties of what Postgres holds.                              *)
(***************************************************************************)

LEMMA LockedOutStep ==
    MigrationTypeOK /\ CopyInv /\ IdentityInv /\ ColumnInv /\ NobodyLockedOut /\ MigrationNext => NobodyLockedOut'
<1> SUFFICES ASSUME MigrationTypeOK, IdentityInv, ColumnInv, NobodyLockedOut, MigrationNext, NEW p \in Procs, Step(p),
                    ~ pgColumns', target'["users"] # 0, ~ halfRead'
             PROVE  target'["identities"] # 0
  BY NextIsAStep, Zenon DEF NobodyLockedOut
<1>T. BootTypes /\ PgTypes /\ CopyTypes /\ GhostTypes
  BY TypeParts
<1>H. ~ halfRead
  BY <1>T, HalfReadStays, Zenon DEF GhostTypes
<1>N. ~ pgColumns /\ target["users"] # 0 => target["identities"] # 0
  BY <1>H, Zenon DEF NobodyLockedOut
<1>1. CASE UNCHANGED pgVars
  BY <1>1, <1>N DEF pgVars
<1>2. CASE DropColumns(p)
  <2>1. pc[p] = "drop" /\ target' = target
    BY <1>2 DEF DropColumns
  <2>2. pgColumns /\ target["users"] # 0 => target["identities"] # 0
    BY <2>1, Zenon DEF ColumnInv
  <2>. QED
    BY <2>1, <2>2, <1>N, Zenon
<1>3. CASE BackfillIdentities(p)
  <2>1. ~ pgColumns
    BY <1>3, Zenon DEF BackfillIdentities
  <2>2. target' = target
    BY <1>3, <2>1, Zenon DEF BackfillIdentities
  <2>. QED
    BY <2>1, <2>2, <1>N
<1>4. CASE Commit(p)
  <2>1. \A t \in {"users", "identities"} : target'[t] = IF tx[p][t] # 0 THEN tx[p][t] ELSE target[t]
    BY <1>4, Tables DEF Commit
  <2>2. tx[p]["users"] # 0 => tx[p]["identities"] # 0
    BY <1>4, <1>H, Zenon DEF IdentityInv, IdentityOk, Done, Verifying, Commit
  <2>3. ~ pgColumns
    BY <1>4, Zenon DEF Commit, ColumnInv, Upgraded, Verifying
  <2>. QED
    BY <2>1, <2>2, <2>3, <1>N
<1>5. CASE SeedAndListen(p)
  <2>1. target'["users"] = target["users"] /\ target'["identities"] = target["identities"] /\ pgColumns' = pgColumns
    BY <1>5, <1>T, Tables, TableAssumption DEF SeedAndListen, PgTypes
  <2>. QED
    BY <2>1, <1>N, Zenon
<1>6. CASE PgWrite(p)
  BY <1>6, Tables, OwnAssumption DEF PgWrite
<1>. QED
  BY <1>1, <1>2, <1>3, <1>4, <1>5, <1>6 DEF Step, Proceed, Boot, CreateIdentities, RebuildUsers, SqliteWrite,
     MaybeAutoMigrate, CheckEmpty, OpenSource, CopyTable, SynthesizeIdentities, VerifyTable, Abort

LEMMA OneMomentStep ==
    MigrationTypeOK /\ FileInv /\ ColumnInv /\ MomentInv /\ CopiedOneMoment /\ MigrationNext => CopiedOneMoment'
<1> SUFFICES ASSUME MigrationTypeOK, FileInv, ColumnInv, MomentInv, CopiedOneMoment, MigrationNext, NEW p \in Procs, Step(p),
                    \E t \in Table : target'[t] \in Nat \ {0}
             PROVE  \E moment \in past' : \A t \in Table : moment[t] # 0 => target'[t] = moment[t]
  BY NextIsAStep DEF CopiedOneMoment
<1>T. FileTypes /\ PgTypes /\ CopyTypes
  BY TypeParts
<1>G. past \subseteq past'
  BY FileGrows DEF Grows
<1>1. CASE target' = target
  BY <1>1, <1>G DEF CopiedOneMoment
<1>2. CASE BackfillIdentities(p)
  <2>1. CASE pgColumns
    <3>1. \A t \in Table : target[t] \in {0, Own}
      BY <2>1, Zenon DEF ColumnInv
    <3>2. \/ target' = target
          \/ target' = [target EXCEPT !["identities"] = target["users"]]
      BY <1>2, Zenon DEF BackfillIdentities
    <3>3. \A t \in Table : target'[t] \in {0, Own}
      BY <3>1, <3>2, <1>T, Tables DEF PgTypes
    <3>. QED
      BY <3>3, OwnAssumption
  <2>2. CASE ~ pgColumns
    <3>1. target' = target
      BY <1>2, <2>2, Zenon DEF BackfillIdentities
    <3>. QED
      BY <3>1, <1>1
  <2>. QED
    BY <2>1, <2>2
<1>3. CASE Commit(p)
  <2>1. PICK m \in past : Moment(p, m)
    BY <1>3 DEF MomentInv, Verifying, Commit
  <2>2. \A t \in Table : tx[p][t] = m[t]
    BY <1>3, <2>1 DEF Moment, Done, Commit
  <2>3. \A t \in Table : m[t] # 0 => target'[t] = m[t]
    BY <1>3, <2>2 DEF Commit
  <2>. QED
    BY <2>3, <1>G
<1>4. CASE SeedAndListen(p) \/ PgWrite(p)
  <2>1. \A t \in Table : target'[t] = target[t] \/ (target[t] = 0 /\ target'[t] = Own)
    <3>1. CASE SeedAndListen(p)
      BY <3>1, <1>T, Tables DEF SeedAndListen, Seed, PgTypes
    <3>2. CASE PgWrite(p)
      BY <3>2 DEF PgWrite
    <3>. QED
      BY <1>4, <3>1, <3>2
  <2>2. \E t \in Table : target[t] \in Nat \ {0}
    BY <2>1, OwnAssumption
  <2>3. PICK m \in past : \A t \in Table : m[t] # 0 => target[t] = m[t]
    BY <2>2 DEF CopiedOneMoment
  <2>4. \A t \in Table : m[t] # 0 => target'[t] = m[t]
    BY <2>1, <2>3
  <2>. QED
    BY <2>4, <1>G
<1>. QED
  BY <1>1, <1>2, <1>3, <1>4 DEF Step, Proceed, Boot, CreateIdentities, RebuildUsers, SqliteWrite,
     MaybeAutoMigrate, DropColumns, CheckEmpty, OpenSource, CopyTable, SynthesizeIdentities, VerifyTable,
     Abort, pgVars

(***************************************************************************)
(* The theorems.                                                           *)
(***************************************************************************)

Inv ==
    /\ MigrationTypeOK
    /\ FileInv /\ CopyInv /\ MomentInv /\ IdentityInv /\ ColumnInv
    /\ FoundInv /\ VerifiedInv /\ ServedInv
    /\ NobodyLockedOut /\ CopiedOneMoment

LEMMA InvInit == MigrationInit => Inv
<1> SUFFICES ASSUME MigrationInit PROVE Inv
  OBVIOUS
<1>1. \A p \in Procs : pc[p] = "down" /\ tx[p]["users"] = 0
  BY EmptyTypes, Tables DEF MigrationInit
<1>2. source["users"] \in Nat
  BY TypeInit, Tables DEF MigrationTypeOK
<1>3. MomentInv /\ VerifiedInv
  BY <1>1 DEF MomentInv, VerifiedInv, Verifying
<1>4. IdentityInv
  BY <1>1, <1>2 DEF IdentityInv, IdentityOk, Verifying
<1>5. FoundInv
  BY <1>1 DEF FoundInv
<1>6. ~ pgColumns => \A t \in Table : target[t] = 0
  BY EmptyTypes, Tables DEF MigrationInit
<1>7. \A t \in Table : target[t] \in {0, Own}
  BY EmptyTypes, Tables DEF MigrationInit
<1>8. ServedInv
  <2>1. ~ blind => ~ pgColumns
    BY Zenon DEF MigrationInit
  <2>. QED
    BY <1>1, <1>6, <2>1, Tables DEF ServedInv, PgServing
<1>9. NobodyLockedOut
  BY <1>6, Tables DEF NobodyLockedOut
<1>10. CopiedOneMoment
  BY <1>7, OwnAssumption DEF CopiedOneMoment
<1>. QED
  BY TypeInit, FileInit, CopyInit, ColumnInit, <1>3, <1>4, <1>5, <1>8, <1>9, <1>10 DEF Inv

LEMMA InvStep == Inv /\ [MigrationNext]_migrationVars => Inv'
<1>1. CASE MigrationNext
  BY <1>1, TypeStep, FileStep, CopyStep, MomentStep, IdentityStep, ColumnStep, FoundStep, VerifiedStep,
     ServedStep, LockedOutStep, OneMomentStep, Zenon DEF Inv
<1>2. CASE UNCHANGED migrationVars
  <2>. SUFFICES ASSUME Inv, UNCHANGED migrationVars PROVE Inv'
    BY <1>2
  <2>1. FileInv' /\ CopyInv' /\ MomentInv' /\ IdentityInv'
    BY DEF Inv, migrationVars, fileVars, pgVars, ghosts, FileInv, CopyInv, CopyOk, MomentInv, Moment, IdentityInv,
       IdentityOk, Done, Seen, Contents, SourceRows
  <2>2. ColumnInv' /\ FoundInv' /\ VerifiedInv' /\ ServedInv'
    BY DEF Inv, migrationVars, fileVars, pgVars, ghosts, ColumnInv, FoundInv, VerifiedInv, ServedInv, PgServing, Done, Seen
  <2>3. MigrationTypeOK' /\ NobodyLockedOut' /\ CopiedOneMoment'
    BY DEF Inv, migrationVars, fileVars, pgVars, ghosts, MigrationTypeOK, NobodyLockedOut, CopiedOneMoment
  <2>. QED
    BY <2>1, <2>2, <2>3 DEF Inv
<1>. QED
  BY <1>1, <1>2

\* Every variable keeps its type.
THEOREM MigrationTypes == MigrationSpec => []MigrationTypeOK
BY TypeInit, TypeStep, PTL DEF MigrationSpec

\* What Postgres holds from the file is all of one moment of it, however the
\* copies, verifications, crashes and SQLite writes interleave.
THEOREM CopyIsOneMoment == MigrationSpec => []CopiedOneMoment
<1>1. Inv => CopiedOneMoment
  BY DEF Inv
<1>. QED
  BY <1>1, InvInit, InvStep, PTL DEF MigrationSpec

\* No Postgres server comes up empty over a file with players in it, unless
\* an earlier boot found no players.
THEOREM PlayersAreServed == MigrationSpec => []NeverServesEmptyGame
<1>1. Inv => NeverServesEmptyGame
  <2> SUFFICES ASSUME Inv, NEW p \in Procs, pc[p] = "serving", url[p], ~ blind
               PROVE  target["users"] \in Nat \ {0}
    BY Zenon DEF NeverServesEmptyGame
  <2>. QED
    BY Zenon DEF Inv, ServedInv, PgServing
<1>. QED
  BY <1>1, InvInit, InvStep, PTL DEF MigrationSpec

\* Once the provider columns are gone, users in Postgres have identities, so
\* a boot that dies between two statements locks nobody out.
THEOREM UsersCanLogIn == MigrationSpec => []NobodyLockedOut
<1>1. Inv => NobodyLockedOut
  BY DEF Inv
<1>. QED
  BY <1>1, InvInit, InvStep, PTL DEF MigrationSpec

-----------------------------------------------------------------------------
(***************************************************************************)
(* The inductive invariant.                                                *)
(***************************************************************************)

Writing == {"putConfigRow", "putHistory", "stored"}
Changing == {"activateEvent", "invalidate"}

Accepted == [version: Nat, data: Docs]
Effective == [version: Nat, data: Docs, event: Event \cup {None}]
AnyLoad == [at: {"idle", "read", "fill", "served"},
            base: Accepted \cup {None}, event: Event \cup {None},
            served: Effective \cup {None},
            docs: SUBSET Docs, events: SUBSET (Event \cup {None})]
Load == {x \in AnyLoad : /\ x.at \in Reading => x.base \in Accepted
                         /\ x.at = "served" => x.served \in Effective}

\* What the process holds in memory was accepted by this build.
Typed ==
    /\ row \in Config \cup {None} /\ history \in Seq(Config)
    /\ active \in Event \cup {None}
    /\ cache \in Accepted \cup {None}
    /\ effectiveCache \in Effective \cup {None}
    /\ up \in BOOLEAN
    /\ doing \in {"boot", "idle"} \cup Writing \cup Changing
    /\ draft \in IF doing \in Writing THEN Accepted
                ELSE IF doing = "activateEvent" THEN Event ELSE {None}
    /\ load \in [Loads -> Load]
    /\ acked \in [data: Docs \cup {None}, event: Event \cup {None}]
    /\ failed \in BOOLEAN /\ overlapped \in BOOLEAN
    /\ changes \in Nat /\ mishaps \in Nat

\* A process that has not come up holds nothing.
Serving ==
    /\ up => cache # None /\ acked.data # None /\ doing # "boot"
    /\ ~ up => /\ cache = None /\ effectiveCache = None
               /\ doing \in {"boot"} \cup Writing
               /\ load = [l \in Loads |-> Idle]

\* The configs this process compares by their version.
Bases == {load[l].base : l \in {m \in Loads : load[m].at \in Reading}}
Known == (Bases \cup {cache, effectiveCache}) \ {None}

\* Among them a version names one document, and the cache has the newest.
KnownByVersion ==
    /\ \A c, d \in Known : c.version = d.version => c.data = d.data
    /\ up => /\ acked.data = cache.data
             /\ \A c \in Known : c.version <= cache.version
             /\ doing \in Writing => draft.version > cache.version

\* A load under way has seen what it has read, and the event as it is now.
ReadIsSeen ==
    \A l \in Loads : load[l].at \in Reading =>
        /\ load[l].base.data \in load[l].docs
        /\ active \in load[l].events
        /\ load[l].at = "fill" => load[l].event \in load[l].events

\* The rows of the event that a cache or a load may hold.
Current == IF doing \in Changing THEN {active, acked.event, None} ELSE {active}

\* While nothing failed and no load was overtaken by an invalidation, the cache
\* and the loads hold the event as it is, or as it was when its change began.
EventIsCurrent ==
    /\ doing = "activateEvent" => active = None
    /\ up /\ ~ failed =>
        /\ doing \notin Changing => acked.event = active
        /\ \A l \in Loads : load[l].at \in Reading => acked.event \in load[l].events
        /\ ~ overlapped => /\ effectiveCache # None => effectiveCache.event \in Current
                           /\ \A l \in Loads : load[l].at = "fill" => load[l].event \in Current

\* Every version is above those before it, also while a write is under way.
LogGrows ==
    ~ failed =>
        /\ row = None => history = <<>>
        /\ doing \in {"idle"} \cup Changing => row = cache
        /\ doing = "putConfigRow" /\ row # None => draft.version > row.version
        /\ doing = "putHistory" => /\ row = draft
                                /\ \A i \in 1..Len(history) : history[i].version < draft.version
        /\ doing = "stored" => row = draft

ConfigInv ==
    /\ Typed /\ Serving /\ KnownByVersion /\ ReadIsSeen /\ EventIsCurrent
    /\ LogGrows /\ VersionsNameDocuments /\ ServedIsCurrent

-----------------------------------------------------------------------------
(***************************************************************************)
(* Types.                                                                  *)
(***************************************************************************)

USE DEF Writing, Changing, Reading

LEMMA Apart ==
    /\ None \notin Config /\ None \notin Event /\ None \notin Docs /\ None \notin Events
    /\ Accepted \subseteq Config /\ Docs \subseteq Stored /\ Default \in Docs
    /\ \A d \in Stored : Upgrade[d] \in Docs
  BY DocAssumption, NoneAssumption DEF Accepted, Config, Stored

\* A step that awaits a statement of a load, or ends the load.
LEMMA LoadKeepsTypes ==
    ASSUME Typed, Serving, NEW l \in Loads,
           GetConfig(l) \/ GetActiveEvent(l) \/ GetEffectiveConfig(l) \/ LoadEnds(l)
    PROVE  Typed' /\ Serving'
<1>1. /\ UNCHANGED <<tables, cache, up, doing, draft, acked, failed, overlapped, changes, mishaps>>
      /\ effectiveCache' \in Effective \cup {None}
      /\ \E x \in Load : load' = [load EXCEPT ![l] = x]
  <2> USE Apart DEF Typed
  <2>0. load[l] \in Load
    OBVIOUS
  <2>1. CASE GetConfig(l)
    <3> DEFINE x == [Idle EXCEPT !.at = "read", !.base = cache, !.docs = {acked.data},
                                 !.events = IF doing \in Changing
                                            THEN {active, acked.event} ELSE {active}]
    <3>1. acked.data \in Docs /\ cache \in Accepted
      BY <2>1 DEF GetConfig, Serving
    <3>2. x \in Load
      BY <3>1, ZenonT(60) DEF Idle, Load, AnyLoad
    <3> QED
      BY <2>1, <3>2 DEF GetConfig
  <2>2. CASE GetActiveEvent(l)
    <3>1. [load[l] EXCEPT !.at = "fill", !.event = active] \in Load
      BY <2>0, <2>2 DEF GetActiveEvent, Load, AnyLoad
    <3>2. load' = [load EXCEPT ![l] = [load[l] EXCEPT !.at = "fill", !.event = active]]
      BY <2>2 DEF GetActiveEvent
    <3> QED
      BY <2>2, <3>1, <3>2 DEF GetActiveEvent
  <2>3. CASE GetEffectiveConfig(l)
    <3>1. effectiveCache' \in Effective
      BY <2>0, <2>3 DEF GetEffectiveConfig, Hit, Load, AnyLoad, Accepted, Effective
    <3>2. [Idle EXCEPT !.at = "served", !.served = effectiveCache',
                       !.docs = load[l].docs, !.events = load[l].events] \in Load
      BY <2>0, <3>1 DEF Idle, Load, AnyLoad
    <3> QED
      BY <2>3, <3>1, <3>2 DEF GetEffectiveConfig
  <2>4. CASE LoadEnds(l)
    <3>1. Idle \in Load
      BY DEF Idle, Load, AnyLoad
    <3> QED
      BY <2>4, <3>1 DEF LoadEnds
  <2> QED
    BY <2>1, <2>2, <2>3, <2>4
<1>2. up
  BY DEF GetConfig, GetActiveEvent, GetEffectiveConfig, LoadEnds, Serving, Idle
<1> QED
  BY <1>1, <1>2 DEF Typed, Serving, tables

LEMMA DraftIsAccepted == Typed /\ doing \in Writing => draft \in Accepted
  BY DEF Typed

\* What came to hold is a change of the loads' history only.
LEMMA SeenDocKeepsLoads ==
    ASSUME load \in [Loads -> Load], NEW d \in Docs, SeenDoc(d)
    PROVE  load' \in [Loads -> Load]
<1>1. SUFFICES ASSUME NEW l \in Loads, load[l].at \in Reading
               PROVE  [load[l] EXCEPT !.docs = @ \cup {d}] \in Load
  BY DEF SeenDoc
<1> QED
  BY <1>1 DEF Load, AnyLoad

LEMMA SetActiveKeepsLoads ==
    ASSUME load \in [Loads -> Load], NEW e \in Event \cup {None}, SetActive(e)
    PROVE  load' \in [Loads -> Load]
<1>1. SUFFICES ASSUME NEW l \in Loads, load[l].at \in Reading
               PROVE  [load[l] EXCEPT !.events = @ \cup {e}] \in Load
  BY DEF SetActive
<1> QED
  BY <1>1 DEF Load, AnyLoad

LEMMA IdleLoads == [l \in Loads |-> Idle] \in [Loads -> Load]
  BY DEF Idle, Load, AnyLoad

LEMMA SetCacheKeepsTypes ==
    ASSUME Typed, Serving, NEW config \in Accepted, SetCache(config)
    PROVE  Typed' /\ Serving'
<1>1. load' \in [Loads -> Load]
  BY SeenDocKeepsLoads DEF SetCache, Typed, Accepted
<1> QED
  BY <1>1, Apart DEF Typed, Serving, SetCache, Accepted, tables

LEMMA WriteKeepsTypes ==
    ASSUME Typed, Serving, NEW config \in Accepted, Write(config)
    PROVE  Typed' /\ Serving'
  BY DEF Typed, Serving, Write, tables

LEMMA ServingIsUp == Typed /\ Serving /\ doing \in {"idle"} \cup Changing => up /\ cache \in Accepted
  BY DEF Typed, Serving

LEMMA SetActiveKeepsTypes ==
    ASSUME Typed, Serving, doing \in {"idle"} \cup Changing, NEW e \in Event \cup {None}, SetActive(e),
           doing' \in {"idle"} \cup Changing,
           draft' \in IF doing' = "activateEvent" THEN Event ELSE {None}, changes' \in Nat
    PROVE  Typed' /\ Serving'
<1>1. load' \in [Loads -> Load]
  BY SetActiveKeepsLoads DEF Typed
<1> QED
  BY <1>1, ServingIsUp DEF Typed, Serving, SetActive

\* Every step keeps the types and what the server holds before it listens.
LEMMA TypesKept == ASSUME Typed, Serving, [ConfigNext]_configVars PROVE Typed' /\ Serving'
<1>1. CASE EnsureConfig
  <2>1. CASE row = None
    <3>1. [version |-> 1, data |-> Default] \in Accepted
      BY Apart DEF Accepted
    <3> QED
      BY <1>1, <2>1, <3>1, WriteKeepsTypes DEF EnsureConfig
  <2>2. CASE row # None /\ Upgrade[row.data] # row.data
    <3>1. [version |-> row.version + 1, data |-> Upgrade[row.data]] \in Accepted
      BY <2>2, Apart DEF Accepted, Typed, Config
    <3> QED
      BY <1>1, <2>2, <3>1, WriteKeepsTypes DEF EnsureConfig
  <2>3. CASE row # None /\ Upgrade[row.data] = row.data
    <3>1. row \in Accepted
      BY <2>3, Apart DEF Accepted, Typed, Config
    <3> QED
      BY <1>1, <2>3, <3>1, SetCacheKeepsTypes DEF EnsureConfig
  <2> QED
    BY <2>1, <2>2, <2>3
<1>2. ASSUME NEW d \in Docs, UpdateConfig(d) PROVE Typed' /\ Serving'
  <2>1. [version |-> cache.version + 1, data |-> d] \in Accepted
    BY <1>2, ServingIsUp DEF UpdateConfig, Accepted
  <2> QED
    BY <1>2, <2>1, WriteKeepsTypes DEF UpdateConfig
<1>3. ASSUME NEW v \in 1..MaxVersion, RollbackConfig(v) PROVE Typed' /\ Serving'
  <2>1. [version |-> cache.version + 1, data |-> history[Found(v)].data] \in Accepted
    BY <1>3, ServingIsUp DEF RollbackConfig, Accepted
  <2> QED
    BY <1>3, <2>1, WriteKeepsTypes DEF RollbackConfig
<1>4. CASE PutConfigRow
  BY <1>4, DraftIsAccepted, Apart DEF PutConfigRow, Typed, Serving
<1>5. CASE PutHistory
  <2>1. history' \in Seq(Config)
    BY <1>5, DraftIsAccepted, Apart DEF PutHistory, Typed
  <2> QED
    BY <1>5, <2>1 DEF PutHistory, Typed, Serving
<1>6. CASE Acknowledge
  BY <1>6, DraftIsAccepted, SetCacheKeepsTypes DEF Acknowledge
<1>7. CASE Fail
  BY <1>7 DEF Fail, Typed, Serving, tables
<1>8. ASSUME NEW e \in Event, ActivateEvent(e) PROVE Typed' /\ Serving'
  BY <1>8, SetActiveKeepsTypes DEF ActivateEvent, Change, Typed
<1>9. CASE ActivateEventSet
  BY <1>9, SetActiveKeepsTypes DEF ActivateEventSet, Typed
<1>10. CASE EndEvent
  BY <1>10, SetActiveKeepsTypes DEF EndEvent, Change, Typed
<1>11. ASSUME NEW w \in Windows, PutEvent(w) PROVE Typed' /\ Serving'
  <2>1. [active EXCEPT !.window = w] \in Event
    BY <1>11 DEF PutEvent, Typed, Event
  <2> QED
    BY <1>11, <2>1, SetActiveKeepsTypes DEF PutEvent, Change, Typed
<1>12. CASE InvalidateEffectiveConfig
  BY <1>12, ServingIsUp DEF InvalidateEffectiveConfig, Typed, Serving, tables
<1>13. ASSUME NEW l \in Loads, GetConfig(l) \/ GetActiveEvent(l) \/ GetEffectiveConfig(l) \/ LoadEnds(l)
       PROVE  Typed' /\ Serving'
  BY <1>13, LoadKeepsTypes
<1>14. CASE Reboot
  <2>1. load' \in [Loads -> Load]
    BY <1>14, IdleLoads DEF Reboot
  <2>2. /\ UNCHANGED <<tables, acked, failed, overlapped, changes>>
        /\ cache' = None /\ effectiveCache' = None /\ up' = FALSE
        /\ doing' = "boot" /\ draft' = None /\ mishaps' = mishaps + 1
    BY <1>14 DEF Reboot
  <2>3. Typed'
    <3>1. mishaps' \in Nat /\ draft' = None /\ doing' = "boot"
      BY <2>2 DEF Typed
    <3>2. draft' \in IF doing' \in Writing THEN Accepted
                    ELSE IF doing' = "activateEvent" THEN Event ELSE {None}
      BY <3>1
    <3>3. UNCHANGED <<tables, acked, failed, overlapped, changes>>
      BY <2>2
    <3> QED
      BY <2>1, <2>2, <3>1, <3>2, <3>3 DEF Typed, tables
  <2>4. Serving'
    BY <1>14 DEF Reboot, Serving
  <2> QED
    BY <2>3, <2>4
<1>15. CASE UNCHANGED configVars
  BY <1>15 DEF configVars, tables, Typed, Serving
<1> QED
  BY <1>1, <1>2, <1>3, <1>4, <1>5, <1>6, <1>7, <1>8, <1>9, <1>10, <1>11, <1>12, <1>13, <1>14, <1>15 DEF ConfigNext

-----------------------------------------------------------------------------
(***************************************************************************)
(* The kinds of steps.                                                     *)
(***************************************************************************)

\* The loads stay where they are and take note of what has come to hold.
Noted ==
    \A l \in Loads : /\ load'[l].at = load[l].at /\ load'[l].base = load[l].base
                     /\ load'[l].event = load[l].event /\ load'[l].served = load[l].served
                     /\ load[l].docs \subseteq load'[l].docs
                     /\ load[l].events \subseteq load'[l].events

\* A step that leaves the config in use as it is.
Quiet ==
    /\ Noted
    /\ effectiveCache' \in {effectiveCache, None}
    /\ UNCHANGED <<cache, up>> /\ acked'.data = acked.data
    /\ doing' \in Writing => doing \in Writing /\ draft' = draft

LoadStep(l) == GetConfig(l) \/ GetActiveEvent(l) \/ GetEffectiveConfig(l) \/ LoadEnds(l)

LEMMA SeenDocNotes ==
    ASSUME load \in [Loads -> Load], NEW d, SeenDoc(d)
    PROVE  Noted /\ \A l \in Loads : load[l].at \in Reading => d \in load'[l].docs
<1> SUFFICES ASSUME NEW l \in Loads
             PROVE  /\ load'[l].at = load[l].at /\ load'[l].base = load[l].base
                    /\ load'[l].event = load[l].event /\ load'[l].served = load[l].served
                    /\ load[l].docs \subseteq load'[l].docs
                    /\ load[l].events \subseteq load'[l].events
                    /\ load[l].at \in Reading => d \in load'[l].docs
  BY DEF Noted
<1>1. load[l] \in AnyLoad
  BY DEF Load
<1> QED
  BY <1>1 DEF SeenDoc, AnyLoad

LEMMA SetActiveNotes ==
    ASSUME load \in [Loads -> Load], NEW e, SetActive(e)
    PROVE  Noted /\ \A l \in Loads : load[l].at \in Reading => e \in load'[l].events
<1> SUFFICES ASSUME NEW l \in Loads
             PROVE  /\ load'[l].at = load[l].at /\ load'[l].base = load[l].base
                    /\ load'[l].event = load[l].event /\ load'[l].served = load[l].served
                    /\ load[l].docs \subseteq load'[l].docs
                    /\ load[l].events \subseteq load'[l].events
                    /\ load[l].at \in Reading => e \in load'[l].events
  BY DEF Noted
<1>1. load[l] \in AnyLoad
  BY DEF Load
<1> QED
  BY <1>1 DEF SetActive, AnyLoad

\* The steps that write a config or bring one into use, while no event changes.
ConfigStep ==
    \/ EnsureConfig
    \/ \E d \in Docs : UpdateConfig(d)
    \/ \E v \in 1..MaxVersion : RollbackConfig(v)
    \/ Acknowledge

LEMMA ConfigSteps ==
    ASSUME Typed, Serving, KnownByVersion, ConfigStep
    PROVE  /\ doing \notin Changing
           /\ \E c \in Accepted : (Write(c) \/ SetCache(c)) /\ (up => c.version > cache.version)
<1>0. doing \notin Changing
  BY DEF ConfigStep, EnsureConfig, UpdateConfig, RollbackConfig, Acknowledge
<1>1. CASE EnsureConfig
  <2>0. ~ up
    BY <1>1 DEF EnsureConfig, Serving
  <2>1. CASE row = None
    <3>1. [version |-> 1, data |-> Default] \in Accepted
      BY Apart DEF Accepted
    <3> QED
      BY <1>1, <2>0, <2>1, <3>1 DEF EnsureConfig
  <2>2. CASE row # None /\ Upgrade[row.data] # row.data
    <3>1. [version |-> row.version + 1, data |-> Upgrade[row.data]] \in Accepted
      BY <2>2, Apart DEF Accepted, Typed, Config
    <3> QED
      BY <1>1, <2>0, <2>2, <3>1 DEF EnsureConfig
  <2>3. CASE row # None /\ Upgrade[row.data] = row.data
    <3>1. row \in Accepted
      BY <2>3, Apart DEF Accepted, Typed, Config
    <3> QED
      BY <1>1, <2>0, <2>3, <3>1 DEF EnsureConfig
  <2> QED
    BY <2>1, <2>2, <2>3
<1>2. ASSUME NEW d \in Docs, UpdateConfig(d)
      PROVE  \E c \in Accepted : Write(c) /\ (up => c.version > cache.version)
  <2> DEFINE c == [version |-> cache.version + 1, data |-> d]
  <2>1. c \in Accepted /\ c.version > cache.version
    BY <1>2, ServingIsUp DEF UpdateConfig, Accepted
  <2> QED
    BY <1>2, <2>1 DEF UpdateConfig
<1>3. ASSUME NEW v \in 1..MaxVersion, RollbackConfig(v)
      PROVE  \E c \in Accepted : Write(c) /\ (up => c.version > cache.version)
  <2> DEFINE c == [version |-> cache.version + 1, data |-> history[Found(v)].data]
  <2>1. c \in Accepted /\ c.version > cache.version
    BY <1>3, ServingIsUp DEF RollbackConfig, Accepted
  <2> QED
    BY <1>3, <2>1 DEF RollbackConfig
<1>4. CASE Acknowledge
  BY <1>4, DraftIsAccepted DEF Acknowledge, KnownByVersion
<1> QED
  BY <1>0, <1>1, <1>2, <1>3, <1>4 DEF ConfigStep

LEMMA StepKinds ==
    ASSUME Typed, Serving, KnownByVersion, [ConfigNext]_configVars
    PROVE  \/ Quiet
           \/ /\ ConfigStep
              /\ \E c \in Accepted : (Write(c) \/ SetCache(c)) /\ (up => c.version > cache.version)
           \/ \E l \in Loads : LoadStep(l)
           \/ Reboot
<1>0. load \in [Loads -> Load]
  BY DEF Typed
<1>5. CASE PutConfigRow \/ PutHistory \/ Fail \/ UNCHANGED configVars
  BY <1>5 DEF PutConfigRow, PutHistory, Fail, configVars, Quiet, Noted, tables
<1>6. ASSUME NEW e, SetActive(e), doing' \notin Writing PROVE Quiet
  BY <1>0, <1>6, SetActiveNotes DEF SetActive, Quiet
<1>7. ASSUME NEW e \in Event, ActivateEvent(e) PROVE Quiet
  BY <1>6, <1>7 DEF ActivateEvent
<1>8. CASE ActivateEventSet \/ EndEvent
  BY <1>6, <1>8 DEF ActivateEventSet, EndEvent
<1>9. ASSUME NEW w \in Windows, PutEvent(w) PROVE Quiet
  BY <1>6, <1>9 DEF PutEvent
<1>10. CASE InvalidateEffectiveConfig
  BY <1>10 DEF InvalidateEffectiveConfig, Quiet, Noted, Typed
<1> QED
  BY <1>5, <1>7, <1>8, <1>9, <1>10, ConfigSteps DEF ConfigNext, LoadStep, ConfigStep

\* A load's own step leaves the other loads and everything official alone.
LEMMA LoadMoves ==
    ASSUME Typed, NEW l \in Loads, LoadStep(l)
    PROVE  /\ UNCHANGED <<tables, cache, up, doing, draft, acked, failed, overlapped>>
           /\ \A m \in Loads : m # l => load'[m] = load[m]
           /\ GetEffectiveConfig(l) \/ UNCHANGED effectiveCache
  BY DEF Typed, LoadStep, GetConfig, GetActiveEvent, GetEffectiveConfig, LoadEnds

\* Where its step takes it.
LEMMA LoadMovesTo ==
    ASSUME Typed, NEW l \in Loads, LoadStep(l), load'[l].at \in Reading
    PROVE  \/ /\ GetConfig(l) /\ load'[l].at = "read"
              /\ load'[l].base = cache /\ load'[l].docs = {acked.data}
              /\ load'[l].events = IF doing \in Changing THEN {active, acked.event} ELSE {active}
           \/ /\ GetActiveEvent(l)
              /\ load[l].at = "read" /\ load'[l].at = "fill" /\ load'[l].event = active
              /\ load'[l].base = load[l].base
              /\ load'[l].docs = load[l].docs /\ load'[l].events = load[l].events
<1>1. load[l] \in AnyLoad
  BY DEF Typed, Load
<1>2. CASE GetConfig(l)
  BY <1>2 DEF GetConfig, Idle, Typed
<1>3. CASE GetActiveEvent(l)
  BY <1>1, <1>3 DEF GetActiveEvent, Typed, AnyLoad
<1>4. CASE GetEffectiveConfig(l)
  BY <1>4 DEF GetEffectiveConfig, Idle, Typed
<1>5. CASE LoadEnds(l)
  BY <1>5 DEF LoadEnds, Idle, Typed
<1> QED
  BY <1>2, <1>3, <1>4, <1>5 DEF LoadStep

-----------------------------------------------------------------------------
(***************************************************************************)
(* Versions.                                                               *)
(***************************************************************************)

\* A version reaches memory with one document only: a new number is above every
\* number known, and a restart forgets them all.
LEMMA KnownKept ==
    ASSUME Typed, Serving, KnownByVersion, [ConfigNext]_configVars
    PROVE  KnownByVersion'
<1>1. CASE Quiet
  <2>1. Known' \subseteq Known
    BY <1>1 DEF Quiet, Noted, Known, Bases
  <2> QED
    BY <1>1, <2>1 DEF Quiet, KnownByVersion
<1>2. ASSUME NEW c \in Accepted, Write(c), up => c.version > cache.version
      PROVE  KnownByVersion'
  <2>1. Known' = Known
    BY <1>2 DEF Write, Known, Bases
  <2> QED
    BY <1>2, <2>1 DEF Write, KnownByVersion
<1>3. ASSUME NEW c \in Accepted, SetCache(c), up => c.version > cache.version
      PROVE  KnownByVersion'
  <2>1. Noted
    BY <1>3, SeenDocNotes DEF SetCache, Typed
  <2>2. Known' \subseteq Known \cup {c}
    BY <1>3, <2>1 DEF SetCache, Noted, Known, Bases
  <2>3. \A d \in Known : d.version < c.version
    <3>1. CASE up
      <4>1. \A d \in Known : d.version \in Nat /\ d.version <= cache.version
        BY <3>1, Apart DEF KnownByVersion, Known, Bases, Typed, Load, AnyLoad, Accepted, Effective
      <4> QED
        BY <1>3, <3>1, <4>1, Apart DEF Accepted, Typed, Serving
    <3>2. CASE ~ up
      BY <3>2 DEF Known, Bases, Serving, Idle
    <3> QED
      BY <3>1, <3>2
  <2>4. \A d \in Known : d.version \in Nat
    BY Apart DEF Known, Bases, Typed, Load, AnyLoad, Accepted, Effective
  <2> QED
    BY <1>3, <2>2, <2>3, <2>4 DEF SetCache, KnownByVersion, Accepted
<1>4. ASSUME NEW l \in Loads, LoadStep(l) PROVE KnownByVersion'
  <2>1. Bases' \subseteq Bases \cup {cache}
    BY <1>4, LoadMoves, LoadMovesTo DEF Bases
  <2>2. CASE UNCHANGED effectiveCache
    <3>1. Known' \subseteq Known
      BY <1>4, <2>1, <2>2, LoadMoves DEF Known
    <3> QED
      BY <1>4, <3>1, LoadMoves DEF KnownByVersion
  <2>3. CASE GetEffectiveConfig(l)
    <3> DEFINE base == load[l].base
    <3>1. base \in Known /\ base \in Accepted
      BY <2>3, Apart DEF GetEffectiveConfig, Known, Bases, Typed, Load, AnyLoad
    <3>2. \/ effectiveCache' = effectiveCache
          \/ effectiveCache'.version = base.version /\ effectiveCache'.data = base.data
      BY <2>3 DEF GetEffectiveConfig
    <3>3. \A c \in Known' : \E d \in Known : c.version = d.version /\ c.data = d.data
      BY <1>4, <2>1, <3>1, <3>2, LoadMoves DEF Known
    <3> QED
      BY <1>4, <3>3, LoadMoves DEF KnownByVersion
  <2> QED
    BY <1>4, <2>2, <2>3, LoadMoves
<1>5. CASE Reboot
  <2>1. Known' = {}
    BY <1>5 DEF Reboot, Known, Bases, Idle
  <2> QED
    BY <1>5, <2>1 DEF Reboot, KnownByVersion
<1> QED
  BY <1>1, <1>2, <1>3, <1>4, <1>5, StepKinds

-----------------------------------------------------------------------------
(***************************************************************************)
(* What loads have seen.                                                   *)
(***************************************************************************)

LEMMA ActiveChanges ==
    ASSUME [ConfigNext]_configVars
    PROVE  /\ UNCHANGED active \/ SetActive(active')
           /\ failed => failed'
           /\ overlapped => overlapped'
<1>1. CASE EnsureConfig
  BY <1>1 DEF EnsureConfig, Write, SetCache, tables
<1>2. CASE (\E d \in Docs : UpdateConfig(d)) \/ (\E v \in 1..MaxVersion : RollbackConfig(v))
  BY <1>2 DEF UpdateConfig, RollbackConfig, Write, tables
<1>3. CASE PutConfigRow \/ PutHistory \/ Acknowledge \/ Fail \/ Reboot \/ UNCHANGED configVars
  BY <1>3 DEF PutConfigRow, PutHistory, Acknowledge, SetCache, Fail, Reboot, configVars, tables
<1>4. ASSUME NEW e, SetActive(e)
      PROVE  SetActive(active') /\ UNCHANGED <<failed, overlapped>>
  BY <1>4 DEF SetActive
<1>5. CASE (\E e \in Event : ActivateEvent(e)) \/ ActivateEventSet \/ EndEvent
  BY <1>4, <1>5 DEF ActivateEvent, ActivateEventSet, EndEvent
<1>6. CASE \E w \in Windows : PutEvent(w)
  BY <1>4, <1>6 DEF PutEvent
<1>7. CASE InvalidateEffectiveConfig
  BY <1>7 DEF InvalidateEffectiveConfig, tables
<1>8. CASE \E l \in Loads : GetConfig(l) \/ GetActiveEvent(l) \/ GetEffectiveConfig(l) \/ LoadEnds(l)
  BY <1>8 DEF GetConfig, GetActiveEvent, GetEffectiveConfig, LoadEnds, tables
<1> QED
  BY <1>1, <1>2, <1>3, <1>5, <1>6, <1>7, <1>8 DEF ConfigNext

\* Every step but a load's own and a restart only lets the loads take note.
LEMMA OthersNote ==
    ASSUME Typed, Serving, KnownByVersion, [ConfigNext]_configVars,
           ~ Reboot, \A l \in Loads : ~ LoadStep(l)
    PROVE  /\ Noted
           /\ \A l \in Loads : load[l].at \in Reading /\ active \in load[l].events
                                 => active' \in load'[l].events
<1>1. Noted
  <2>1. ASSUME NEW c \in Accepted, Write(c) \/ SetCache(c) PROVE Noted
    BY <2>1, SeenDocNotes DEF Write, SetCache, Typed, Noted
  <2> QED
    BY <2>1, StepKinds DEF Quiet
<1>2. ASSUME SetActive(active'), NEW l \in Loads, load[l].at \in Reading
      PROVE  active' \in load'[l].events
  BY <1>2, SetActiveNotes DEF Typed
<1> QED
  BY <1>1, <1>2, ActiveChanges DEF Noted

\* A load goes on seeing what comes to hold until it is served.
LEMMA ReadKept ==
    ASSUME Typed, Serving, KnownByVersion, ReadIsSeen, [ConfigNext]_configVars
    PROVE  ReadIsSeen'
<1>1. CASE ~ Reboot /\ \A l \in Loads : ~ LoadStep(l)
  BY <1>1, OthersNote DEF Noted, ReadIsSeen
<1>2. ASSUME NEW l \in Loads, LoadStep(l) PROVE ReadIsSeen'
  <2>1. UNCHANGED active /\ \A m \in Loads : m # l => load'[m] = load[m]
    BY <1>2, LoadMoves DEF tables
  <2> SUFFICES ASSUME load'[l].at \in Reading
               PROVE  /\ load'[l].base.data \in load'[l].docs
                      /\ active' \in load'[l].events
                      /\ load'[l].at = "fill" => load'[l].event \in load'[l].events
    BY <2>1 DEF ReadIsSeen
  <2>2. CASE /\ GetConfig(l) /\ load'[l].at = "read"
             /\ load'[l].base = cache /\ load'[l].docs = {acked.data}
             /\ load'[l].events = IF doing \in Changing THEN {active, acked.event} ELSE {active}
    BY <2>1, <2>2 DEF GetConfig, KnownByVersion
  <2>3. CASE /\ GetActiveEvent(l)
             /\ load[l].at = "read" /\ load'[l].at = "fill" /\ load'[l].event = active
             /\ load'[l].base = load[l].base
             /\ load'[l].docs = load[l].docs /\ load'[l].events = load[l].events
    BY <2>1, <2>3 DEF ReadIsSeen
  <2> QED
    BY <1>2, <2>2, <2>3, LoadMovesTo
<1>3. CASE Reboot
  BY <1>3 DEF Reboot, ReadIsSeen, Idle
<1> QED
  BY <1>1, <1>2, <1>3

-----------------------------------------------------------------------------
(***************************************************************************)
(* The event.                                                              *)
(***************************************************************************)

\* A change of the event, in one statement or in two, until it is announced.
LEMMA ChangeKeepsEvent ==
    ASSUME Typed, Serving, EventIsCurrent, NEW e, SetActive(e),
           \/ doing = "idle" /\ doing' \in Changing /\ (doing' = "activateEvent" => e = None)
           \/ doing = "activateEvent" /\ doing' = "invalidate"
    PROVE  EventIsCurrent'
<1>1. Noted /\ active' = e /\ UNCHANGED <<effectiveCache, up, acked, failed, overlapped>>
  BY SetActiveNotes DEF SetActive, Typed
<1>2. doing' = "activateEvent" => active' = None
  BY <1>1
<1>3. Current \subseteq Current' \/ (up /\ failed)
  BY <1>1, ServingIsUp DEF Current, EventIsCurrent, Typed
<1>4. doing' \in Changing
  OBVIOUS
<1> QED
  BY <1>1, <1>2, <1>3, <1>4 DEF EventIsCurrent, Noted

LEMMA ConfigKeepsEvent ==
    ASSUME Typed, Serving, EventIsCurrent, doing \notin Changing,
           NEW c \in Accepted, Write(c) \/ SetCache(c)
    PROVE  EventIsCurrent'
<1>1. CASE Write(c)
  BY <1>1 DEF Write, EventIsCurrent, Current, tables
<1>2. CASE SetCache(c) /\ up
  <2>1. Noted
    BY <1>2, SeenDocNotes DEF SetCache, Typed
  <2> QED
    BY <1>2, <2>1 DEF SetCache, EventIsCurrent, Noted, Current, tables
<1>3. CASE SetCache(c) /\ ~ up
  <2>1. Noted
    BY <1>3, SeenDocNotes DEF SetCache, Typed
  <2>2. \A l \in Loads : load'[l].at = "idle"
    BY <1>3, <2>1 DEF Noted, Serving, Idle
  <2> QED
    BY <1>3, <2>2 DEF SetCache, EventIsCurrent, Serving, tables
<1> QED
  BY <1>1, <1>2, <1>3

LEMMA InvalidateKeepsEvent ==
    ASSUME Typed, Serving, ReadIsSeen, EventIsCurrent, InvalidateEffectiveConfig
    PROVE  EventIsCurrent'
<1>1. /\ doing' = "idle" /\ effectiveCache' = None /\ acked'.event = active
      /\ UNCHANGED <<active, load, up, failed>>
  BY DEF InvalidateEffectiveConfig, tables, Typed
<1>2. ~ overlapped' => \A l \in Loads : load[l].at = "fill" => load[l].event = active
  BY DEF InvalidateEffectiveConfig
<1> QED
  BY <1>1, <1>2 DEF EventIsCurrent, ReadIsSeen, Current

LEMMA LoadKeepsEvent ==
    ASSUME Typed, Serving, ReadIsSeen, EventIsCurrent, NEW l \in Loads, LoadStep(l)
    PROVE  EventIsCurrent'
<1>1. /\ UNCHANGED <<tables, cache, up, doing, draft, acked, failed, overlapped>>
      /\ \A m \in Loads : m # l => load'[m] = load[m]
  BY LoadMoves
<1>2. ASSUME up, ~ failed, load'[l].at \in Reading
      PROVE  /\ acked.event \in load'[l].events
             /\ ~ overlapped /\ load'[l].at = "fill" => load'[l].event \in Current
  <2>1. CASE /\ load'[l].at = "read"
             /\ load'[l].events = IF doing \in Changing THEN {active, acked.event} ELSE {active}
    BY <1>2, <2>1 DEF EventIsCurrent
  <2>2. CASE /\ load[l].at = "read" /\ load'[l].at = "fill" /\ load'[l].event = active
             /\ load'[l].events = load[l].events
    BY <1>2, <2>2 DEF EventIsCurrent, Current
  <2> QED
    BY <1>2, <2>1, <2>2, LoadMovesTo
<1>3. ASSUME up, ~ failed, ~ overlapped, effectiveCache' # None
      PROVE  effectiveCache'.event \in Current
  <2>1. CASE GetEffectiveConfig(l)
    BY <1>3, <2>1 DEF GetEffectiveConfig, EventIsCurrent, Hit
  <2> QED
    BY <1>3, <2>1, LoadMoves DEF EventIsCurrent
<1>4. Current' = Current
  BY <1>1 DEF Current, tables
<1> QED
  BY <1>1, <1>2, <1>3, <1>4 DEF EventIsCurrent, tables

\* An invalidation reaches every copy of the old event, or marks the loads that
\* still hold one.
LEMMA EventKept ==
    ASSUME Typed, Serving, KnownByVersion, ReadIsSeen, EventIsCurrent, [ConfigNext]_configVars
    PROVE  EventIsCurrent'
<1>1. CASE ConfigStep
  BY <1>1, ConfigSteps, ConfigKeepsEvent
<1>5. CASE PutConfigRow \/ PutHistory \/ UNCHANGED configVars
  BY <1>5 DEF PutConfigRow, PutHistory, configVars, tables, EventIsCurrent, Current
<1>6. CASE Fail
  BY <1>6 DEF Fail, EventIsCurrent
<1>7. ASSUME NEW e \in Event, ActivateEvent(e) PROVE EventIsCurrent'
  BY <1>7, ChangeKeepsEvent DEF ActivateEvent
<1>8. CASE ActivateEventSet \/ EndEvent
  BY <1>8, ChangeKeepsEvent DEF ActivateEventSet, EndEvent
<1>9. ASSUME NEW w \in Windows, PutEvent(w) PROVE EventIsCurrent'
  BY <1>9, ChangeKeepsEvent DEF PutEvent
<1>10. CASE InvalidateEffectiveConfig
  BY <1>10, InvalidateKeepsEvent
<1>11. ASSUME NEW l \in Loads, LoadStep(l) PROVE EventIsCurrent'
  BY <1>11, LoadKeepsEvent
<1>12. CASE Reboot
  BY <1>12 DEF Reboot, EventIsCurrent
<1> QED
  BY <1>1, <1>5, <1>6, <1>7, <1>8, <1>9, <1>10, <1>11, <1>12 DEF ConfigNext, LoadStep, ConfigStep

\* What getEffectiveConfig returns: the hit test compares two numbers, and they
\* stand for the document and the event.
LEMMA ServedNow ==
    ASSUME Typed, KnownByVersion, ReadIsSeen, EventIsCurrent, Serving,
           NEW l \in Loads, GetEffectiveConfig(l)
    PROVE  LET served == load'[l].served IN
           /\ served.data \in load'[l].docs
           /\ \E e \in load'[l].events : Id(e) = Id(served.event)
           /\ served.event \in load'[l].events \/ overlapped \/ failed
<1> DEFINE base == load[l].base
           event == load[l].event
<1>1. /\ load[l].at = "fill" /\ up
      /\ load'[l].served = effectiveCache'
      /\ load'[l].docs = load[l].docs /\ load'[l].events = load[l].events
  BY DEF GetEffectiveConfig, Typed, Idle, Serving
<1>2. /\ base \in Known /\ base.data \in load[l].docs
      /\ event \in load[l].events /\ active \in load[l].events
      /\ ~ failed => acked.event \in load[l].events
  BY <1>1, Apart DEF Known, Bases, ReadIsSeen, EventIsCurrent, Typed, Load, AnyLoad
<1>3. CASE Hit(base, event)
  <2>1. effectiveCache' = effectiveCache /\ effectiveCache \in Known
    BY <1>3 DEF GetEffectiveConfig, Hit, Known
  <2>2. effectiveCache.data = base.data
    BY <1>2, <1>3, <2>1 DEF Hit, KnownByVersion
  <2>3. Id(effectiveCache.event) = Id(event)
    BY <1>3 DEF Hit
  <2>4. ASSUME effectiveCache.event = None PROVE event = None
    <3>1. event \in Event \cup {None}
      BY DEF Typed, Load, AnyLoad
    <3> QED
      BY <2>3, <2>4, <3>1, Apart DEF Id, Event
  <2>5. ~ overlapped /\ ~ failed => effectiveCache.event \in {active, acked.event, None}
    BY <1>1, <1>3 DEF EventIsCurrent, Current, Hit
  <2>6. ~ overlapped /\ ~ failed => effectiveCache.event \in load[l].events
    BY <1>2, <2>4, <2>5
  <2> QED
    BY <1>1, <1>2, <2>1, <2>2, <2>3, <2>6
<1>4. CASE ~ Hit(base, event)
  BY <1>1, <1>2, <1>4 DEF GetEffectiveConfig
<1> QED
  BY <1>3, <1>4

\* A load is judged when it is served; later steps only add to what it has seen.
LEMMA ServedKept ==
    ASSUME Typed, Serving, KnownByVersion, ReadIsSeen, EventIsCurrent, ServedIsCurrent,
           [ConfigNext]_configVars
    PROVE  ServedIsCurrent'
<1>0. (failed => failed') /\ (overlapped => overlapped')
  BY ActiveChanges
<1>1. CASE ~ Reboot /\ \A l \in Loads : ~ LoadStep(l)
  <2>1. Noted
    BY <1>1, OthersNote
  <2> QED
    BY <1>0, <2>1 DEF Noted, ServedIsCurrent
<1>2. ASSUME NEW l \in Loads, LoadStep(l) PROVE ServedIsCurrent'
  <2>1. \A m \in Loads : m # l => load'[m] = load[m]
    BY <1>2, LoadMoves
  <2>2. CASE GetEffectiveConfig(l)
    <3>1. /\ load'[l].served.data \in load'[l].docs
          /\ \E e \in load'[l].events : Id(e) = Id(load'[l].served.event)
          /\ load'[l].served.event \in load'[l].events \/ overlapped \/ failed
      BY <2>2, ServedNow
    <3> QED
      BY <1>0, <2>1, <3>1 DEF ServedIsCurrent
  <2>3. CASE load'[l].at # "served"
    BY <1>0, <2>1, <2>3 DEF ServedIsCurrent
  <2>4. GetConfig(l) \/ GetActiveEvent(l) \/ LoadEnds(l) => load'[l].at # "served"
    <3>1. load[l] \in AnyLoad
      BY DEF Typed, Load
    <3>2. GetActiveEvent(l) => load'[l].at # "served"
      BY <3>1 DEF GetActiveEvent, Typed, AnyLoad
    <3>3. GetConfig(l) => load'[l].at # "served"
      BY DEF GetConfig, Idle, Typed
    <3>4. LoadEnds(l) => load'[l].at # "served"
      BY DEF LoadEnds, Idle, Typed
    <3> QED
      BY <3>2, <3>3, <3>4
  <2> QED
    BY <1>2, <2>2, <2>3, <2>4 DEF LoadStep
<1>3. CASE Reboot
  BY <1>3 DEF Reboot, ServedIsCurrent, Idle
<1> QED
  BY <1>1, <1>2, <1>3

-----------------------------------------------------------------------------
(***************************************************************************)
(* The log.                                                                *)
(***************************************************************************)

\* While no write fails, each statement of a write keeps the log in order: the
\* number taken from the cache is above the row's, because the cache is the row.
LEMMA LogKept ==
    ASSUME Typed, Serving, KnownByVersion, LogGrows, VersionsNameDocuments, [ConfigNext]_configVars
    PROVE  LogGrows' /\ VersionsNameDocuments'
<1> SUFFICES ASSUME ~ failed' PROVE LogGrows' /\ VersionsNameDocuments'
  BY DEF LogGrows, VersionsNameDocuments
<1>0. ~ failed
  BY ActiveChanges
<1>1. CASE EnsureConfig
  BY <1>0, <1>1 DEF EnsureConfig, Write, SetCache, LogGrows, VersionsNameDocuments, Typed, Config, tables
<1>2. ASSUME NEW c, Write(c), doing = "idle", c.version > cache.version
      PROVE  LogGrows' /\ VersionsNameDocuments'
  <2>1. /\ UNCHANGED <<row, history, failed>> /\ doing' = "putConfigRow" /\ draft' = c
    BY <1>2 DEF Write, tables
  <2>2. row = cache /\ (row = None => history = <<>>)
    BY <1>0, <1>2 DEF LogGrows
  <2>3. LogGrows'
    BY <1>2, <2>1, <2>2 DEF LogGrows
  <2>4. VersionsNameDocuments'
    BY <1>0, <2>1 DEF VersionsNameDocuments
  <2> QED
    BY <2>3, <2>4
<1>3. CASE (\E d \in Docs : UpdateConfig(d)) \/ (\E v \in 1..MaxVersion : RollbackConfig(v))
  <2>1. doing = "idle" /\ cache.version \in Nat
    BY <1>3, ServingIsUp DEF UpdateConfig, RollbackConfig, Accepted
  <2>2. PICK data : Write([version |-> cache.version + 1, data |-> data])
    BY <1>3 DEF UpdateConfig, RollbackConfig
  <2>3. PICK c : Write(c) /\ c.version > cache.version
    BY <2>1, <2>2
  <2> QED
    BY <1>2, <2>1, <2>3
<1>4. CASE PutConfigRow
  <2>1. /\ draft \in Config /\ row' = draft /\ row' # None
        /\ UNCHANGED <<history, draft, failed>> /\ doing' = "putHistory"
    BY <1>4, DraftIsAccepted, Apart DEF PutConfigRow
  <2>2. \A i \in 1..Len(history) : history[i].version \in Nat
    <3>1. \A i \in 1..Len(history) : history[i] \in Config
      BY DEF Typed
    <3> QED
      BY <3>1 DEF Config
  <2>3. \A i \in 1..Len(history) : history[i].version < draft.version
    <3>1. CASE row = None
      BY <1>0, <3>1 DEF LogGrows
    <3>2. CASE row # None
      <4>1. row.version \in Nat /\ draft.version \in Nat /\ draft.version > row.version
        BY <1>0, <1>4, <2>1, <3>2 DEF PutConfigRow, LogGrows, Typed, Config
      <4> QED
        BY <1>0, <2>2, <3>2, <4>1 DEF VersionsNameDocuments
    <3> QED
      BY <3>1, <3>2
  <2>4. LogGrows'
    BY <2>1, <2>3 DEF LogGrows
  <2>5. VersionsNameDocuments'
    <3>1. \A i \in 1..Len(history) : history[i].version <= draft.version /\ history[i].version # draft.version
      BY <2>1, <2>2, <2>3 DEF Config
    <3> QED
      BY <1>0, <2>1, <3>1 DEF VersionsNameDocuments
  <2> QED
    BY <2>4, <2>5
<1>5. CASE PutHistory
  <2>1. /\ row = draft /\ draft \in Config
        /\ \A i \in 1..Len(history) : history[i].version < draft.version
    BY <1>0, <1>5, DraftIsAccepted, Apart DEF PutHistory, LogGrows
  <2>2. /\ history' \in Seq(Config) /\ Len(history') = Len(history) + 1
        /\ history'[Len(history) + 1] = draft
        /\ \A i \in 1..Len(history) : history'[i] = history[i]
    BY <1>5, <2>1 DEF PutHistory, Typed
  <2>3. LogGrows'
    BY <1>5, <2>1, Apart DEF PutHistory, LogGrows
  <2>4. VersionsNameDocuments'
    BY <1>0, <1>5, <2>1, <2>2, SMTT(30) DEF PutHistory, VersionsNameDocuments, Typed, Config
  <2> QED
    BY <2>3, <2>4
<1>6. CASE Acknowledge
  BY <1>0, <1>6 DEF Acknowledge, SetCache, LogGrows, VersionsNameDocuments, tables
<1>7. ASSUME NEW e, SetActive(e), doing \in {"idle"} \cup Changing, doing' \in {"idle"} \cup Changing
      PROVE  LogGrows' /\ VersionsNameDocuments'
  BY <1>0, <1>7 DEF SetActive, LogGrows, VersionsNameDocuments
<1>8. CASE (\E e \in Event : ActivateEvent(e)) \/ ActivateEventSet \/ EndEvent
  BY <1>7, <1>8 DEF ActivateEvent, ActivateEventSet, EndEvent
<1>9. CASE \E w \in Windows : PutEvent(w)
  BY <1>7, <1>9 DEF PutEvent
<1>10. CASE InvalidateEffectiveConfig
  BY <1>0, <1>10 DEF InvalidateEffectiveConfig, LogGrows, VersionsNameDocuments, tables
<1>11. CASE \E l \in Loads : LoadStep(l)
  BY <1>0, <1>11, LoadMoves DEF LogGrows, VersionsNameDocuments, tables
<1>12. CASE Reboot
  BY <1>0, <1>12 DEF Reboot, LogGrows, VersionsNameDocuments, tables
<1>13. CASE UNCHANGED configVars
  BY <1>0, <1>13 DEF configVars, tables, LogGrows, VersionsNameDocuments
<1>14. CASE Fail
  BY <1>14 DEF Fail
<1> QED
  BY <1>1, <1>3, <1>4, <1>5, <1>6, <1>8, <1>9, <1>10, <1>11, <1>12, <1>13, <1>14 DEF ConfigNext, LoadStep

-----------------------------------------------------------------------------
(***************************************************************************)
(* The theorems.                                                           *)
(***************************************************************************)

\* A process that starts holds nothing, and its database is fresh or seeded.
LEMMA InitInv == ConfigInit => ConfigInv
<1> SUFFICES ASSUME ConfigInit PROVE ConfigInv
  OBVIOUS
<1>1. Typed
  <2>1. row \in Config \cup {None} /\ history \in Seq(Config)
    <3>1. CASE row = None /\ history = <<>>
      BY <3>1
    <3>2. CASE \E d \in Stored : row = [version |-> 1, data |-> d] /\ history = <<row>>
      <4>1. row \in Config
        BY <3>2 DEF Config
      <4> QED
        BY <3>2, <4>1
    <3> QED
      BY <3>1, <3>2 DEF ConfigInit
  <2> QED
    BY <2>1, IdleLoads, Apart DEF ConfigInit, Typed
<1>2. Serving /\ ReadIsSeen /\ EventIsCurrent /\ ServedIsCurrent
  BY DEF ConfigInit, Serving, ReadIsSeen, EventIsCurrent, ServedIsCurrent, Idle
<1>3. KnownByVersion
  <2>1. Known = {}
    BY DEF ConfigInit, Known, Bases, Idle
  <2> QED
    BY <2>1 DEF ConfigInit, KnownByVersion
<1>4. LogGrows /\ VersionsNameDocuments
  <2>1. CASE row = None /\ history = <<>>
    BY <2>1 DEF ConfigInit, LogGrows, VersionsNameDocuments
  <2>2. CASE row # None /\ history = <<row>>
    BY <2>2 DEF ConfigInit, LogGrows, VersionsNameDocuments, Config
  <2> QED
    BY <1>1, <2>1, <2>2, Apart DEF ConfigInit, Config
<1> QED
  BY <1>1, <1>2, <1>3, <1>4 DEF ConfigInv

\* The inductive invariant holds throughout, through failures and restarts.
THEOREM ConfigInvariant == ConfigSpec => []ConfigInv
<1>1. ConfigInv /\ [ConfigNext]_configVars => ConfigInv'
  BY TypesKept, KnownKept, ReadKept, EventKept, LogKept, ServedKept DEF ConfigInv
<1> QED
  BY <1>1, InitInv, PTL DEF ConfigSpec

\* The types, for any documents, events and loads.
THEOREM ConfigTypeCorrect == ConfigSpec => []ConfigTypeOK
<1>1. ConfigInv => ConfigTypeOK
  BY Apart DEF ConfigInv, Typed, Serving, ConfigTypeOK, Effective, Config, Accepted, Stored
<1> QED
  BY <1>1, ConfigInvariant, PTL

\* No load is served a document this build would refuse (getEffectiveConfig).
THEOREM OnlyValidServed == ConfigSpec => []ServedIsValid
<1>1. ConfigInv => ServedIsValid
  BY DEF ConfigInv, Typed, ServedIsValid, Load, Effective
<1> QED
  BY <1>1, ConfigInvariant, PTL

\* A load is served a config and an event that held while it ran, for any number
\* of loads beside the writer.
THEOREM OnlyCurrentServed == ConfigSpec => []ServedIsCurrent
<1>1. ConfigInv => ServedIsCurrent
  BY DEF ConfigInv
<1> QED
  BY <1>1, ConfigInvariant, PTL

\* The config history is an append-only log (updateConfig, rollbackConfig).
THEOREM LogOfVersions == ConfigSpec => []VersionsNameDocuments
<1>1. ConfigInv => VersionsNameDocuments
  BY DEF ConfigInv
<1> QED
  BY <1>1, ConfigInvariant, PTL
=============================================================================
