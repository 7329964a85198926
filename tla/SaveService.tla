----------------------------- MODULE SaveService -----------------------------
(***************************************************************************)
(* The read-modify-write of a player's save: loadAndEvaluate, applyActions *)
(* and the minigame/finish route of the server, as a function passed to    *)
(* withUserLock that awaits the database between its steps.                *)
(*                                                                         *)
(* Extends UserLock, a request being its call of withUserLock, by the      *)
(* saves table and the event_participation counter.  Postgres runs one     *)
(* statement per action; any other request may take steps between two.     *)
(***************************************************************************)
EXTENDS UserLock, SequencesExt

CONSTANTS
    ReadOnly,   \* the requests that carry no change of their own
    Claiming,   \* the requests that claim one rung of the event's ladder
    MinGap, MaxClock, NoSave

ASSUME RequestAssumption ==
    /\ ReadOnly \subseteq Calls
    /\ Claiming \subseteq Calls \ ReadOnly
ASSUME TimeAssumption == MinGap \in Nat /\ MaxClock \in Nat

VARIABLES
    clock,          \* Date.now()
    save,           \* the saves table
    stamp,          \* the `now` the route took before queueing
    step,           \* what the fn of a running request has done
    view,           \* the in-memory state of a running request
    participation   \* event_participation.rungs_claimed

dataVars == <<clock, save, stamp, step, view, participation>>
vars == <<lockVars, dataVars>>

Status(r) ==
    CASE phase[r] = "idle" -> "unsent"
      [] phase[r] = "queued" -> "open"
      [] phase[r] = "running" -> IF step[r] \in {"stored", "synced"} THEN "committed" ELSE "open"
      [] phase[r] = "lost" -> "lost"
      [] OTHER -> IF outcome[r] = "fulfilled" THEN "ok" ELSE "error"

Store == INSTANCE SaveStore WITH Requests <- Calls, status <- [r \in Calls |-> Status(r)]

ASSUME NoSaveAssumption == NoSave \notin Store!Save

Init ==
    /\ LockInit
    /\ clock = 0
    /\ save \in [Users -> {NoSave, [since |-> 0, last |-> 0, paid |-> 0, applied |-> <<>>]}]
    /\ stamp = [r \in Calls |-> 0]
    /\ step = [r \in Calls |-> "start"]
    /\ view = [r \in Calls |-> NoSave]
    /\ participation = [u \in Users |-> 0]

-----------------------------------------------------------------------------

Tick ==
    /\ clock < MaxClock
    /\ clock' = clock + 1
    /\ UNCHANGED <<lockVars, save, stamp, step, view, participation>>

\* The route reads the clock and calls into the lock without yielding between.
Arrive(r) ==
    /\ WithUserLock(r)
    /\ stamp' = [stamp EXCEPT ![r] = clock]
    /\ UNCHANGED <<clock, save, step, view, participation>>

\* Mutant. The read-modify-write outside withUserLock.
BeginUnlocked(r) ==
    /\ phase[r] = "queued"
    /\ phase' = [phase EXCEPT ![r] = "running"]
    /\ UNCHANGED <<chains, previous, outcome, arrivals, dataVars>>

\* Mutant. A newer request of the same player overtakes the ones that wait.
BeginNewest(r) ==
    /\ chains[UserOf[r]] = r
    /\ RunFn(r)
    /\ UNCHANGED dataVars

Begin(r) ==
    /\ RunFn(r)
    /\ UNCHANGED dataVars

\* The row is read, and the change computed from it, in memory.
LoadEvaluateAndSchedule(r) ==
    /\ phase[r] = "running" /\ step[r] = "start"
    /\ view' = [view EXCEPT ![r] = Store!Rewritten(save[UserOf[r]], r, stamp[r])]
    /\ step' = [step EXCEPT ![r] = "loaded"]
    /\ UNCHANGED <<lockVars, clock, save, stamp, participation>>

\* The whole row is overwritten with the in-memory state.
PutSave(r) ==
    /\ phase[r] = "running" /\ step[r] = "loaded"
    /\ save' = [save EXCEPT ![UserOf[r]] = view[r]]
    /\ step' = [step EXCEPT ![r] = "stored"]
    /\ UNCHANGED <<lockVars, clock, stamp, view, participation>>

Claims(s) == IF s = NoSave THEN <<>> ELSE SelectSeq(s.applied, LAMBDA r : r \in Claiming)

\* After a claim the participation row is re-derived from the final state.
UpdateParticipationProgress(r) ==
    /\ phase[r] = "running" /\ step[r] = "stored" /\ r \in Claiming
    /\ participation' = [participation EXCEPT ![UserOf[r]] = Len(Claims(view[r]))]
    /\ step' = [step EXCEPT ![r] = "synced"]
    /\ UNCHANGED <<lockVars, clock, save, stamp, view>>

LastStep(r) == IF r \in Claiming THEN "synced" ELSE "stored"

\* The fn is over; its local state goes with it.
Leave(rs) ==
    /\ step' = [r \in Calls |-> IF r \in rs THEN "start" ELSE step[r]]
    /\ view' = [r \in Calls |-> IF r \in rs THEN NoSave ELSE view[r]]
    /\ UNCHANGED <<clock, save, stamp, participation>>

Return(r) ==
    /\ step[r] = LastStep(r)
    /\ SettleResult(r, "fulfilled")
    /\ Leave({r})

\* A database call throws, having taken effect or not: the connection may be
\* lost before the statement, or between the statement and its reply.
Throw(r) ==
    /\ SettleResult(r, "rejected")
    /\ Leave({r})

Cleanup(r) ==
    /\ ResolveTail(r) \/ DropEntry(r)
    /\ UNCHANGED dataVars

\* The database outlives the process.
Restart ==
    /\ LockRestart
    /\ Leave(Calls)

Advance(r) ==
    \/ Begin(r)
    \/ LoadEvaluateAndSchedule(r)
    \/ PutSave(r)
    \/ UpdateParticipationProgress(r)
    \/ Return(r)
    \/ Throw(r)
    \/ Cleanup(r)

Next ==
    \/ Tick
    \/ \E r \in Calls : Arrive(r) \/ Advance(r)
    \/ Restart

Spec == Init /\ [][Next]_vars

\* The event loop runs every continuation that is due and every database call
\* returns or throws; nothing obliges a client to send or the clock to tick.
FairSpec == Spec /\ \A r \in Calls : WF_vars(Advance(r))

-----------------------------------------------------------------------------

\* Type invariant.
TypeOK ==
    /\ LockTypeOK
    /\ clock \in Nat
    /\ save \in [Users -> Store!Save \cup {NoSave}]
    /\ stamp \in [Calls -> Nat]
    /\ step \in [Calls -> {"start", "loaded", "stored", "synced"}]
    /\ view \in [Calls -> Store!Save \cup {NoSave}]
    /\ participation \in [Users -> Nat]

Applied(u) == IF save[u] = NoSave THEN <<>> ELSE save[u].applied

\* A request that was answered with success is in the save, for good: no
\* other tab's write, restart or late answer takes it out again.
NoLostUpdate ==
    \A r \in Calls \ ReadOnly : Status(r) = "ok" => Contains(Applied(UserOf[r]), r)

\* No write of a save takes back what an earlier write put there, nor moves
\* last_save into the past, which would pay the same stretch of time twice.
NeverRewinds ==
    [][\A u \in Users : save[u] # NoSave =>
          /\ save'[u] # NoSave
          /\ IsPrefix(save[u].applied, save'[u].applied)
          /\ save[u].last <= save'[u].last
          /\ save[u].since = save'[u].since]_save

\* No stretch of a player's time is paid for twice.
NoTimePaidTwice ==
    \A u \in Users : save[u] # NoSave => save[u].since + save[u].paid <= save[u].last

\* Every request is answered unless the process dies under it.
EveryRequestAnswered ==
    \A r \in Calls : Status(r) = "open" ~> Status(r) \in {"ok", "error", "lost"}

\* Every request looks to its client like one indivisible rewrite of the save.
LooksAtomic == Store!Spec

-----------------------------------------------------------------------------
(***************************************************************************)
(* Why it looks atomic: the inductive invariant behind LooksAtomic.        *)
(***************************************************************************)

\* The requests of a player took their `now` in the order they queued.
StampsInOrder ==
    /\ \A r \in Calls : stamp[r] <= clock
    /\ \A u \in Users : \A j \in 1..Len(arrivals[u]) : \A i \in 1..(j - 1) :
          stamp[arrivals[u][i]] <= stamp[arrivals[u][j]]

\* Only a running fn has local state.
LocalWhileRunning ==
    \A r \in Calls : phase[r] # "running" => step[r] = "start"

\* Nobody has written the row since the request that is about to overwrite it
\* read it.
ViewIsCurrent ==
    \A r \in Calls : step[r] = "loaded" =>
        view[r] = Store!Rewritten(save[UserOf[r]], r, stamp[r])

DataInv ==
    /\ TypeOK
    /\ StampsInOrder
    /\ LocalWhileRunning
    /\ ViewIsCurrent

\* A request that has written the save stays in it, and no save was evaluated
\* past the `now` of a request that is still to write it.
SaveInv ==
    /\ \A r \in Calls \ ReadOnly :
          Status(r) \in {"committed", "ok"} => Contains(Applied(UserOf[r]), r)
    /\ \A u \in Users : save[u] # NoSave => save[u].last <= clock
    /\ \A r \in Calls :
          Status(r) = "open" /\ save[UserOf[r]] # NoSave => save[UserOf[r]].last <= stamp[r]
    /\ NoTimePaidTwice

=============================================================================
