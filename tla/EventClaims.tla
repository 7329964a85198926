----------------------------- MODULE EventClaims -----------------------------
(***************************************************************************)
(* One player's runs at live events: joining on load, superseding, claim   *)
(* grace and rung claims (joinEventIfEligible, supersedeEventProgress,     *)
(* prunePendingEventClaims, claimEventRung, the participation sync).       *)
(*                                                                         *)
(* A request is the fn under withUserLock, so the player has one at a time *)
(* and the global table of events may change at each of its awaits.  All   *)
(* metrics are one counter and all ladders are the same list of targets.   *)
(***************************************************************************)
EXTENDS Naturals, Sequences, FiniteSets

CONSTANTS
    Events,
    Ladder,           \* target of each rung, in ladder order
    MaxPending,       \* MAX_PENDING_EVENT_CLAIMS
    Grace, Day,       \* EVENT_CLAIM_GRACE_MS and 24 hours
    Length,           \* length of an event's window
    MaxActivations,   \* how often an event goes active, for model checking
    MaxMetric, MaxClock, MaxMishaps,
    NoEvent, NoRecord

Rungs == 1..Len(Ladder)

\* A window; as history which activation of the event it joined (run) and, once
\* it is superseded, which of the player's superseded windows it is (nth).
Record == [event: Events, run: Nat, nth: Nat, ends: Nat, base: Nat,
           claimed: SUBSET Rungs, frozen: BOOLEAN, claimable: SUBSET Rungs]

ASSUME LadderAssumption == Ladder \in Seq(Nat)
ASSUME NumberAssumption ==
    {MaxPending, Grace, Day, Length, MaxActivations, MaxMetric, MaxClock, MaxMishaps} \subseteq Nat
ASSUME NoneAssumption == NoEvent \notin Events /\ NoRecord \notin Record

(***************************************************************************)
(* A save: the metric, meta.eventProgress, meta.pendingEventClaims (whose  *)
(* order is nth); and as history the rungs met while their window was the  *)
(* live one (met), the rungs paid and paid again, and the windows          *)
(* superseded in their grace, with their number.  A rung of a window is    *)
(* written <<event, run, rung>>.                                           *)
(***************************************************************************)
Rung == Events \X Nat \X Rungs
Save == [metric: Nat, progress: Record \cup {NoRecord}, pending: SUBSET Record,
         met: SUBSET Rung, paid: SUBSET Rung, paidTwice: SUBSET Rung,
         past: SUBSET Record, superseded: Nat]

VARIABLES
    clock,
    active,         \* the event whose row has status 'active'
    ends,           \* ends_at of each event's row
    activations,    \* how often each event has gone active
    save,           \* the player's row in the saves table
    participation,  \* event_participation.rungs_claimed; 0 also without a row
    pc, now, s,     \* the request: where it is, its `now`, its state in memory
    joining,        \* the active event it has read, its ends_at and activation
    touched,        \* events it has claimed from
    throws, resets  \* failed requests and hard resets so far

tableVars == <<active, ends, activations>>
requestVars == <<pc, now, s, joining, touched>>
vars == <<clock, tableVars, save, participation, requestVars, throws, resets>>

None == [event |-> NoEvent, ends |-> 0, run |-> 0]
NewSave == [metric |-> 0, progress |-> NoRecord, pending |-> {},
            met |-> {}, paid |-> {}, paidTwice |-> {}, past |-> {}, superseded |-> 0]

Init ==
    /\ clock = 0
    /\ active = NoEvent
    /\ ends = [e \in Events |-> 0]
    /\ activations = [e \in Events |-> 0]
    /\ save = NewSave
    /\ participation = [e \in Events |-> 0]
    /\ pc = "idle" /\ now = 0 /\ s = NewSave /\ joining = None /\ touched = {}
    /\ throws = 0 /\ resets = 0

-----------------------------------------------------------------------------

InGrace(record, t) == t <= record.ends + Grace
Met(record, metric) == {i \in Rungs : metric >= record.base + Ladder[i]}
Tagged(record, is) == {<<record.event, record.run, i>> : i \in is}

\* History: what the live window has met so far.
Noted(st) ==
    IF st.progress = NoRecord THEN st
    ELSE [st EXCEPT !.met = @ \cup Tagged(st.progress, Met(st.progress, st.metric))]

\* Mutant. Leaving the superseded ladder to climb on.
FrozenLive(record, metric, t) ==
    [record EXCEPT !.ends = IF t < @ THEN t ELSE @]

\* The window is force-ended: only what is met and unclaimed stays claimable.
Frozen(record, metric, t) ==
    [record EXCEPT !.frozen = TRUE,
                   !.claimable = Met(record, metric) \ record.claimed,
                   !.ends = IF t < @ THEN t ELSE @]

\* Mutant. Clearing the live slot with the claim right still on it.
SupersededForgotten(st, t) ==
    LET record == [Frozen(st.progress, st.metric, t) EXCEPT !.nth = st.superseded + 1]
    IN IF InGrace(st.progress, t)
       THEN [st EXCEPT !.progress = NoRecord, !.past = @ \cup {record}, !.superseded = @ + 1]
       ELSE [st EXCEPT !.progress = NoRecord]

Newest(records) ==
    {r \in records : Cardinality({q \in records : q.nth > r.nth}) < MaxPending}

\* A window inside its grace moves to the head of the superseded ones, of
\* which the newest MaxPending are kept, one per event.
Superseded(st, t) ==
    LET old == st.progress
        record == [Frozen(old, st.metric, t) EXCEPT !.nth = st.superseded + 1]
        others == {p \in st.pending : p.event # old.event}
    IN IF InGrace(old, t)
       THEN [st EXCEPT !.progress = NoRecord, !.pending = Newest({record} \cup others),
                       !.past = @ \cup {record}, !.superseded = @ + 1]
       ELSE [st EXCEPT !.progress = NoRecord]

Pruned(st, t) == [st EXCEPT !.pending = {p \in @ : InGrace(p, t)}]

\* The personal window: the full length from now, at most a day past the end.
Joined(st, event, t) ==
    [st EXCEPT !.progress =
        [event |-> event.event, run |-> event.run, nth |-> 0,
         ends |-> IF t + Length < event.ends + Day THEN t + Length ELSE event.ends + Day,
         base |-> st.metric, claimed |-> {}, frozen |-> FALSE, claimable |-> {}]]

\* An event's record is the live one or else the pending one.
IsLive(st, e) == st.progress # NoRecord /\ st.progress.event = e
HasRecord(st, e) == IsLive(st, e) \/ \E p \in st.pending : p.event = e
RecordFor(st, e) == IF IsLive(st, e) THEN st.progress ELSE CHOOSE p \in st.pending : p.event = e

\* Would claimEventRung pay rung i of event e?
Claimable(st, e, i, t) ==
    /\ HasRecord(st, e)
    /\ LET record == RecordFor(st, e) IN
       /\ i \notin record.claimed
       /\ InGrace(record, t)
       /\ IF record.frozen THEN i \in record.claimable ELSE i \in Met(record, st.metric)

\* The reward is in the save, and the rung is marked in its record.
Paid(st, e, i) ==
    LET record == RecordFor(st, e)
        marked == [record EXCEPT !.claimed = @ \cup {i}]
        tag == <<e, record.run, i>>
    IN [st EXCEPT !.progress = IF IsLive(st, e) THEN marked ELSE @,
                  !.pending = IF IsLive(st, e) THEN @ ELSE (@ \ {record}) \cup {marked},
                  !.paid = @ \cup {tag},
                  !.paidTwice = IF tag \in st.paid THEN @ \cup {tag} ELSE @]

-----------------------------------------------------------------------------
(***************************************************************************)
(* The table of events, as EventLifecycle moves it on the SQLite driver.   *)
(***************************************************************************)

\* The hourly scheduler, or the sweep at boot, has ended an active event long
\* before one more unit of time is over; and no request lasts longer than that.
Tick ==
    /\ clock < MaxClock
    /\ active # NoEvent => clock < ends[active]
    /\ pc # "idle" => now = clock
    /\ clock' = clock + 1
    /\ UNCHANGED <<tableVars, save, participation, requestVars, throws, resets>>

ActivateEvent(e) ==
    /\ active # e
    /\ activations[e] < MaxActivations
    /\ active' = e
    /\ ends' = [ends EXCEPT ![e] = clock + Length]
    /\ activations' = [activations EXCEPT ![e] = @ + 1]
    /\ UNCHANGED <<clock, save, participation, requestVars, throws, resets>>

EndEvent ==
    /\ active # NoEvent
    /\ active' = NoEvent
    /\ UNCHANGED <<clock, ends, activations, save, participation, requestVars, throws, resets>>

(***************************************************************************)
(* The request.                                                            *)
(***************************************************************************)

\* The save is loaded and evaluated, which may move the metric.
Load ==
    /\ pc = "idle"
    /\ now' = clock
    /\ \E gained \in 0..1 :
          /\ save.metric + gained <= MaxMetric
          /\ s' = Noted([save EXCEPT !.metric = @ + gained])
    /\ pc' = "join"
    /\ UNCHANGED <<clock, tableVars, save, participation, joining, touched, throws, resets>>

\* joinEventIfEligible reads the active event.
ReadActiveEvent ==
    /\ pc = "join"
    /\ joining' = IF active = NoEvent THEN None
                  ELSE [event |-> active, ends |-> ends[active], run |-> activations[active]]
    /\ pc' = "joining"
    /\ UNCHANGED <<clock, tableVars, save, participation, now, s, touched, throws, resets>>

\* Mutant. Not looking whether the player has joined already.
JoinAgain ==
    /\ pc = "joining"
    /\ LET st == IF joining.event # NoEvent /\ s.progress # NoRecord
                 THEN Superseded(s, now) ELSE s
           pruned == Pruned(st, now)
       IN s' = IF joining.event # NoEvent
               THEN Noted(Joined(pruned, joining, now)) ELSE pruned
    /\ pc' = IF joining.event # NoEvent THEN "upsert" ELSE "apply"
    /\ UNCHANGED <<clock, tableVars, save, participation, now, joining, touched, throws, resets>>

\* Supersede, prune and join, in memory, by the event that was read.
Join ==
    /\ pc = "joining"
    /\ LET st == IF joining.event # NoEvent /\ s.progress # NoRecord /\ ~ IsLive(s, joining.event)
                 THEN Superseded(s, now) ELSE s
           pruned == Pruned(st, now)
           fresh == joining.event # NoEvent /\ ~ IsLive(pruned, joining.event)
       IN /\ s' = IF fresh THEN Noted(Joined(pruned, joining, now)) ELSE pruned
          /\ pc' = IF fresh THEN "upsert" ELSE "apply"
    /\ UNCHANGED <<clock, tableVars, save, participation, now, joining, touched, throws, resets>>

UpsertParticipation ==
    /\ pc = "upsert"
    /\ participation' = [participation EXCEPT ![joining.event] = 0]
    /\ pc' = "apply"
    /\ UNCHANGED <<clock, tableVars, save, now, s, joining, touched, throws, resets>>

\* An action of the batch other than a claim moves the metric.
Earn ==
    /\ pc = "apply"
    /\ s.metric < MaxMetric
    /\ s' = Noted([s EXCEPT !.metric = @ + 1])
    /\ UNCHANGED <<clock, tableVars, save, participation, pc, now, joining, touched, throws, resets>>

\* A claim that names no event means the live one, or else the newest pending.
ClaimEventRung(e, i) ==
    /\ pc = "apply"
    /\ Claimable(s, e, i, now)
    /\ s' = Paid(s, e, i)
    /\ touched' = touched \cup {e}
    /\ UNCHANGED <<clock, tableVars, save, participation, pc, now, joining, throws, resets>>

\* The whole save starts over; the participation rows are left alone.
HardReset ==
    /\ pc = "apply"
    /\ throws + resets < MaxMishaps
    /\ resets' = resets + 1
    /\ s' = NewSave
    /\ UNCHANGED <<clock, tableVars, save, participation, pc, now, joining, touched, throws>>

PutSave ==
    /\ pc = "apply"
    /\ save' = s
    /\ pc' = "sync"
    /\ UNCHANGED <<clock, tableVars, participation, now, s, joining, touched, throws, resets>>

\* One statement per event claimed from, its count taken from its own record.
Sync(e) ==
    /\ pc = "sync" /\ e \in touched
    /\ participation' =
          IF HasRecord(s, e)
          THEN [participation EXCEPT ![e] = Cardinality(RecordFor(s, e).claimed)]
          ELSE participation
    /\ touched' = touched \ {e}
    /\ UNCHANGED <<clock, tableVars, save, pc, now, s, joining, throws, resets>>

Forget == pc' = "idle" /\ now' = 0 /\ s' = NewSave /\ joining' = None /\ touched' = {}

Return ==
    /\ pc = "sync" /\ touched = {}
    /\ Forget
    /\ UNCHANGED <<clock, tableVars, save, participation, throws, resets>>

\* A statement fails, or the process dies under the request.
Throw ==
    /\ pc # "idle"
    /\ throws + resets < MaxMishaps
    /\ throws' = throws + 1
    /\ Forget
    /\ UNCHANGED <<clock, tableVars, save, participation, resets>>

Next ==
    \/ Tick
    \/ \E e \in Events : ActivateEvent(e)
    \/ EndEvent
    \/ Load \/ ReadActiveEvent \/ Join \/ UpsertParticipation
    \/ Earn \/ HardReset
    \/ \E e \in Events, i \in Rungs : ClaimEventRung(e, i)
    \/ PutSave
    \/ \E e \in Events : Sync(e)
    \/ Return \/ Throw

Spec == Init /\ [][Next]_vars

-----------------------------------------------------------------------------

\* Type invariant.
TypeOK ==
    /\ clock \in Nat /\ now \in Nat /\ throws \in Nat /\ resets \in Nat
    /\ active \in Events \cup {NoEvent}
    /\ ends \in [Events -> Nat] /\ activations \in [Events -> Nat]
    /\ participation \in [Events -> Nat]
    /\ pc \in {"idle", "join", "joining", "upsert", "apply", "sync"}
    /\ joining \in [event: Events \cup {NoEvent}, ends: Nat, run: Nat]
    /\ touched \subseteq Events
    /\ \A st \in {save, s} : st \in Save /\ Cardinality(st.pending) <= MaxPending

\* A rung is paid once for each time its event went active, over any number of
\* requests, failed ones included: not again from the same window, nor from a
\* second window of the player's, joined afresh or superseded.
PaidOnce ==
    /\ save.paidTwice = {}
    /\ \A e \in Events, i \in Rungs :
          Cardinality({tag \in save.paid : tag[1] = e /\ tag[3] = i}) <= activations[e]

\* Every rung paid was met while its window was the player's live one: a
\* superseded ladder does not climb on ("one grind pays out both").
PaidWasMet == save.paid \subseteq save.met

\* The player has no later window at w's event.
LastAt(st, w) ==
    ~ IsLive(st, w.event) /\ \A q \in st.past : q.event = w.event => q.nth <= w.nth

\* A rung that was met and not claimed when its window was superseded can be
\* claimed until the grace is over, unless MaxPending newer ones came since or
\* the player has joined the event again.
ClaimSurvives ==
    \A w \in save.past :
        w.nth + MaxPending > save.superseded /\ LastAt(save, w) /\ InGrace(w, clock) =>
            \A i \in w.claimable :
                \/ <<w.event, w.run, i>> \in save.paid
                \/ Claimable(save, w.event, i, clock)

=============================================================================
