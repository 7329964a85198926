------------------------ MODULE EventLifecycleProofs ------------------------
(***************************************************************************)
(* For any events, requests, bodies and bounds: what an undisturbed       *)
(* scheduler run leaves behind, on either driver, and, where awaits give   *)
(* nobody else a turn, that one event at most is active.                   *)
(***************************************************************************)
EXTENDS EventLifecycle, FiniteSetTheorems, TLAPS

-----------------------------------------------------------------------------
(***************************************************************************)
(* Types.                                                                  *)
(***************************************************************************)

Ending == {"endEvent", "endEvent_set"}
Activating == {"activateEvent", "activateEvent_list", "activateEvent_others"}
Serving == Routes \cup Ending \cup Activating
           \cup {"create_put", "put_put", "delete_delete", "schedule_set", "activate_check"}
Pcs == Serving \cup {"unsent", "done", "list", "loop"}
Stages == {"none", "materialize", "expire", "open"}

Item == [id: Events, starts: Times, ends: Times]

JobState ==
    [pc: Pcs, stage: Stages, now: Nat, id: Events \cup {0}, row: Row \cup {NoRow},
     body: Body \cup {NoRow}, others: SUBSET Events, work: SUBSET Item, batch: SUBSET Item]

Run == job[Scheduler]

\* What a handler holds where it stands.
Holds(p) ==
    /\ job[p].pc \in Serving => job[p].id \in Events
    /\ job[p].pc \in {"put_put", "activateEvent_list", "activateEvent_others"} => job[p].row \in Row
    /\ job[p].pc \in {"create", "create_put", "put", "put_put", "schedule", "schedule_set"} =>
          job[p].body \in Body
    /\ job[p].pc \in {"create", "create_put"} => job[p].body.content \in Contents
    /\ job[p].pc \in {"schedule", "schedule_set"} =>
          job[p].body.starts \in Times /\ job[p].body.ends \in Times
    /\ job[p].work \subseteq job[p].batch
    /\ job[p].stage = "materialize" => \A i \in job[p].work : i.id \in Recurring
    /\ IF p = Scheduler THEN job[p].pc = "done" \/ job[p].stage # "none"
                        ELSE job[p].pc \notin {"list", "loop"}

Typed ==
    /\ clock \in Nat /\ mishaps \in Nat /\ up \in BOOLEAN
    /\ swept \in {"no", "running", "yes"}
    /\ rows \in [Events -> Row \cup {NoRow}]
    /\ job \in [Jobs -> JobState]
    /\ \A p \in Jobs : Holds(p)

OthersKeep(p) == \A q \in Jobs \ {p} : job'[q] = job[q]

LEMMA JobsAre == Scheduler \in Jobs /\ \A q \in Requests : q \in Jobs /\ q # Scheduler
BY EventAssumption DEF Jobs

LEMMA Blanks ==
    /\ Blank \in JobState /\ Starting \in JobState
    /\ Blank.pc = "done" /\ Blank.work = {} /\ Blank.batch = {}
    /\ \A now \in Nat :
          LET run == [Starting EXCEPT !.now = now] IN
          /\ run \in JobState /\ run.pc = "list" /\ run.stage = "materialize"
          /\ run.now = now /\ run.work = {} /\ run.batch = {}
BY DEF Blank, Starting, JobState, Pcs, Stages

LEMMA Becoming ==
    ASSUME job \in [Jobs -> JobState], NEW p \in Jobs, NEW state \in JobState, Becomes(p, state)
    PROVE  job' \in [Jobs -> JobState] /\ OthersKeep(p) /\ job'[p] = state
BY DEF Becomes, OthersKeep

\* A handler that goes on keeps everything it holds.
LEMMA GoOn ==
    ASSUME job \in [Jobs -> JobState], NEW p \in Jobs, NEW pc \in Pcs, pc # "done", Go(p, pc)
    PROVE  /\ job' \in [Jobs -> JobState] /\ OthersKeep(p)
           /\ job'[p].pc = pc /\ job'[p].stage = job[p].stage /\ job'[p].now = job[p].now
           /\ job'[p].id = job[p].id /\ job'[p].row = job[p].row /\ job'[p].body = job[p].body
           /\ job'[p].others = job[p].others
           /\ job'[p].work = job[p].work /\ job'[p].batch = job[p].batch
<1>. DEFINE state == [job[p] EXCEPT !.pc = pc]
<1>1. /\ state \in JobState /\ state.pc = pc
      /\ state.stage = job[p].stage /\ state.now = job[p].now /\ state.id = job[p].id
      /\ state.row = job[p].row /\ state.body = job[p].body /\ state.others = job[p].others
      /\ state.work = job[p].work /\ state.batch = job[p].batch
  BY DEF JobState
<1>2. Becomes(p, state)
  BY DEF Go
<1>. HIDE DEF state
<1>. QED
  BY <1>1, <1>2, Becoming

\* One that is done keeps the last list only.
LEMMA GoDone ==
    ASSUME job \in [Jobs -> JobState], NEW p \in Jobs, Go(p, "done")
    PROVE  /\ job' \in [Jobs -> JobState] /\ OthersKeep(p)
           /\ job'[p].pc = "done" /\ job'[p].stage = "none"
           /\ job'[p].work = {} /\ job'[p].batch = job[p].batch
<1>. DEFINE last == [Blank EXCEPT !.batch = job[p].batch]
<1>1. Becomes(p, last)
  BY DEF Go
<1>2. job[p].batch \in SUBSET Item
  BY DEF JobState
<1>3. /\ last \in JobState /\ last.pc = "done" /\ last.stage = "none"
      /\ last.work = {} /\ last.batch = job[p].batch
  BY <1>2 DEF Blank, JobState, Pcs, Stages
<1>. HIDE DEF last
<1>. QED
  BY <1>1, <1>3, Becoming

LEMMA HoldsElsewhere ==
    ASSUME NEW p \in Jobs, OthersKeep(p), \A q \in Jobs : Holds(q), Holds(p)'
    PROVE  \A q \in Jobs : Holds(q)'
BY DEF Holds, OthersKeep

(***************************************************************************)
(* Statements change one row.                                              *)
(***************************************************************************)

OtherRowsKeep(e) == \A x \in Events \ {e} : rows'[x] = rows[x]

LEMMA SetsStatus ==
    ASSUME rows \in [Events -> Row \cup {NoRow}], NEW e \in Events,
           NEW status \in Statuses, SetEventStatus(e, status)
    PROVE  /\ rows' \in [Events -> Row \cup {NoRow}] /\ OtherRowsKeep(e)
           /\ rows[e] = NoRow => rows'[e] = NoRow
           /\ rows[e] # NoRow => /\ rows'[e] # NoRow /\ rows'[e].status = status
                                 /\ rows'[e].starts = rows[e].starts
                                 /\ rows'[e].ends = rows[e].ends
<1>1. CASE rows[e] = NoRow
  BY <1>1 DEF SetEventStatus, Exists, OtherRowsKeep
<1>2. CASE rows[e] # NoRow
  <2>1. rows' = [rows EXCEPT ![e].status = status]
    BY <1>2 DEF SetEventStatus, Exists
  <2>2. rows[e] \in Row
    BY <1>2
  <2>3. rows'[e] = [rows[e] EXCEPT !.status = status] /\ OtherRowsKeep(e)
    BY <2>1 DEF OtherRowsKeep
  <2>4. /\ rows'[e] \in Row /\ rows'[e].status = status
        /\ rows'[e].starts = rows[e].starts /\ rows'[e].ends = rows[e].ends
    BY <2>2, <2>3 DEF Row
  <2>5. NoRow \notin Row
    BY EventAssumption
  <2>. QED
    BY <2>1, <2>3, <2>4, <2>5, <1>2
<1>. QED
  BY <1>1, <1>2

LEMMA SetsWindow ==
    ASSUME rows \in [Events -> Row \cup {NoRow}], NEW e \in Events,
           NEW status \in Statuses, NEW starts \in Times, NEW ends \in Times,
           SetStatusAndWindow(e, status, starts, ends)
    PROVE  /\ rows' \in [Events -> Row \cup {NoRow}] /\ OtherRowsKeep(e)
           /\ rows[e] = NoRow => rows'[e] = NoRow
           /\ rows[e] # NoRow => /\ rows'[e] # NoRow /\ rows'[e].status = status
                                 /\ rows'[e].starts = starts /\ rows'[e].ends = ends
<1>1. CASE rows[e] = NoRow
  BY <1>1 DEF SetStatusAndWindow, Exists, OtherRowsKeep
<1>2. CASE rows[e] # NoRow
  <2>1. rows' = [rows EXCEPT ![e].status = status, ![e].starts = starts, ![e].ends = ends]
    BY <1>2 DEF SetStatusAndWindow, Exists
  <2>2. rows[e] \in Row
    BY <1>2
  <2>3. /\ rows'[e] = [rows[e] EXCEPT !.status = status, !.starts = starts, !.ends = ends]
        /\ OtherRowsKeep(e)
    BY <2>1 DEF OtherRowsKeep
  <2>4. /\ rows'[e] \in Row /\ rows'[e].status = status
        /\ rows'[e].starts = starts /\ rows'[e].ends = ends
    BY <2>2, <2>3 DEF Row
  <2>5. NoRow \notin Row
    BY EventAssumption
  <2>. QED
    BY <2>1, <2>3, <2>4, <2>5, <1>2
<1>. QED
  BY <1>1, <1>2

LEMMA Puts ==
    ASSUME rows \in [Events -> Row \cup {NoRow}], NEW e \in Events,
           NEW row \in Row \cup {NoRow}, PutEvent(e, row)
    PROVE  /\ rows' \in [Events -> Row \cup {NoRow}] /\ OtherRowsKeep(e)
           /\ rows'[e] = row
BY DEF PutEvent, OtherRowsKeep

LEMMA DraftIsRow == \A c \in Contents : Draft(c) \in Row /\ Draft(c).status = "draft"
BY DEF Draft, Row, Statuses, Times

\* Seeding adds drafts and leaves every row there is alone.
LEMMA Seeds ==
    ASSUME NEW table \in [Events -> Row \cup {NoRow}]
    PROVE  /\ Seeded(table) \in [Events -> Row \cup {NoRow}]
           /\ \A e \in Events : \/ Seeded(table)[e] = table[e]
                                \/ Seeded(table)[e].status = "draft"
<1>1. (CHOOSE c \in Contents : TRUE) \in Contents
  BY EventAssumption
<1>. QED
  BY <1>1, DraftIsRow DEF Seeded

LEMMA Occurrence ==
    ASSUME NEW e \in Recurring, NEW now \in Nat
    PROVE  NextOccurrence(e, now).starts \in Nat /\ NextOccurrence(e, now).ends \in Nat
<1>1. Recurrence[e].day \in Nat /\ Recurrence[e].duration \in Nat
  BY EventAssumption
<1>2. now \div Year \in Nat /\ Year \in Nat
  BY BoundAssumption, SMT
<1>3. \A y \in Nat : y * Year \in Nat
  BY <1>2
<1>. QED
  BY <1>1, <1>2, <1>3 DEF NextOccurrence

LEMMA Lists ==
    ASSUME rows \in [Events -> Row \cup {NoRow}], NEW es \in SUBSET Events,
           \A e \in es : rows[e] # NoRow
    PROVE  /\ ListEvents(es) \in SUBSET Item
           /\ \A e \in es : \E i \in ListEvents(es) : i.id = e
           /\ \A i \in ListEvents(es) : /\ i.id \in es /\ rows[i.id] # NoRow
                                        /\ i.starts = rows[i.id].starts
                                        /\ i.ends = rows[i.id].ends
           /\ \A i, j \in ListEvents(es) : i.id = j.id => i = j
<1>. DEFINE Listed(e) == [id |-> e, starts |-> rows[e].starts, ends |-> rows[e].ends]
<1>1. \A e \in es : /\ Listed(e) \in Item /\ Listed(e).id = e
                    /\ Listed(e).starts = rows[e].starts /\ Listed(e).ends = rows[e].ends
  BY DEF Item, Row
<1>2. ListEvents(es) = {Listed(e) : e \in es}
  BY DEF ListEvents
<1>. HIDE DEF Listed
<1>. QED
  BY <1>1, <1>2

LEMMA TypedReads ==
    ASSUME Typed, NEW p \in Jobs, job' \in [Jobs -> JobState], OthersKeep(p), Holds(p)', Read
    PROVE  Typed'
<1>1. \A q \in Jobs : Holds(q)'
  BY HoldsElsewhere DEF Typed
<1>2. UNCHANGED <<clock, rows, up, swept, mishaps>>
  BY DEF Read, Quiet
<1>. QED
  BY <1>1, <1>2 DEF Typed

LEMMA TypedWrites ==
    ASSUME Typed, NEW p \in Jobs, job' \in [Jobs -> JobState], OthersKeep(p), Holds(p)',
           rows' \in [Events -> Row \cup {NoRow}], Write(p)
    PROVE  Typed'
<1>1. \A q \in Jobs : Holds(q)'
  BY HoldsElsewhere DEF Typed
<1>2. UNCHANGED <<clock, up, mishaps>> /\ swept' \in {swept, "no"}
  BY DEF Write, Quiet, Disturb
<1>. QED
  BY <1>1, <1>2 DEF Typed

\* Where a service function returns, a handler holds nothing.
LEMMA Resumes ==
    ASSUME Typed, NEW p \in Jobs, job[p].pc # "done", Go(p, Resume(p))
    PROVE  job' \in [Jobs -> JobState] /\ OthersKeep(p) /\ Holds(p)'
<1>1. CASE p = Scheduler
  <2>1. Go(p, "loop")
    BY <1>1 DEF Resume
  <2>2. "loop" \in Pcs /\ "loop" # "done"
    BY DEF Pcs
  <2>. QED
    BY <1>1, <2>1, <2>2, GoOn DEF Typed, Holds, Serving, Routes, Ending, Activating
<1>2. CASE p # Scheduler
  BY <1>2, GoDone DEF Resume, Typed, Holds, Serving, Routes, Ending, Activating
<1>. QED
  BY <1>1, <1>2

\* A handler that is done holds nothing.
LEMMA Finishes ==
    ASSUME Typed, NEW p \in Jobs, Go(p, "done")
    PROVE  job' \in [Jobs -> JobState] /\ OthersKeep(p) /\ Holds(p)'
BY GoDone DEF Typed, Holds, Serving, Routes, Ending, Activating

LEMMA TypedService ==
    ASSUME Typed, NEW p \in Jobs, Service(p)
    PROVE  Typed'
<1>1. CASE EndEvent(p)
  <2>1. CASE Exists(job[p].id)
    <3>1. Go(p, "endEvent_set") /\ At(p, "endEvent")
      BY <1>1, <2>1 DEF EndEvent
    <3>2. "endEvent_set" \in Pcs /\ "endEvent_set" # "done"
      BY DEF Pcs, Serving, Ending
    <3>3. job' \in [Jobs -> JobState] /\ OthersKeep(p) /\ Holds(p)'
      BY <3>1, <3>2, GoOn DEF At, Typed, Holds, Serving, Routes, Ending, Activating
    <3>. QED
      BY <3>3, <1>1, TypedReads DEF EndEvent
  <2>2. CASE ~ Exists(job[p].id)
    BY <1>1, <2>2, Resumes, TypedReads DEF EndEvent, At
  <2>. QED
    BY <2>1, <2>2
<1>2. CASE EndEventSet(p)
  <2>1. job[p].id \in Events /\ "ended" \in Statuses
    BY <1>2 DEF EndEventSet, At, Typed, Holds, Serving, Ending, Statuses
  <2>2. rows' \in [Events -> Row \cup {NoRow}]
    BY <1>2, <2>1, SetsStatus DEF EndEventSet, Typed
  <2>. QED
    BY <1>2, <2>2, Resumes, TypedWrites DEF EndEventSet, At
<1>3. CASE ActivateEvent(p)
  <2>. DEFINE row == rows[job[p].id]
  <2>1. job[p].id \in Events /\ At(p, "activateEvent")
    BY <1>3 DEF ActivateEvent, At, Typed, Holds, Serving, Activating
  <2>2. CASE Activatable(row, job[p].now)
    <3>1. row \in Row
      BY <2>1, <2>2 DEF Activatable, Typed
    <3>. DEFINE state == [job[p] EXCEPT !.row = row, !.pc = "activateEvent_list"]
    <3>2. Becomes(p, state)
      BY <1>3, <2>2 DEF ActivateEvent
    <3>3. /\ state \in JobState
          /\ state.pc = "activateEvent_list" /\ state.row = row
          /\ state.id = job[p].id /\ state.stage = job[p].stage
          /\ state.work = job[p].work /\ state.batch = job[p].batch
      BY <3>1 DEF Typed, JobState, Pcs, Serving, Activating
    <3>. HIDE DEF row, state
    <3>4. /\ job' \in [Jobs -> JobState] /\ OthersKeep(p)
          /\ job'[p].pc = "activateEvent_list" /\ job'[p].row = row
          /\ job'[p].id = job[p].id /\ job'[p].stage = job[p].stage
        /\ job'[p].work = job[p].work /\ job'[p].batch = job[p].batch
      BY <3>2, <3>3, Becoming DEF Typed
    <3>5. Holds(p)'
      BY <2>1, <3>1, <3>4 DEF At, Typed, Holds, Serving, Routes, Ending, Activating
    <3>. QED
      BY <3>4, <3>5, <1>3, TypedReads DEF ActivateEvent
  <2>3. CASE ~ Activatable(row, job[p].now)
    BY <1>3, <2>3, Resumes, TypedReads DEF ActivateEvent, At
  <2>. QED
    BY <2>2, <2>3
<1>4. CASE ActivateEventList(p)
  <2>. DEFINE found == Active \ {job[p].id}
  <2>0. found \in SUBSET Events
    BY DEF Active, WithStatus
  <2>. HIDE DEF found
  <2>. DEFINE state == [job[p] EXCEPT !.others = found, !.pc = "activateEvent_others"]
  <2>1. /\ state \in JobState
        /\ state.pc = "activateEvent_others" /\ state.row = job[p].row
        /\ state.id = job[p].id /\ state.stage = job[p].stage
        /\ state.work = job[p].work /\ state.batch = job[p].batch
    BY <2>0 DEF Typed, JobState, Pcs, Serving, Activating
  <2>2. Becomes(p, state)
    BY <1>4 DEF ActivateEventList, found
  <2>. HIDE DEF state
  <2>3. /\ job' \in [Jobs -> JobState] /\ OthersKeep(p)
        /\ job'[p].pc = "activateEvent_others" /\ job'[p].row = job[p].row
        /\ job'[p].id = job[p].id /\ job'[p].stage = job[p].stage
        /\ job'[p].work = job[p].work /\ job'[p].batch = job[p].batch
    BY <2>1, <2>2, Becoming DEF Typed
  <2>4. Holds(p)'
    BY <1>4, <2>3 DEF ActivateEventList, At, Typed, Holds, Serving, Routes, Ending, Activating
  <2>. QED
    BY <2>3, <2>4, <1>4, TypedReads DEF ActivateEventList
<1>5. CASE EndOther(p)
  <2>1. PICK other \in job[p].others :
           /\ SetEventStatus(other, "ended")
           /\ Becomes(p, [job[p] EXCEPT !.others = @ \ {other}])
    BY <1>5 DEF EndOther
  <2>2. other \in Events /\ "ended" \in Statuses
    BY DEF Typed, JobState, Statuses
  <2>3. rows' \in [Events -> Row \cup {NoRow}]
    BY <2>1, <2>2, SetsStatus DEF Typed
  <2>. DEFINE state == [job[p] EXCEPT !.others = @ \ {other}]
  <2>0. /\ state \in JobState
        /\ state.pc = job[p].pc /\ state.row = job[p].row
        /\ state.id = job[p].id /\ state.stage = job[p].stage
        /\ state.work = job[p].work /\ state.batch = job[p].batch
    BY DEF Typed, JobState
  <2>. HIDE DEF state
  <2>4. /\ job' \in [Jobs -> JobState] /\ OthersKeep(p)
        /\ job'[p].pc = job[p].pc /\ job'[p].row = job[p].row
        /\ job'[p].id = job[p].id /\ job'[p].stage = job[p].stage
        /\ job'[p].work = job[p].work /\ job'[p].batch = job[p].batch
    BY <2>0, <2>1, Becoming DEF Typed, state
  <2>5. Holds(p)'
    BY <1>5, <2>4 DEF EndOther, At, Typed, Holds, Serving, Routes, Ending, Activating
  <2>. QED
    BY <2>3, <2>4, <2>5, <1>5, TypedWrites DEF EndOther
<1>6. CASE ActivateEventSet(p)
  <2>1. job[p].id \in Events /\ job[p].row \in Row /\ job[p].now \in Nat /\ "active" \in Statuses
    BY <1>6 DEF ActivateEventSet, At, Typed, Holds, JobState, Serving, Activating, Statuses
  <2>. DEFINE starts == IF job[p].row.starts = NoTime THEN job[p].now ELSE job[p].row.starts
  <2>2. starts \in Times /\ job[p].row.ends \in Times
    BY <2>1 DEF Row, Times
  <2>3. SetStatusAndWindow(job[p].id, "active", starts, job[p].row.ends)
    BY <1>6 DEF ActivateEventSet
  <2>. HIDE DEF starts
  <2>4. rows' \in [Events -> Row \cup {NoRow}]
    BY <2>1, <2>2, <2>3, SetsWindow DEF Typed
  <2>. QED
    BY <1>6, <2>4, Resumes, TypedWrites DEF ActivateEventSet, At
<1>. QED
  BY <1>1, <1>2, <1>3, <1>4, <1>5, <1>6 DEF Service

LEMMA RunTypes ==
    ASSUME Typed
    PROVE  /\ Run.now \in Nat /\ Run.work \in SUBSET Item /\ Run.batch \in SUBSET Item
           /\ Run.stage \in Stages /\ Run.pc \in Pcs /\ Run.work \subseteq Run.batch
           /\ Run.id \in Events \cup {0} /\ Run.row \in Row \cup {NoRow}
           /\ Run.others \in SUBSET Events
BY JobsAre DEF Typed, JobState, Holds, Run

LEMMA Worklists ==
    ASSUME Typed, NEW stage \in {"materialize", "expire", "open"}, NEW now \in Nat
    PROVE  Worklist(stage, now) \in SUBSET Item
<1>1. /\ ToMaterialize(now) \in SUBSET Events
      /\ \A e \in ToMaterialize(now) : rows[e] # NoRow
  BY EventAssumption DEF ToMaterialize, Recurring, Exists
<1>2. ToEnd(now) \in SUBSET Events /\ \A e \in ToEnd(now) : rows[e] # NoRow
  BY DEF ToEnd, Active, WithStatus, Exists
<1>3. ToOpen(now) \in SUBSET Events /\ \A e \in ToOpen(now) : rows[e] # NoRow
  BY DEF ToOpen, WithStatus, Exists
<1>4. /\ Worklist("materialize", now) = ListEvents(ToMaterialize(now))
      /\ Worklist("expire", now) = ListEvents(ToEnd(now))
      /\ Worklist("open", now) = ListEvents(ToOpen(now))
  BY DEF Worklist
<1>. QED
  BY <1>1, <1>2, <1>3, <1>4, Lists DEF Typed

(***************************************************************************)
(* What each step of a run does to it.                                     *)
(***************************************************************************)

LEMMA ListStageDoes ==
    ASSUME Typed, ListStage, Run.stage # "none"
    PROVE  /\ job' \in [Jobs -> JobState] /\ OthersKeep(Scheduler)
           /\ Run'.pc = "loop" /\ Run'.stage = Run.stage /\ Run'.now = Run.now
           /\ Run'.work = Worklist(Run.stage, Run.now) /\ Run'.batch = Run'.work
<1>. DEFINE work == Worklist(Run.stage, Run.now)
<1>1. work \in SUBSET Item
  BY Worklists, RunTypes DEF Stages
<1>. HIDE DEF work
<1>. DEFINE state == [Run EXCEPT !.work = work, !.batch = work, !.pc = "loop"]
<1>2. /\ state \in JobState /\ state.pc = "loop" /\ state.stage = Run.stage
      /\ state.now = Run.now /\ state.work = work /\ state.batch = work
  BY <1>1, JobsAre DEF Typed, JobState, Pcs, Run
<1>3. Becomes(Scheduler, state)
  BY DEF ListStage, Run, work
<1>. HIDE DEF state
<1>. QED
  BY <1>2, <1>3, JobsAre, Becoming DEF Typed, Run, work

LEMMA TakeDoes ==
    ASSUME Typed, NEW item \in Run.work, NEW pc \in Pcs, item.id \in Events, Take(item, pc)
    PROVE  /\ job' \in [Jobs -> JobState] /\ OthersKeep(Scheduler)
           /\ Run'.pc = pc /\ Run'.stage = Run.stage /\ Run'.now = Run.now /\ Run'.id = item.id
           /\ Run'.work = Run.work \ {item} /\ Run'.batch = Run.batch
<1>. DEFINE id == item.id
<1>. DEFINE state == [Run EXCEPT !.work = @ \ {item}, !.id = id, !.pc = pc]
<1>1. Becomes(Scheduler, state) /\ id \in Events
  BY DEF Take, Run
<1>. HIDE DEF id
<1>2. /\ state \in JobState /\ state.pc = pc /\ state.stage = Run.stage
      /\ state.now = Run.now /\ state.id = id
      /\ state.work = Run.work \ {item} /\ state.batch = Run.batch
  BY <1>1, JobsAre DEF Typed, JobState, Run
<1>. HIDE DEF state
<1>. QED
  BY <1>1, <1>2, JobsAre, Becoming DEF Typed, Run, id

LEMMA ItemsAre ==
    ASSUME Typed
    PROVE  /\ \A i \in Run.work : i \in Run.batch
           /\ \A i \in Run.batch : i \in Item /\ i.id \in Events /\ i.starts \in Times /\ i.ends \in Times
BY RunTypes DEF Item

LEMMA MaterializeOneDoes ==
    ASSUME Typed, NEW item \in Run.work,
           Becomes(Scheduler, [Run EXCEPT !.work = @ \ {item}])
    PROVE  /\ job' \in [Jobs -> JobState] /\ OthersKeep(Scheduler)
           /\ Run'.pc = Run.pc /\ Run'.stage = Run.stage /\ Run'.now = Run.now
           /\ Run'.work = Run.work \ {item} /\ Run'.batch = Run.batch
<1>. DEFINE state == [Run EXCEPT !.work = @ \ {item}]
<1>1. /\ state \in JobState /\ state.pc = Run.pc /\ state.stage = Run.stage
      /\ state.now = Run.now
      /\ state.work = Run.work \ {item} /\ state.batch = Run.batch
  BY JobsAre DEF Typed, JobState, Run
<1>. HIDE DEF state
<1>. QED
  BY <1>1, JobsAre, Becoming DEF Typed, Run, state

LEMMA NextStageDoes ==
    ASSUME Typed, NextStage
    PROVE  /\ job' \in [Jobs -> JobState] /\ OthersKeep(Scheduler)
           /\ Run'.pc = "list" /\ Run'.now = Run.now
           /\ Run.stage \in {"materialize", "expire"}
           /\ Run'.stage = IF Run.stage = "materialize" THEN "expire" ELSE "open"
           /\ Run'.work = Run.work /\ Run'.batch = Run.batch /\ Run.work = {}
<1>. DEFINE next == IF Run.stage = "materialize" THEN "expire" ELSE "open"
<1>. DEFINE state == [Run EXCEPT !.pc = "list", !.stage = next]
<1>1. Run.stage \in {"materialize", "expire"} /\ Run.work = {}
  BY DEF NextStage, Run
<1>2. next \in Stages
  BY DEF Stages
<1>3. Becomes(Scheduler, state)
  BY DEF NextStage, Run
<1>. HIDE DEF next
<1>4. /\ state \in JobState /\ state.pc = "list" /\ state.now = Run.now /\ state.stage = next
      /\ state.work = Run.work /\ state.batch = Run.batch
  BY <1>2, JobsAre DEF Typed, JobState, Pcs, Run
<1>. HIDE DEF state
<1>. QED
  BY <1>1, <1>3, <1>4, JobsAre, Becoming DEF Typed, Run, next

LEMMA TypedSweep ==
    ASSUME Typed, Sweep
    PROVE  Typed'
<1>0. Scheduler \in Jobs
  BY JobsAre
<1>00. Run.stage = "materialize" => \A i \in Run.work : i.id \in Recurring
  BY <1>0 DEF Typed, Holds, Run
<1>1. CASE ListStage
  <2>0. Run.stage # "none"
    BY <1>0, <1>1 DEF ListStage, At, Typed, Holds, Run
  <2>1. Holds(Scheduler)'
    <3>1. Run.stage = "materialize" => \A i \in Worklist(Run.stage, Run.now) : i.id \in Recurring
      <4>1. /\ ToMaterialize(Run.now) \in SUBSET Events
            /\ \A e \in ToMaterialize(Run.now) : rows[e] # NoRow /\ e \in Recurring
        BY EventAssumption DEF ToMaterialize, Recurring, Exists
      <4>2. Worklist("materialize", Run.now) = ListEvents(ToMaterialize(Run.now))
        BY DEF Worklist
      <4>. QED
        BY <4>1, <4>2, Lists DEF Typed
    <3>. QED
      BY <3>1, <1>1, <2>0, ListStageDoes DEF Holds, Run, Serving, Routes, Ending, Activating
  <2>. QED
    BY <1>0, <1>1, <2>0, <2>1, ListStageDoes, TypedReads DEF ListStage
<1>2. CASE MaterializeOne
  <2>1. PICK item \in Run.work :
           LET w == NextOccurrence(item.id, Run.now) IN
           /\ SetStatusAndWindow(item.id, "scheduled", w.starts, w.ends)
           /\ Becomes(Scheduler, [Run EXCEPT !.work = @ \ {item}])
    BY <1>2 DEF MaterializeOne, Run
  <2>2. /\ job' \in [Jobs -> JobState] /\ OthersKeep(Scheduler)
        /\ Run'.pc = "loop" /\ Run'.stage = Run.stage /\ Run.stage # "none"
        /\ Run'.work = Run.work \ {item} /\ Run'.batch = Run.batch
    BY <1>2, <2>1, MaterializeOneDoes DEF MaterializeOne, At, Run
  <2>3. Holds(Scheduler)'
    BY <1>00, <2>2, RunTypes DEF Holds, Run, Serving, Routes, Ending, Activating
  <2>. DEFINE w == NextOccurrence(item.id, Run.now)
  <2>4. item.id \in Events /\ item.id \in Recurring /\ Run.now \in Nat
    BY <1>2, <1>0, ItemsAre, RunTypes DEF MaterializeOne, Typed, Holds, Run
  <2>5. w.starts \in Times /\ w.ends \in Times /\ "scheduled" \in Statuses
    BY <2>4, Occurrence DEF Statuses, Times
  <2>6. SetStatusAndWindow(item.id, "scheduled", w.starts, w.ends)
    BY <2>1
  <2>. HIDE DEF w
  <2>7. rows' \in [Events -> Row \cup {NoRow}]
    BY <2>4, <2>5, <2>6, SetsWindow DEF Typed
  <2>. QED
    BY <1>0, <1>2, <2>2, <2>3, <2>7, TypedWrites DEF MaterializeOne
<1>3. CASE ExpireOne
  <2>1. PICK item \in Run.work : Take(item, "endEvent")
    BY <1>3 DEF ExpireOne, Run
  <2>2. item.id \in Events /\ "endEvent" \in Pcs
    BY ItemsAre DEF Pcs, Serving, Ending
  <2>3. /\ job' \in [Jobs -> JobState] /\ OthersKeep(Scheduler)
        /\ Run'.pc = "endEvent" /\ Run'.id = item.id
        /\ Run'.stage = Run.stage /\ Run.stage # "none"
        /\ Run'.work = Run.work \ {item} /\ Run'.batch = Run.batch
    BY <1>3, <2>1, <2>2, TakeDoes DEF At, ExpireOne, Run
  <2>4. Holds(Scheduler)'
    BY <1>00, <2>2, <2>3, RunTypes DEF Holds, Run, Serving, Routes, Ending, Activating
  <2>. QED
    BY <1>0, <1>3, <2>3, <2>4, TypedReads DEF ExpireOne
<1>4. CASE OpenOne
  <2>1. PICK item \in Run.work : Take(item, Fate(item))
    BY <1>4 DEF OpenOne, Run
  <2>2. Fate(item) \in {"endEvent", "activateEvent"}
    BY DEF Fate
  <2>. DEFINE pc == Fate(item)
  <2>. HIDE DEF pc
  <2>3. item.id \in Events /\ pc \in Pcs /\ pc \in {"endEvent", "activateEvent"}
    BY <2>2, ItemsAre DEF Pcs, Serving, Ending, Activating, pc
  <2>4. /\ job' \in [Jobs -> JobState] /\ OthersKeep(Scheduler)
        /\ Run'.pc = pc /\ Run'.id = item.id
        /\ Run'.stage = Run.stage /\ Run.stage # "none"
        /\ Run'.work = Run.work \ {item} /\ Run'.batch = Run.batch
    BY <1>4, <2>1, <2>3, TakeDoes DEF OpenOne, pc, Run
  <2>5. Holds(Scheduler)'
    BY <1>00, <2>3, <2>4, RunTypes DEF Holds, Run, Serving, Routes, Ending, Activating
  <2>. QED
    BY <1>0, <1>4, <2>4, <2>5, TypedReads DEF OpenOne
<1>5. CASE NextStage
  <2>1. Holds(Scheduler)'
    BY <1>5, NextStageDoes, RunTypes DEF Holds, Run, Serving, Routes, Ending, Activating
  <2>. QED
    BY <1>0, <1>5, <2>1, NextStageDoes, TypedReads DEF NextStage
<1>6. CASE FinishScheduler
  <2>1. job' \in [Jobs -> JobState] /\ OthersKeep(Scheduler) /\ Holds(Scheduler)'
    BY <1>0, <1>6, Finishes DEF FinishScheduler
  <2>2. \A q \in Jobs : Holds(q)'
    BY <1>0, <2>1, HoldsElsewhere DEF Typed
  <2>. QED
    BY <1>6, <2>1, <2>2 DEF FinishScheduler, Typed
<1>. QED
  BY <1>1, <1>2, <1>3, <1>4, <1>5, <1>6 DEF Sweep

LEMMA TypedRoute ==
    ASSUME Typed, NEW q \in Requests, Route(q)
    PROVE  Typed'
<1>0. q \in Jobs /\ q # Scheduler
  BY JobsAre
<1>1. CASE Create(q)
  <2>1. CASE ~ Exists(job[q].id)
    <3>1. Go(q, "create_put") /\ At(q, "create")
      BY <1>1, <2>1 DEF Create
    <3>2. "create_put" \in Pcs /\ "create_put" # "done"
      BY DEF Pcs, Serving
    <3>3. job' \in [Jobs -> JobState] /\ OthersKeep(q) /\ Holds(q)'
      BY <1>0, <3>1, <3>2, GoOn DEF At, Typed, Holds, Serving, Routes, Ending, Activating
    <3>. QED
      BY <1>0, <3>3, <1>1, TypedReads DEF Create
  <2>2. CASE ~ (~ Exists(job[q].id))
    BY <1>0, <1>1, <2>2, Finishes, TypedReads DEF Create
  <2>. QED
    BY <2>1, <2>2
<1>2. CASE CreatePut(q)
  <2>1. job[q].id \in Events /\ job[q].body.content \in Contents
    BY <1>0, <1>2 DEF CreatePut, At, Typed, Holds, Serving
  <2>. DEFINE row == Draft(job[q].body.content)
  <2>2. row \in Row /\ PutEvent(job[q].id, row)
    BY <1>2, <2>1, DraftIsRow DEF CreatePut
  <2>. HIDE DEF row
  <2>3. rows' \in [Events -> Row \cup {NoRow}]
    BY <2>1, <2>2, Puts DEF Typed
  <2>. QED
    BY <1>0, <1>2, <2>3, Finishes, TypedWrites DEF CreatePut
<1>3. CASE Put(q)
  <2>. DEFINE existing == rows[job[q].id]
              refused == ~ Editable(existing, job[q].body)
  <2>1. job[q].id \in Events /\ At(q, "put")
    BY <1>0, <1>3 DEF Put, At, Typed, Holds, Serving, Routes
  <2>2. CASE ~ refused
    <3>1. existing \in Row
      BY <2>1, <2>2 DEF Typed, Editable
    <3>. HIDE DEF existing
    <3>. DEFINE state == [job[q] EXCEPT !.row = existing, !.pc = "put_put"]
    <3>2. /\ state \in JobState /\ state.pc = "put_put" /\ state.row = existing
          /\ state.id = job[q].id /\ state.body = job[q].body /\ state.stage = job[q].stage
          /\ state.work = job[q].work /\ state.batch = job[q].batch
      BY <1>0, <3>1 DEF Typed, JobState, Pcs, Serving
    <3>3. Becomes(q, state)
      BY <1>3, <2>2 DEF Put, existing
    <3>. HIDE DEF state, refused
    <3>4. job' \in [Jobs -> JobState] /\ OthersKeep(q) /\ job'[q] = state
      BY <1>0, <3>2, <3>3, Becoming DEF Typed
    <3>5. Holds(q)'
      BY <1>0, <2>1, <3>1, <3>2, <3>4 DEF At, Typed, Holds, Serving, Routes, Ending, Activating
    <3>. QED
      BY <1>0, <3>4, <3>5, <1>3, TypedReads DEF Put
  <2>3. CASE refused
    BY <1>0, <1>3, <2>3, Finishes, TypedReads DEF Put
  <2>. QED
    BY <2>2, <2>3
<1>4. CASE PutPut(q)
  <2>1. job[q].id \in Events /\ job[q].row \in Row /\ job[q].body \in Body
    BY <1>0, <1>4 DEF PutPut, At, Typed, Holds, Serving
  <2>. DEFINE row == job[q].row
              body == job[q].body
              edited == Edited(row, body)
  <2>2. /\ body.starts # NoRow => body.starts \in Times
        /\ body.ends # NoRow => body.ends \in Times
        /\ body.content # NoRow => body.content \in Contents
    BY <2>1 DEF Body
  <2>3. row.status \in Statuses /\ row.starts \in Times /\ row.ends \in Times /\ row.content \in Contents
    BY <2>1 DEF Row
  <2>4. PutEvent(job[q].id, edited)
    BY <1>4 DEF PutPut
  <2>. HIDE DEF row, body
  <2>5. edited \in Row
    BY <2>2, <2>3 DEF Row, Edited
  <2>. HIDE DEF edited
  <2>6. rows' \in [Events -> Row \cup {NoRow}]
    BY <2>1, <2>4, <2>5, Puts DEF Typed
  <2>. QED
    BY <1>0, <1>4, <2>6, Finishes, TypedWrites DEF PutPut
<1>5. CASE Delete(q)
  <2>1. CASE Exists(job[q].id) /\ rows[job[q].id].status = "draft"
    <3>1. Go(q, "delete_delete") /\ At(q, "delete")
      BY <1>5, <2>1 DEF Delete
    <3>2. "delete_delete" \in Pcs /\ "delete_delete" # "done"
      BY DEF Pcs, Serving
    <3>3. job' \in [Jobs -> JobState] /\ OthersKeep(q) /\ Holds(q)'
      BY <1>0, <3>1, <3>2, GoOn DEF At, Typed, Holds, Serving, Routes, Ending, Activating
    <3>. QED
      BY <1>0, <3>3, <1>5, TypedReads DEF Delete
  <2>2. CASE ~ (Exists(job[q].id) /\ rows[job[q].id].status = "draft")
    BY <1>0, <1>5, <2>2, Finishes, TypedReads DEF Delete
  <2>. QED
    BY <2>1, <2>2
<1>6. CASE DeleteDelete(q)
  <2>1. rows' \in [Events -> Row \cup {NoRow}]
    BY <1>6 DEF DeleteDelete, Typed
  <2>. QED
    BY <1>0, <1>6, <2>1, Finishes, TypedWrites DEF DeleteDelete
<1>7. CASE Schedule(q)
  <2>1. CASE Exists(job[q].id) /\ rows[job[q].id].status # "active"
    <3>1. Go(q, "schedule_set") /\ At(q, "schedule")
      BY <1>7, <2>1 DEF Schedule
    <3>2. "schedule_set" \in Pcs /\ "schedule_set" # "done"
      BY DEF Pcs, Serving
    <3>3. job' \in [Jobs -> JobState] /\ OthersKeep(q) /\ Holds(q)'
      BY <1>0, <3>1, <3>2, GoOn DEF At, Typed, Holds, Serving, Routes, Ending, Activating
    <3>. QED
      BY <1>0, <3>3, <1>7, TypedReads DEF Schedule
  <2>2. CASE ~ (Exists(job[q].id) /\ rows[job[q].id].status # "active")
    BY <1>0, <1>7, <2>2, Finishes, TypedReads DEF Schedule
  <2>. QED
    BY <2>1, <2>2
<1>8. CASE ScheduleSet(q)
  <2>1. /\ job[q].id \in Events /\ "scheduled" \in Statuses
        /\ job[q].body.starts \in Times /\ job[q].body.ends \in Times
    BY <1>0, <1>8, EventAssumption DEF ScheduleSet, At, Typed, Holds, Serving, Statuses, Times
  <2>2. rows' \in [Events -> Row \cup {NoRow}]
    BY <1>8, <2>1, SetsWindow DEF ScheduleSet, Typed
  <2>. QED
    BY <1>0, <1>8, <2>2, Finishes, TypedWrites DEF ScheduleSet
<1>9. CASE Activate(q)
  <2>1. job[q].id \in Events /\ At(q, "activate")
    BY <1>0, <1>9 DEF Activate, At, Typed, Holds, Serving, Routes
  <2>2. CASE Exists(job[q].id)
    <3>. DEFINE row == rows[job[q].id]
    <3>1. row \in Row
      BY <2>1, <2>2 DEF Exists, Typed
    <3>. HIDE DEF row
    <3>. DEFINE state == [job[q] EXCEPT !.row = row, !.pc = "activate_check"]
    <3>2. /\ state \in JobState /\ state.pc = "activate_check" /\ state.row = row
          /\ state.id = job[q].id /\ state.stage = job[q].stage
          /\ state.work = job[q].work /\ state.batch = job[q].batch
      BY <1>0, <3>1 DEF Typed, JobState, Pcs, Serving
    <3>3. Becomes(q, state)
      BY <1>9, <2>2 DEF Activate, row
    <3>. HIDE DEF state
    <3>4. job' \in [Jobs -> JobState] /\ OthersKeep(q) /\ job'[q] = state
      BY <1>0, <3>2, <3>3, Becoming DEF Typed
    <3>5. Holds(q)'
      BY <1>0, <2>1, <3>2, <3>4 DEF At, Typed, Holds, Serving, Routes, Ending, Activating
    <3>. QED
      BY <1>0, <3>4, <3>5, <1>9, TypedReads DEF Activate
  <2>3. CASE ~ Exists(job[q].id)
    BY <1>0, <1>9, <2>3, Finishes, TypedReads DEF Activate
  <2>. QED
    BY <2>2, <2>3
<1>10. CASE ActivateCheck(q)
  <2>0. PICK active \in GetActiveEvent :
          LET refused == active \notin {NoRow, job[q].id} \/ ~ Activatable(job[q].row, clock) IN
          IF refused THEN Go(q, "done")
          ELSE Becomes(q, [job[q] EXCEPT !.now = clock, !.pc = "activateEvent"])
    BY <1>10 DEF ActivateCheck
  <2>. DEFINE refused == active \notin {NoRow, job[q].id} \/ ~ Activatable(job[q].row, clock)
  <2>1. job[q].id \in Events /\ At(q, "activate_check")
    BY <1>0, <1>10 DEF ActivateCheck, At, Typed, Holds, Serving
  <2>2. CASE ~ refused
    <3>. DEFINE state == [job[q] EXCEPT !.now = clock, !.pc = "activateEvent"]
    <3>2. /\ state \in JobState /\ state.pc = "activateEvent"
          /\ state.id = job[q].id /\ state.stage = job[q].stage
          /\ state.work = job[q].work /\ state.batch = job[q].batch
      BY <1>0 DEF Typed, JobState, Pcs, Serving, Activating
    <3>3. Becomes(q, state)
      BY <2>0, <2>2
    <3>. HIDE DEF state, refused
    <3>4. job' \in [Jobs -> JobState] /\ OthersKeep(q) /\ job'[q] = state
      BY <1>0, <3>2, <3>3, Becoming DEF Typed
    <3>5. Holds(q)'
      BY <1>0, <2>1, <3>2, <3>4 DEF At, Typed, Holds, Serving, Routes, Ending, Activating
    <3>. QED
      BY <1>0, <3>4, <3>5, <1>10, TypedReads DEF ActivateCheck
  <2>3. CASE refused
    BY <1>0, <1>10, <2>0, <2>3, Finishes, TypedReads DEF ActivateCheck
  <2>. QED
    BY <2>2, <2>3
<1>. QED
  BY <1>1, <1>2, <1>3, <1>4, <1>5, <1>6, <1>7, <1>8, <1>9, <1>10 DEF Route

LEMMA TypedArrive ==
    ASSUME Typed, NEW q \in Requests, Arrive(q)
    PROVE  Typed'
<1>0. q \in Jobs /\ q # Scheduler
  BY JobsAre
<1>1. PICK route \in Routes, e \in Events, body \in Bodies :
         /\ route = "schedule" => IsWindow(body.starts, body.ends)
         /\ route \notin {"put", "schedule"} => body.starts = NoRow /\ body.ends = NoRow
         /\ route = "create" => body.content # NoRow
         /\ route \notin {"put", "create"} => body.content = NoRow
         /\ Becomes(q, [Blank EXCEPT !.pc = route, !.id = e, !.body = body])
  BY Zenon DEF Arrive
<1>2. body \in Body
  BY EventAssumption
<1>. DEFINE state == [Blank EXCEPT !.pc = route, !.id = e, !.body = body]
<1>3. /\ state \in JobState /\ state.pc = route /\ state.id = e /\ state.body = body
      /\ state.stage = "none" /\ state.work = {} /\ state.batch = {}
  BY <1>2, Blanks DEF Blank, JobState, Pcs, Serving
<1>4. Becomes(q, state)
  BY <1>1
<1>. HIDE DEF state
<1>5. job' \in [Jobs -> JobState] /\ OthersKeep(q) /\ job'[q] = state
  BY <1>0, <1>3, <1>4, Becoming DEF Typed
<1>6. /\ route = "create" => body.content \in Contents
      /\ route = "schedule" => body.starts \in Times /\ body.ends \in Times
  BY <1>1, <1>2 DEF Body, IsWindow, Times
<1>7. Holds(q)'
  BY <1>0, <1>2, <1>3, <1>5, <1>6 DEF Holds, Serving, Routes, Ending, Activating
<1>. QED
  BY <1>0, <1>5, <1>7, TypedReads DEF Arrive

LEMMA TypedInit == ASSUME Init PROVE Typed
<1>1. PICK created \in SUBSET Events, c \in Contents :
         rows = Seeded([e \in Events |-> IF e \in created THEN Draft(c) ELSE NoRow])
  BY DEF Init
<1>2. rows \in [Events -> Row \cup {NoRow}]
  BY <1>1, Seeds, DraftIsRow
<1>3. Starting \in JobState /\ Starting.pc = "list" /\ Starting.stage = "materialize" /\ Starting.work = {}
      /\ Starting.now = 0 /\ Starting.batch = {}
  BY DEF Blank, Starting, JobState, Pcs, Stages
<1>. DEFINE unsent == [Blank EXCEPT !.pc = "unsent"]
<1>4. unsent \in JobState /\ unsent.pc = "unsent" /\ unsent.work = {} /\ unsent.stage = "none"
  BY DEF Blank, JobState, Pcs, Stages
<1>5. job = [p \in Jobs |-> IF p = Scheduler THEN Starting ELSE unsent]
  BY DEF Init
<1>. HIDE DEF unsent
<1>6. job \in [Jobs -> JobState]
  BY <1>3, <1>4, <1>5
<1>7. \A p \in Jobs : Holds(p)
  BY <1>3, <1>4, <1>5 DEF Holds, Serving, Routes, Ending, Activating
<1>. QED
  BY <1>2, <1>6, <1>7 DEF Init, Typed

LEMMA TypedStep == ASSUME Typed, [Next]_vars PROVE Typed'
<1>1. CASE Tick
  BY <1>1 DEF Tick, Typed, Holds
<1>2. CASE RunScheduler
  <2>. DEFINE state == [Starting EXCEPT !.now = clock]
  <2>1. /\ state \in JobState /\ state.pc = "list" /\ state.stage = "materialize"
        /\ state.work = {} /\ state.batch = {}
    BY DEF Blank, Starting, JobState, Pcs, Stages, Typed
  <2>2. Becomes(Scheduler, state)
    BY <1>2 DEF RunScheduler
  <2>. HIDE DEF state
  <2>3. job' \in [Jobs -> JobState] /\ OthersKeep(Scheduler) /\ job'[Scheduler] = state
    BY <2>1, <2>2, JobsAre, Becoming DEF Typed
  <2>4. Holds(Scheduler)'
    BY <2>1, <2>3 DEF Holds, Serving, Routes, Ending, Activating
  <2>5. \A p \in Jobs : Holds(p)'
    BY <2>3, <2>4, JobsAre, HoldsElsewhere DEF Typed
  <2>. QED
    BY <1>2, <2>3, <2>5 DEF RunScheduler, Quiet, Typed
<1>3. ASSUME NEW q \in Requests, Arrive(q)
      PROVE  Typed'
  BY <1>3, TypedArrive
<1>4. ASSUME NEW p \in Jobs, Advance(p)
      PROVE  Typed'
  BY <1>4, TypedService, TypedSweep, TypedRoute DEF Advance
<1>5. ASSUME NEW p \in Jobs, Throw(p)
      PROVE  Typed'
  <2>1. job' \in [Jobs -> JobState] /\ OthersKeep(p) /\ Holds(p)'
    BY <1>5, Finishes DEF Throw
  <2>2. \A r \in Jobs : Holds(r)'
    BY <2>1, HoldsElsewhere DEF Typed
  <2>. QED
    BY <1>5, <2>1, <2>2 DEF Throw, Typed
<1>6. CASE Restart
  <2>. DEFINE state == [Starting EXCEPT !.now = clock]
  <2>1. /\ state \in JobState /\ state.pc = "list" /\ state.stage = "materialize"
        /\ state.work = {} /\ state.batch = {}
    BY DEF Blank, Starting, JobState, Pcs, Stages, Typed
  <2>2. Blank \in JobState /\ Blank.pc = "done" /\ Blank.work = {} /\ Blank.batch = {} /\ Blank.stage = "none"
    BY DEF Blank, JobState, Pcs, Stages
  <2>3. job' = [p \in Jobs |->
                  IF p = Scheduler THEN state ELSE IF At(p, "unsent") THEN job[p] ELSE Blank]
    BY <1>6 DEF Restart
  <2>. HIDE DEF state
  <2>4. job' \in [Jobs -> JobState]
    BY <2>1, <2>2, <2>3 DEF Typed
  <2>5. \A p \in Jobs : Holds(p)'
    <3>. SUFFICES ASSUME NEW p \in Jobs PROVE Holds(p)'
      OBVIOUS
    <3>1. CASE p = Scheduler
      BY <2>1, <2>3, <3>1 DEF Holds, Serving, Routes, Ending, Activating
    <3>2. CASE p # Scheduler /\ job'[p] = Blank
      BY <2>2, <3>2 DEF Holds, Serving, Routes, Ending, Activating
    <3>3. CASE p # Scheduler /\ job'[p] = job[p]
      BY <3>3 DEF Typed, Holds
    <3>. QED
      BY <2>3, <3>1, <3>2, <3>3
  <2>6. rows' \in [Events -> Row \cup {NoRow}]
    BY <1>6, Seeds DEF Restart, Typed
  <2>7. clock' \in Nat /\ mishaps' \in Nat /\ swept' \in {"no", "running", "yes"}
    BY <1>6 DEF Restart, Typed
  <2>8. up' \in BOOLEAN
    BY <1>6, Zenon DEF Restart
  <2>. QED
    BY <2>4, <2>5, <2>6, <2>7, <2>8 DEF Typed
<1>7. CASE UNCHANGED vars
  BY <1>7 DEF vars, Typed, Holds
<1>. QED
  BY <1>1, <1>2, <1>3, <1>4, <1>5, <1>6, <1>7 DEF Next

LEMMA AlwaysTyped == Spec => []Typed
BY TypedInit, TypedStep, PTL DEF Spec

\* The rows and every handler's local state keep their types, on either driver.
THEOREM TypeCorrect == Spec => []TypeOK
<1>1. Typed => TypeOK
  BY DEF Typed, TypeOK, JobState, Item, Holds
<1>. QED
  BY <1>1, AlwaysTyped, PTL

-----------------------------------------------------------------------------
(***************************************************************************)
(* One handler at a time.                                                  *)
(***************************************************************************)

\* What the handler in flight has read is still so, and of its list only what it
\* activates will stay active.
UpToDate(p) ==
    /\ job[p].pc = "put_put" => rows[job[p].id] = job[p].row
    /\ job[p].pc = "activateEvent_others" => Active \subseteq job[p].others \cup {job[p].id}

Alone ==
    /\ \A p, q \in InFlight : p = q
    /\ \A p \in Jobs : UpToDate(p)
    /\ \A a, b \in Active : a = b

LEMMA GoPc ==
    ASSUME job \in [Jobs -> JobState], NEW p \in Jobs, NEW pc, Go(p, pc)
    PROVE  OthersKeep(p) /\ job'[p].pc = pc
<1>1. CASE pc = "done"
  BY <1>1, GoDone
<1>2. CASE pc # "done"
  <2>. DEFINE state == [job[p] EXCEPT !.pc = pc]
  <2>1. state.pc = pc
    BY DEF JobState
  <2>2. Becomes(p, state)
    BY <1>2 DEF Go
  <2>. HIDE DEF state
  <2>. QED
    BY <2>1, <2>2 DEF Becomes, OthersKeep
<1>. QED
  BY <1>1, <1>2

LEMMA RoomIsIdle ==
    ASSUME MaxInFlight = 1, Alone, Room
    PROVE  InFlight = {}
<1>. SUFFICES ASSUME InFlight # {} PROVE FALSE
  OBVIOUS
<1>1. PICK p : p \in InFlight
  OBVIOUS
<1>2. InFlight = {p}
  BY <1>1 DEF Alone
<1>3. Cardinality(InFlight) = 1
  BY <1>2, FS_Singleton
<1>. QED
  BY <1>3 DEF Room

\* A step of the handler in flight is nobody else's.
LEMMA AloneWrites ==
    ASSUME Alone, NEW p \in Jobs, InFlight \subseteq {p}, OthersKeep(p), UpToDate(p)',
           \A a, b \in Active' : a = b
    PROVE  Alone'
<1>1. \A q \in Jobs \ {p} : job'[q].pc \in {"unsent", "done"}
  BY DEF InFlight, OthersKeep
<1>2. InFlight' \subseteq {p}
  BY <1>1 DEF InFlight
<1>3. \A q \in Jobs : UpToDate(q)'
  BY <1>1 DEF UpToDate
<1>. QED
  BY <1>2, <1>3 DEF Alone

LEMMA AloneReads ==
    ASSUME Alone, NEW p \in Jobs, InFlight \subseteq {p}, OthersKeep(p), UpToDate(p)', rows' = rows
    PROVE  Alone'
<1>1. Active' = Active
  BY DEF Active, WithStatus, Exists
<1>. QED
  BY <1>1, AloneWrites DEF Alone

LEMMA AloneGoes ==
    ASSUME Typed, Alone, NEW p \in Jobs, InFlight \subseteq {p}, NEW pc, Go(p, pc),
           pc \notin {"put_put", "activateEvent_others"}, Active' \subseteq Active
    PROVE  Alone'
<1>1. OthersKeep(p) /\ job'[p].pc = pc
  BY GoPc DEF Typed
<1>2. UpToDate(p)'
  BY <1>1 DEF UpToDate
<1>. QED
  BY <1>1, <1>2, AloneWrites DEF Alone

LEMMA ReadsKeepActive == Read => Active' = Active /\ rows' = rows
BY DEF Read, Active, WithStatus, Exists

\* A statement that leaves its row draft, scheduled, ended or gone, or as active
\* as it was, activates nothing.
LEMMA Shrinks ==
    ASSUME NEW e \in Events, OtherRowsKeep(e),
           \/ rows'[e] = NoRow
           \/ rows'[e].status # "active"
           \/ rows[e] # NoRow /\ rows[e].status = "active"
    PROVE  Active' \subseteq Active
BY DEF Active, WithStatus, Exists, OtherRowsKeep

LEMMA SetsShrink ==
    ASSUME Typed, NEW e \in Events, NEW status \in Statuses \ {"active"},
           \/ SetEventStatus(e, status)
           \/ \E starts, ends \in Times : SetStatusAndWindow(e, status, starts, ends)
    PROVE  Active' \subseteq Active \ {e}
<1>1. /\ OtherRowsKeep(e)
      /\ rows'[e] = NoRow \/ rows'[e].status = status
  BY SetsStatus, SetsWindow DEF Typed
<1>. QED
  BY <1>1 DEF Active, WithStatus, Exists, OtherRowsKeep

LEMMA AloneService ==
    ASSUME Typed, Alone, NEW p \in InFlight, Service(p)
    PROVE  Alone'
<1>0. p \in Jobs /\ InFlight \subseteq {p}
  BY DEF InFlight, Alone
<1>. DEFINE id == job[p].id
<1>1. CASE EndEvent(p)
  <2>1. PICK pc : Go(p, pc) /\ pc \in {"endEvent_set", "loop", "done"}
    BY <1>1 DEF EndEvent, Resume
  <2>. QED
    BY <1>0, <1>1, <2>1, AloneGoes, ReadsKeepActive DEF EndEvent
<1>2. CASE EndEventSet(p)
  <2>1. id \in Events /\ "ended" \in Statuses \ {"active"} /\ SetEventStatus(id, "ended")
    BY <1>0, <1>2 DEF EndEventSet, At, Typed, Holds, Serving, Ending, Statuses
  <2>2. PICK pc : Go(p, pc) /\ pc \in {"loop", "done"}
    BY <1>2 DEF EndEventSet, Resume
  <2>3. Active' \subseteq Active
    BY <2>1, SetsShrink
  <2>. QED
    BY <1>0, <2>2, <2>3, AloneGoes
<1>3. CASE ActivateEvent(p)
  <2>. DEFINE row == rows[id]
  <2>1. CASE Activatable(row, job[p].now)
    <3>. DEFINE state == [job[p] EXCEPT !.row = row, !.pc = "activateEvent_list"]
    <3>1. Becomes(p, state)
      BY <1>3, <2>1 DEF ActivateEvent
    <3>2. state.pc = "activateEvent_list"
      BY <1>0 DEF Typed, JobState
    <3>. HIDE DEF state
    <3>3. OthersKeep(p) /\ job'[p].pc = "activateEvent_list"
      BY <1>0, <3>1, <3>2 DEF Becomes, OthersKeep, Typed
    <3>4. UpToDate(p)'
      BY <3>3 DEF UpToDate
    <3>. QED
      BY <1>0, <1>3, <3>3, <3>4, AloneReads, ReadsKeepActive DEF ActivateEvent
  <2>2. CASE ~ Activatable(row, job[p].now)
    <3>1. PICK pc : Go(p, pc) /\ pc \in {"loop", "done"}
      BY <1>3, <2>2 DEF ActivateEvent, Resume
    <3>. QED
      BY <1>0, <1>3, <3>1, AloneGoes, ReadsKeepActive DEF ActivateEvent
  <2>. QED
    BY <2>1, <2>2
<1>4. CASE ActivateEventList(p)
  <2>. DEFINE found == Active \ {id}
              state == [job[p] EXCEPT !.others = found, !.pc = "activateEvent_others"]
  <2>1. Becomes(p, state)
    BY <1>4 DEF ActivateEventList
  <2>2. state.pc = "activateEvent_others" /\ state.others = found /\ state.id = id
    BY <1>0 DEF Typed, JobState
  <2>. HIDE DEF state
  <2>3. OthersKeep(p) /\ job'[p] = state
    BY <1>0, <2>1 DEF Becomes, OthersKeep, Typed
  <2>4. Active' \subseteq job'[p].others \cup {job'[p].id}
    BY <1>4, <2>2, <2>3, ReadsKeepActive DEF ActivateEventList
  <2>5. UpToDate(p)'
    BY <2>2, <2>3, <2>4 DEF UpToDate
  <2>. QED
    BY <1>0, <1>4, <2>3, <2>5, AloneReads, ReadsKeepActive DEF ActivateEventList
<1>5. CASE EndOther(p)
  <2>1. PICK other \in job[p].others :
           /\ SetEventStatus(other, "ended")
           /\ Becomes(p, [job[p] EXCEPT !.others = @ \ {other}])
    BY <1>5 DEF EndOther
  <2>2. other \in Events /\ "ended" \in Statuses \ {"active"}
    BY <1>0 DEF Typed, JobState, Statuses
  <2>3. Active' \subseteq Active \ {other}
    BY <2>1, <2>2, SetsShrink
  <2>. DEFINE state == [job[p] EXCEPT !.others = @ \ {other}]
  <2>4. state.pc = job[p].pc /\ state.others = job[p].others \ {other} /\ state.id = id
    BY <1>0 DEF Typed, JobState
  <2>5. Becomes(p, state)
    BY <2>1
  <2>. HIDE DEF state
  <2>6. OthersKeep(p) /\ job'[p] = state
    BY <1>0, <2>5 DEF Becomes, OthersKeep, Typed
  <2>7. job[p].pc = "activateEvent_others" /\ Active \subseteq job[p].others \cup {id}
    BY <1>0, <1>5 DEF EndOther, At, Alone, UpToDate
  <2>8. UpToDate(p)'
    BY <2>3, <2>4, <2>6, <2>7 DEF UpToDate
  <2>. QED
    BY <1>0, <2>3, <2>6, <2>8, AloneWrites DEF Alone
<1>6. CASE ActivateEventSet(p)
  <2>1. id \in Events /\ job[p].row \in Row /\ job[p].now \in Nat /\ "active" \in Statuses
    BY <1>0, <1>6 DEF ActivateEventSet, At, Typed, Holds, JobState, Serving, Activating, Statuses
  <2>. DEFINE starts == IF job[p].row.starts = NoTime THEN job[p].now ELSE job[p].row.starts
  <2>2. starts \in Times /\ job[p].row.ends \in Times
    BY <2>1 DEF Row, Times
  <2>3. SetStatusAndWindow(id, "active", starts, job[p].row.ends)
    BY <1>6 DEF ActivateEventSet
  <2>4. OtherRowsKeep(id)
    BY <2>1, <2>2, <2>3, SetsWindow DEF Typed
  <2>5. Active \subseteq {id}
    BY <1>0, <1>6 DEF ActivateEventSet, At, Alone, UpToDate
  <2>6. \A a, b \in Active' : a = b
    BY <2>4, <2>5 DEF Active, WithStatus, Exists, OtherRowsKeep
  <2>7. PICK pc : Go(p, pc) /\ pc \in {"loop", "done"}
    BY <1>6 DEF ActivateEventSet, Resume
  <2>8. OthersKeep(p) /\ job'[p].pc = pc
    BY <1>0, <2>7, GoPc DEF Typed
  <2>9. UpToDate(p)'
    BY <2>7, <2>8 DEF UpToDate
  <2>. QED
    BY <1>0, <2>6, <2>8, <2>9, AloneWrites
<1>. QED
  BY <1>1, <1>2, <1>3, <1>4, <1>5, <1>6 DEF Service

LEMMA AloneSweep ==
    ASSUME Typed, Alone, Scheduler \in InFlight, Sweep
    PROVE  Alone'
<1>0. Scheduler \in Jobs /\ InFlight \subseteq {Scheduler}
  BY DEF InFlight, Alone
<1>1. CASE ListStage
  <2>1. Run.stage # "none"
    BY <1>0, <1>1 DEF ListStage, At, Typed, Holds, Run
  <2>2. OthersKeep(Scheduler) /\ UpToDate(Scheduler)'
    BY <1>1, <2>1, ListStageDoes DEF UpToDate, Run
  <2>. QED
    BY <1>0, <1>1, <2>2, AloneReads, ReadsKeepActive DEF ListStage
<1>2. CASE MaterializeOne
  <2>1. PICK item \in Run.work :
           LET w == NextOccurrence(item.id, Run.now) IN
           /\ SetStatusAndWindow(item.id, "scheduled", w.starts, w.ends)
           /\ Becomes(Scheduler, [Run EXCEPT !.work = @ \ {item}])
    BY <1>2 DEF MaterializeOne, Run
  <2>2. OthersKeep(Scheduler) /\ Run'.pc = "loop"
    BY <1>2, <2>1, MaterializeOneDoes DEF MaterializeOne, At, Run
  <2>3. UpToDate(Scheduler)'
    BY <2>2 DEF UpToDate, Run
  <2>4. item.id \in Events /\ item.id \in Recurring /\ Run.now \in Nat
    BY <1>2, <1>0, ItemsAre, RunTypes DEF MaterializeOne, Typed, Holds, Run
  <2>. DEFINE w == NextOccurrence(item.id, Run.now)
  <2>5. w.starts \in Times /\ w.ends \in Times /\ "scheduled" \in Statuses \ {"active"}
    BY <2>4, Occurrence DEF Statuses, Times
  <2>6. SetStatusAndWindow(item.id, "scheduled", w.starts, w.ends)
    BY <2>1
  <2>. HIDE DEF w
  <2>7. Active' \subseteq Active
    BY <2>4, <2>5, <2>6, SetsShrink
  <2>. QED
    BY <1>0, <2>2, <2>3, <2>7, AloneWrites DEF Alone
<1>3. ASSUME NEW item \in Run.work, NEW pc \in {"endEvent", "activateEvent"}, Take(item, pc), Read
      PROVE  Alone'
  <2>1. item.id \in Events /\ pc \in Pcs
    BY ItemsAre DEF Pcs, Serving, Ending, Activating
  <2>2. OthersKeep(Scheduler) /\ Run'.pc = pc
    BY <1>3, <2>1, TakeDoes
  <2>3. UpToDate(Scheduler)'
    BY <2>2 DEF UpToDate, Run
  <2>. QED
    BY <1>0, <1>3, <2>2, <2>3, AloneReads, ReadsKeepActive
<1>4. CASE ExpireOne
  BY <1>3, <1>4 DEF ExpireOne, Run
<1>5. CASE OpenOne
  <2>1. \A item : Fate(item) \in {"endEvent", "activateEvent"}
    BY DEF Fate
  <2>. QED
    BY <1>3, <1>5, <2>1 DEF OpenOne, Run
<1>6. CASE NextStage
  <2>1. OthersKeep(Scheduler) /\ UpToDate(Scheduler)'
    BY <1>6, NextStageDoes DEF UpToDate, Run
  <2>. QED
    BY <1>0, <1>6, <2>1, AloneReads, ReadsKeepActive DEF NextStage
<1>7. CASE FinishScheduler
  <2>1. Go(Scheduler, "done") /\ Active' = Active
    BY <1>7 DEF FinishScheduler, Active, WithStatus, Exists
  <2>. QED
    BY <1>0, <2>1, AloneGoes
<1>. QED
  BY <1>1, <1>2, <1>4, <1>5, <1>6, <1>7 DEF Sweep

LEMMA AloneRoute ==
    ASSUME Typed, Alone, NEW q \in InFlight, q \in Requests, Route(q)
    PROVE  Alone'
<1>0. q \in Jobs /\ InFlight \subseteq {q}
  BY DEF InFlight, Alone
<1>. DEFINE id == job[q].id
<1>1. CASE Create(q)
  <2>1. PICK pc : Go(q, pc) /\ pc \in {"done", "create_put"}
    BY <1>1 DEF Create
  <2>. QED
    BY <1>0, <1>1, <2>1, AloneGoes, ReadsKeepActive DEF Create
<1>2. CASE CreatePut(q)
  <2>1. id \in Events /\ job[q].body.content \in Contents
    BY <1>0, <1>2 DEF CreatePut, At, Typed, Holds, Serving
  <2>. DEFINE row == Draft(job[q].body.content)
  <2>2. row \in Row /\ row.status = "draft" /\ PutEvent(id, row)
    BY <1>2, <2>1, DraftIsRow DEF CreatePut
  <2>. HIDE DEF row
  <2>3. OtherRowsKeep(id) /\ rows'[id].status # "active"
    BY <2>1, <2>2, Puts DEF Typed
  <2>4. Active' \subseteq Active
    BY <2>1, <2>3, Shrinks
  <2>. QED
    BY <1>0, <1>2, <2>4, AloneGoes DEF CreatePut
<1>3. CASE Put(q)
  <2>. DEFINE existing == rows[id]
              refused == ~ Editable(existing, job[q].body)
  <2>1. CASE ~ refused
    <3>. DEFINE state == [job[q] EXCEPT !.row = existing, !.pc = "put_put"]
    <3>1. Becomes(q, state)
      BY <1>3, <2>1 DEF Put
    <3>2. state.pc = "put_put" /\ state.row = existing /\ state.id = id
      BY <1>0 DEF Typed, JobState
    <3>. HIDE DEF state
    <3>3. OthersKeep(q) /\ job'[q] = state
      BY <1>0, <3>1 DEF Becomes, OthersKeep, Typed
    <3>4. rows' = rows
      BY <1>3, ReadsKeepActive DEF Put
    <3>5. UpToDate(q)'
      BY <3>2, <3>3, <3>4 DEF UpToDate
    <3>. QED
      BY <1>0, <3>3, <3>4, <3>5, AloneReads
  <2>2. CASE refused
    BY <1>0, <1>3, <2>2, AloneGoes, ReadsKeepActive DEF Put
  <2>. QED
    BY <2>1, <2>2
<1>4. CASE PutPut(q)
  <2>1. id \in Events /\ job[q].row \in Row /\ job[q].row = rows[id]
    BY <1>0, <1>4 DEF PutPut, At, Typed, Holds, Serving, Alone, UpToDate
  <2>2. PICK row : PutEvent(id, row) /\ row.status = job[q].row.status
    BY <1>4 DEF PutPut, Edited
  <2>3. OtherRowsKeep(id) /\ rows'[id] = row
    BY <2>1, <2>2 DEF Typed, PutEvent, OtherRowsKeep
  <2>4. rows[id] # NoRow
    BY <2>1, EventAssumption
  <2>5. Active' \subseteq Active
    BY <2>1, <2>2, <2>3, <2>4, Shrinks
  <2>. QED
    BY <1>0, <1>4, <2>5, AloneGoes DEF PutPut
<1>5. CASE Delete(q)
  <2>1. PICK pc : Go(q, pc) /\ pc \in {"done", "delete_delete"}
    BY <1>5 DEF Delete
  <2>. QED
    BY <1>0, <1>5, <2>1, AloneGoes, ReadsKeepActive DEF Delete
<1>6. CASE DeleteDelete(q)
  <2>1. id \in Events
    BY <1>0, <1>6 DEF DeleteDelete, At, Typed, Holds, Serving
  <2>2. OtherRowsKeep(id) /\ rows'[id] = NoRow
    BY <1>6, <2>1 DEF DeleteDelete, Typed, OtherRowsKeep
  <2>3. Active' \subseteq Active
    BY <2>1, <2>2, Shrinks
  <2>. QED
    BY <1>0, <1>6, <2>3, AloneGoes DEF DeleteDelete
<1>7. CASE Schedule(q)
  <2>1. PICK pc : Go(q, pc) /\ pc \in {"done", "schedule_set"}
    BY <1>7 DEF Schedule
  <2>. QED
    BY <1>0, <1>7, <2>1, AloneGoes, ReadsKeepActive DEF Schedule
<1>8. CASE ScheduleSet(q)
  <2>1. /\ id \in Events /\ "scheduled" \in Statuses \ {"active"}
        /\ job[q].body.starts \in Times /\ job[q].body.ends \in Times
    BY <1>0, <1>8, EventAssumption DEF ScheduleSet, At, Typed, Holds, Serving, Statuses, Times
  <2>2. Active' \subseteq Active
    BY <1>8, <2>1, SetsShrink DEF ScheduleSet
  <2>. QED
    BY <1>0, <1>8, <2>2, AloneGoes DEF ScheduleSet
<1>9. CASE Activate(q)
  <2>1. CASE Exists(id)
    <3>. DEFINE state == [job[q] EXCEPT !.row = rows[id], !.pc = "activate_check"]
    <3>1. Becomes(q, state)
      BY <1>9, <2>1 DEF Activate
    <3>2. state.pc = "activate_check"
      BY <1>0 DEF Typed, JobState
    <3>. HIDE DEF state
    <3>3. OthersKeep(q) /\ job'[q] = state
      BY <1>0, <3>1 DEF Becomes, OthersKeep, Typed
    <3>4. UpToDate(q)'
      BY <3>2, <3>3 DEF UpToDate
    <3>. QED
      BY <1>0, <1>9, <3>3, <3>4, AloneReads, ReadsKeepActive DEF Activate
  <2>2. CASE ~ Exists(id)
    BY <1>0, <1>9, <2>2, AloneGoes, ReadsKeepActive DEF Activate
  <2>. QED
    BY <2>1, <2>2
<1>10. CASE ActivateCheck(q)
  <2>0. PICK active \in GetActiveEvent :
          LET refused == active \notin {NoRow, id} \/ ~ Activatable(job[q].row, clock) IN
          IF refused THEN Go(q, "done")
          ELSE Becomes(q, [job[q] EXCEPT !.now = clock, !.pc = "activateEvent"])
    BY <1>10 DEF ActivateCheck
  <2>. DEFINE refused == active \notin {NoRow, id} \/ ~ Activatable(job[q].row, clock)
  <2>1. CASE ~ refused
    <3>. DEFINE state == [job[q] EXCEPT !.now = clock, !.pc = "activateEvent"]
    <3>1. Becomes(q, state)
      BY <2>0, <2>1
    <3>2. state.pc = "activateEvent"
      BY <1>0 DEF Typed, JobState
    <3>. HIDE DEF state
    <3>3. OthersKeep(q) /\ job'[q] = state
      BY <1>0, <3>1 DEF Becomes, OthersKeep, Typed
    <3>4. UpToDate(q)'
      BY <3>2, <3>3 DEF UpToDate
    <3>. QED
      BY <1>0, <1>10, <3>3, <3>4, AloneReads, ReadsKeepActive DEF ActivateCheck
  <2>2. CASE refused
    BY <1>0, <1>10, <2>0, <2>2, AloneGoes, ReadsKeepActive DEF ActivateCheck
  <2>. QED
    BY <2>1, <2>2
<1>. QED
  BY <1>1, <1>2, <1>3, <1>4, <1>5, <1>6, <1>7, <1>8, <1>9, <1>10 DEF Route

LEMMA AloneInit == ASSUME Init PROVE Alone
<1>1. PICK created \in SUBSET Events, c \in Contents :
         rows = Seeded([e \in Events |-> IF e \in created THEN Draft(c) ELSE NoRow])
  BY DEF Init
<1>2. Active = {}
  BY <1>1, Seeds, DraftIsRow DEF Active, WithStatus, Exists
<1>3. \A p \in Jobs : job[p].pc = IF p = Scheduler THEN "list" ELSE "unsent"
  BY DEF Init, Blank, Starting
<1>4. InFlight \subseteq {Scheduler}
  BY <1>3 DEF InFlight
<1>. QED
  BY <1>2, <1>3, <1>4 DEF Alone, UpToDate

LEMMA AloneStep ==
    ASSUME MaxInFlight = 1, Typed, Alone, [Next]_vars
    PROVE  Alone'
<1>1. CASE UNCHANGED <<rows, job>>
  BY <1>1 DEF Alone, UpToDate, InFlight, Active, WithStatus, Exists
<1>2. CASE RunScheduler
  <2>. DEFINE state == [Starting EXCEPT !.now = clock]
  <2>1. state.pc = "list" /\ Becomes(Scheduler, state)
    BY <1>2 DEF RunScheduler, Starting, Blank
  <2>. HIDE DEF state
  <2>2. OthersKeep(Scheduler) /\ UpToDate(Scheduler)'
    BY <2>1, JobsAre DEF Becomes, OthersKeep, UpToDate, Typed
  <2>. QED
    BY <1>2, <2>2, JobsAre, RoomIsIdle, AloneReads DEF RunScheduler
<1>3. ASSUME NEW q \in Requests, Arrive(q)
      PROVE  Alone'
  <2>1. PICK route \in Routes, e \in Events, body \in Bodies :
           /\ route = "schedule" => IsWindow(body.starts, body.ends)
           /\ route \notin {"put", "schedule"} => body.starts = NoRow /\ body.ends = NoRow
           /\ route = "create" => body.content # NoRow
           /\ route \notin {"put", "create"} => body.content = NoRow
           /\ Becomes(q, [Blank EXCEPT !.pc = route, !.id = e, !.body = body])
    BY <1>3, Zenon DEF Arrive
  <2>. DEFINE state == [Blank EXCEPT !.pc = route, !.id = e, !.body = body]
  <2>2. state.pc = route /\ Becomes(q, state)
    BY <2>1 DEF Blank
  <2>. HIDE DEF state
  <2>3. OthersKeep(q) /\ UpToDate(q)'
    BY <2>2, JobsAre DEF Becomes, OthersKeep, UpToDate, Typed, Routes
  <2>4. Room /\ rows' = rows
    BY <1>3 DEF Arrive, Read
  <2>. QED
    BY <2>3, <2>4, JobsAre, RoomIsIdle, AloneReads
<1>4. ASSUME NEW p \in Jobs, Advance(p)
      PROVE  Alone'
  <2>1. CASE Service(p)
    <3>1. p \in InFlight
      BY <2>1 DEF Service, EndEvent, EndEventSet, ActivateEvent, ActivateEventList, EndOther,
                  ActivateEventSet, At, InFlight
    <3>. QED
      BY <2>1, <3>1, AloneService
  <2>2. CASE p = Scheduler /\ Sweep
    <3>1. p \in InFlight
      BY <2>2 DEF Sweep, ListStage, MaterializeOne, ExpireOne, OpenOne, NextStage, FinishScheduler,
                  At, InFlight
    <3>. QED
      BY <2>2, <3>1, AloneSweep
  <2>3. CASE p \in Requests /\ Route(p)
    <3>1. p \in InFlight
      BY <2>3 DEF Route, Create, CreatePut, Put, PutPut, Delete, DeleteDelete, Schedule, ScheduleSet,
                  Activate, ActivateCheck, At, InFlight
    <3>. QED
      BY <2>3, <3>1, AloneRoute
  <2>. QED
    BY <1>4, <2>1, <2>2, <2>3 DEF Advance
<1>5. ASSUME NEW p \in Jobs, Throw(p)
      PROVE  Alone'
  <2>1. InFlight \subseteq {p} /\ Go(p, "done") /\ Active' = Active
    BY <1>5 DEF Throw, Alone, Active, WithStatus, Exists
  <2>. QED
    BY <2>1, AloneGoes
<1>6. CASE Restart
  <2>1. Active' \subseteq Active
    BY <1>6, Seeds DEF Restart, Active, WithStatus, Exists, Typed
  <2>2. \A p \in Jobs : job'[p].pc \in IF p = Scheduler THEN {"list"} ELSE {"unsent", "done"}
    BY <1>6 DEF Restart, At, Starting, Blank
  <2>3. InFlight' \subseteq {Scheduler}
    BY <2>2 DEF InFlight
  <2>4. \A p \in Jobs : UpToDate(p)'
    BY <2>2 DEF UpToDate
  <2>. QED
    BY <2>1, <2>3, <2>4 DEF Alone
<1>. QED
  BY <1>1, <1>2, <1>3, <1>4, <1>5, <1>6 DEF Next, Tick, vars

\* Where no handler gets a turn while another awaits, as with the SQLite driver,
\* one event at most is active, whichever statements fail and wherever the
\* process dies; on Postgres two activations can overlap.
THEOREM OneAtATime ==
    ASSUME MaxInFlight = 1
    PROVE  Spec => []OneActive
<1>1. ASSUME Alone PROVE OneActive
  <2>1. CASE Active = {}
    BY <2>1, FS_EmptySet DEF OneActive
  <2>2. CASE Active # {}
    <3>1. PICK a : a \in Active
      BY <2>2
    <3>2. Active = {a}
      BY <1>1, <3>1 DEF Alone
    <3>3. Cardinality(Active) = 1
      BY <3>2, FS_Singleton
    <3>. QED
      BY <3>3 DEF OneActive
  <2>. QED
    BY <2>1, <2>2
<1>2. Typed /\ Alone /\ [Next]_vars => Alone'
  BY AloneStep
<1>. QED
  BY <1>1, <1>2, AloneInit, AlwaysTyped, PTL DEF Spec

-----------------------------------------------------------------------------
(***************************************************************************)
(* A scheduler run that nothing has disturbed.                             *)
(***************************************************************************)

InHand == IF Run.pc \in Ending \cup Activating THEN {Run.id} ELSE {}
Left == {i.id : i \in Run.work} \cup InHand
Done == Run.batch \ Run.work

\* Its window was open when the run listed it.
Live(i) == i.ends # NoTime /\ i.ends > Run.now

\* Every row still waiting is as it was listed.
AsListed(i) ==
    /\ Exists(i.id) /\ rows[i.id].status = "scheduled"
    /\ rows[i.id].starts = i.starts /\ rows[i.id].ends = i.ends

\* In its last stage the run works through its list in the order of the windows.
InOrder ==
    /\ \A i \in Run.batch : i.starts \in Nat
    /\ \A i, j \in Run.batch : i.id = j.id => i = j
    /\ \A i \in Done, j \in Run.work : Before(i, j)
    /\ \A i \in Run.work : AsListed(i)

\* The item of the event being activated or ended.
Handling ==
    /\ Run.pc \in Ending => \E i \in Done : i.id = Run.id /\ ~ Live(i)
    /\ Run.pc \in Activating =>
          \E i \in Done : i.id = Run.id /\ Live(i) /\ AsListed(i)
                          /\ \A j \in Done \ {i} : Before(j, i)
    /\ Run.pc \in {"activateEvent_list", "activateEvent_others"} =>
          Run.row = rows[Run.id]
    /\ Run.pc = "activateEvent_others" =>
          Run.others \subseteq Active /\ Active \subseteq Run.others

\* Between two activations the last one opened is the one that is active.
LastOpened ==
    Run.pc \notin Activating =>
        \A i \in Done : Live(i) /\ (\A j \in Done \ {i} : Live(j) => Before(j, i)) => Active = {i.id}

Opening == InOrder /\ Handling /\ LastOpened /\ ToOpen(clock) \subseteq Left

\* The expiry leaves nothing open past its end; nothing opened later is.
UnderWay ==
    /\ Run.pc \in {"list", "loop"} \cup Ending \cup Activating
    /\ Run.stage # "none" /\ Run.now = clock
    /\ Run.stage = "materialize" => Run.pc \in {"list", "loop"}
    /\ Run.stage = "expire" => Run.pc \notin Activating
    /\ Run.stage = "expire" /\ Run.pc # "list" => ToEnd(clock) \subseteq Left
    /\ Run.stage = "open" => ToEnd(clock) = {}
    /\ Run.stage = "open" /\ Run.pc # "list" => Opening

Sweeping ==
    /\ swept = "running" => UnderWay
    /\ swept = "yes" => Run.pc = "done"

SweepInv == Sweeping /\ SweepSettles

LEMMA SweepRests ==
    ASSUME SweepInv, Run' = Run, UNCHANGED <<rows, clock, swept>>
    PROVE  SweepInv'
BY DEF SweepInv, Sweeping, SweepSettles, UnderWay, Opening, InOrder, Handling, LastOpened, Left,
       InHand, Done, Live, AsListed, Latest, ToEnd, ToOpen, Active, WithStatus, Exists, Run

LEMMA SweepGivenUp == ASSUME swept' = "no" PROVE SweepInv'
BY DEF SweepInv, Sweeping, SweepSettles

LEMMA SweepBegins ==
    ASSUME swept' = "running", Run'.pc = "list", Run'.stage = "materialize", Run'.now = clock'
    PROVE  SweepInv'
BY DEF SweepInv, Sweeping, SweepSettles, UnderWay, Run, Ending, Activating

LEMMA NotToEnd ==
    ASSUME NEW e \in Events, OtherRowsKeep(e), clock' = clock,
           \/ rows'[e] = NoRow \/ rows'[e].status # "active"
           \/ ~ (rows'[e].ends # NoTime /\ rows'[e].ends <= clock)
    PROVE  ToEnd(clock)' \subseteq ToEnd(clock) \ {e}
BY DEF ToEnd, Active, WithStatus, Exists, OtherRowsKeep

LEMMA NotToOpen ==
    ASSUME NEW e \in Events, OtherRowsKeep(e), clock' = clock,
           rows'[e] = NoRow \/ rows'[e].status # "scheduled"
    PROVE  ToOpen(clock)' \subseteq ToOpen(clock) \ {e}
BY DEF ToOpen, WithStatus, Exists, OtherRowsKeep

LEMMA ListedKeeps ==
    ASSUME NEW e \in Events, OtherRowsKeep(e), NEW i, i.id \in Events, i.id # e, AsListed(i)
    PROVE  AsListed(i)'
BY DEF AsListed, OtherRowsKeep, Exists

LEMMA LessIsNotMore ==
    ASSUME NEW i \in Item, NEW j \in Item, i.starts \in Nat, j.starts \in Nat, Before(i, j)
    PROVE  ~ Before(j, i)
<1>1. i.id \in Nat /\ j.id \in Nat
  BY EventAssumption DEF Item
<1>. QED
  BY <1>1 DEF Before

(***************************************************************************)
(* The run's own steps.                                                    *)
(***************************************************************************)

\* A step of a run that goes on settles nothing yet.
LEMMA StillRunning ==
    ASSUME swept = "running", swept' = swept, UnderWay'
    PROVE  SweepInv'
BY DEF SweepInv, Sweeping, SweepSettles

LEMMA ReadKeepsTables ==
    ASSUME Read
    PROVE  /\ UNCHANGED <<rows, clock, swept>>
           /\ ToEnd(clock)' = ToEnd(clock) /\ ToOpen(clock)' = ToOpen(clock) /\ Active' = Active
           /\ \A i : AsListed(i)' <=> AsListed(i)
BY DEF Read, Quiet, ToEnd, ToOpen, Active, WithStatus, Exists, AsListed

LEMMA RunLists ==
    ASSUME Typed, UnderWay, ListStage
    PROVE  UnderWay'
<1>0. Run.stage \in Stages /\ Run.stage # "none" /\ Run.now = clock /\ clock \in Nat
  BY RunTypes DEF UnderWay, Typed
<1>1. /\ Run'.pc = "loop" /\ Run'.stage = Run.stage /\ Run'.now = clock'
      /\ Run'.work = Worklist(Run.stage, clock) /\ Run'.batch = Run'.work
  BY <1>0, ListStageDoes, ReadKeepsTables DEF ListStage
<1>2. /\ ToEnd(clock)' = ToEnd(clock) /\ ToOpen(clock)' = ToOpen(clock)
      /\ \A i : AsListed(i)' <=> AsListed(i)
  BY ReadKeepsTables DEF ListStage
<1>3. Run.stage = "open" => ToEnd(clock) = {}
  BY DEF UnderWay
<1>4. CASE Run.stage = "materialize"
  BY <1>0, <1>1, <1>4 DEF UnderWay, Ending, Activating, Run
<1>5. CASE Run.stage = "expire"
  <2>1. Run'.work = ListEvents(ToEnd(clock))
    BY <1>1, <1>5 DEF Worklist
  <2>2. ToEnd(clock) \in SUBSET Events /\ \A e \in ToEnd(clock) : rows[e] # NoRow
    BY DEF ToEnd, Active, WithStatus, Exists
  <2>3. \A e \in ToEnd(clock) : \E i \in Run'.work : i.id = e
    BY <2>1, <2>2, Lists DEF Typed
  <2>4. ToEnd(clock)' \subseteq Left'
    BY <1>2, <2>3 DEF Left, Run
  <2>. QED
    BY <1>0, <1>1, <1>5, <2>4 DEF UnderWay, Ending, Activating, Run
<1>6. CASE Run.stage = "open"
  <2>1. Run'.work = ListEvents(ToOpen(clock))
    BY <1>1, <1>6 DEF Worklist
  <2>2. /\ ToOpen(clock) \in SUBSET Events
        /\ \A e \in ToOpen(clock) : rows[e] # NoRow /\ rows[e].status = "scheduled"
                                    /\ rows[e].starts # NoTime
    BY DEF ToOpen, WithStatus, Exists
  <2>3. /\ \A e \in ToOpen(clock) : \E i \in Run'.work : i.id = e
        /\ \A i \in Run'.work : /\ i.id \in ToOpen(clock) /\ i \in Item
                                /\ i.starts = rows[i.id].starts /\ i.ends = rows[i.id].ends
        /\ \A i, k \in Run'.work : i.id = k.id => i = k
    BY <2>1, <2>2, Lists DEF Typed
  <2>4. \A i \in Run'.work : i.starts \in Nat /\ AsListed(i)
    BY <2>2, <2>3 DEF AsListed, Exists, Item, Times
  <2>5. Done' = {}
    BY <1>1 DEF Done, Run
  <2>6. InOrder'
    BY <1>1, <1>2, <2>3, <2>4, <2>5 DEF InOrder, Run
  <2>7. Handling' /\ LastOpened'
    BY <1>1, <2>5 DEF Handling, LastOpened, Ending, Activating, Run
  <2>8. ToOpen(clock)' \subseteq Left'
    BY <1>2, <2>3 DEF Left, Run
  <2>9. Opening'
    BY <2>6, <2>7, <2>8 DEF Opening
  <2>. QED
    BY <1>0, <1>1, <1>2, <1>3, <1>6, <2>9 DEF UnderWay, Ending, Activating, Run
<1>. QED
  BY <1>0, <1>4, <1>5, <1>6 DEF Stages

LEMMA RunMaterializes ==
    ASSUME Typed, UnderWay, MaterializeOne
    PROVE  UnderWay'
<1>1. PICK item \in Run.work : Becomes(Scheduler, [Run EXCEPT !.work = @ \ {item}])
  BY DEF MaterializeOne, Run
<1>2. /\ Run'.pc = "loop" /\ Run'.stage = "materialize" /\ Run'.now = Run.now /\ clock' = clock
  BY <1>1, MaterializeOneDoes DEF MaterializeOne, At, Run, Write, Quiet
<1>. QED
  BY <1>2 DEF UnderWay, Run, Ending, Activating

LEMMA RunExpires ==
    ASSUME Typed, UnderWay, ExpireOne
    PROVE  UnderWay'
<1>1. PICK item \in Run.work : Take(item, "endEvent")
  BY DEF ExpireOne, Run
<1>2. item.id \in Events /\ "endEvent" \in Pcs
  BY ItemsAre DEF Pcs, Serving, Ending
<1>3. /\ Run.pc = "loop" /\ Run.stage = "expire"
      /\ Run'.pc = "endEvent" /\ Run'.stage = "expire" /\ Run'.now = Run.now
      /\ Run'.id = item.id /\ Run'.work = Run.work \ {item}
  BY <1>1, <1>2, TakeDoes DEF ExpireOne, At, Run
<1>4. clock' = clock /\ ToEnd(clock)' = ToEnd(clock)
  BY ReadKeepsTables DEF ExpireOne
<1>5. InHand' = {item.id}
  BY <1>3 DEF InHand, Ending, Run
<1>6. Left' = {i.id : i \in Run.work \ {item}} \cup {item.id}
  BY <1>3, <1>5 DEF Left, Run
<1>7. Left \subseteq Left'
  BY <1>3, <1>6 DEF Left, InHand, Ending, Activating
<1>8. ToEnd(clock)' \subseteq Left'
  BY <1>3, <1>4, <1>7 DEF UnderWay
<1>. QED
  BY <1>3, <1>4, <1>8 DEF UnderWay, Ending, Activating, Run

LEMMA RunOpens ==
    ASSUME Typed, UnderWay, OpenOne
    PROVE  UnderWay'
<1>1. PICK item \in Run.work :
         Take(item, Fate(item)) /\ \A i \in Run.work \ {item} : Before(item, i)
  BY DEF OpenOne, Run
<1>. DEFINE pc == Fate(item)
<1>2. /\ item \in Run.batch /\ item.id \in Events /\ item.ends \in Times
      /\ pc \in Pcs /\ pc \in {"endEvent", "activateEvent"}
      /\ (pc = "activateEvent") <=> Live(item)
  <2>1. item \in Run.batch /\ item.id \in Events /\ item.ends \in Times /\ Run.now \in Nat
    BY ItemsAre, RunTypes
  <2>. QED
    BY <2>1, EventAssumption DEF Fate, Live, Run, Times, Pcs, Serving, Ending, Activating
<1>3. Take(item, pc)
  BY <1>1
<1>. HIDE DEF pc
<1>4. /\ Run.pc = "loop" /\ Run.stage = "open"
      /\ Run'.pc = pc /\ Run'.stage = "open" /\ Run'.now = Run.now
      /\ Run'.id = item.id /\ Run'.work = Run.work \ {item} /\ Run'.batch = Run.batch
  BY <1>2, <1>3, TakeDoes DEF OpenOne, At, Run
<1>5. /\ clock' = clock /\ rows' = rows /\ Active' = Active
      /\ ToEnd(clock)' = ToEnd(clock) /\ ToOpen(clock)' = ToOpen(clock)
      /\ \A i : AsListed(i)' <=> AsListed(i)
  BY ReadKeepsTables DEF OpenOne
<1>6. InOrder /\ LastOpened /\ ToOpen(clock) \subseteq Left /\ ToEnd(clock) = {} /\ Run.now = clock
  BY <1>4 DEF UnderWay, Opening
<1>7. Done' = Done \cup {item} /\ item \notin Done
  BY <1>2, <1>4 DEF Done, Run
<1>8. \A i : Live(i)' <=> Live(i)
  BY <1>4 DEF Live, Run
<1>9. InOrder'
  BY <1>1, <1>4, <1>5, <1>6, <1>7 DEF InOrder, Run
<1>10. Handling'
  <2>1. AsListed(item) /\ \A j \in Done : Before(j, item)
    BY <1>6 DEF InOrder
  <2>2. CASE pc = "endEvent"
    BY <1>2, <1>4, <1>7, <1>8, <2>2 DEF Handling, Ending, Activating, Run
  <2>3. CASE pc = "activateEvent"
    <3>1. \A j \in Done' \ {item} : Before(j, item)
      BY <1>7, <2>1
    <3>2. item.id = Run'.id /\ Live(item)' /\ AsListed(item)' /\ item \in Done'
      BY <1>2, <1>4, <1>5, <1>7, <1>8, <2>1, <2>3
    <3>. QED
      BY <1>4, <2>3, <3>1, <3>2 DEF Handling, Ending, Activating, Run
  <2>. QED
    BY <1>2, <2>2, <2>3
<1>11. LastOpened'
  <2>1. SUFFICES ASSUME pc = "endEvent", NEW i \in Done', Live(i),
                        \A j \in Done' \ {i} : Live(j) => Before(j, i)
                 PROVE  Active = {i.id}
    BY <1>2, <1>4, <1>5, <1>8 DEF LastOpened, Activating, Run
  <2>2. i \in Done
    BY <1>2, <1>7, <2>1
  <2>3. \A j \in Done \ {i} : Live(j) => Before(j, i)
    BY <1>7, <2>1
  <2>. QED
    BY <1>4, <1>6, <2>1, <2>2, <2>3 DEF LastOpened, Activating
<1>12. Left \subseteq Left'
  <2>1. InHand' = {item.id}
    BY <1>2, <1>4 DEF InHand, Ending, Activating, Run
  <2>2. Left' = {i.id : i \in Run.work \ {item}} \cup {item.id}
    BY <1>4, <2>1 DEF Left, Run
  <2>. QED
    BY <1>4, <2>2 DEF Left, InHand, Ending, Activating
<1>13. Opening'
  BY <1>5, <1>6, <1>9, <1>10, <1>11, <1>12 DEF Opening
<1>. QED
  BY <1>2, <1>4, <1>5, <1>6, <1>13 DEF UnderWay, Ending, Activating, Run

LEMMA RunTurns ==
    ASSUME Typed, UnderWay, NextStage
    PROVE  UnderWay'
<1>1. /\ Run'.pc = "list" /\ Run'.now = Run.now /\ Run.work = {}
      /\ Run.stage \in {"materialize", "expire"} /\ Run.pc = "loop"
      /\ Run'.stage = IF Run.stage = "materialize" THEN "expire" ELSE "open"
  BY NextStageDoes DEF NextStage, At, Run
<1>2. clock' = clock /\ ToEnd(clock)' = ToEnd(clock)
  BY ReadKeepsTables DEF NextStage
<1>3. Run.stage = "expire" => ToEnd(clock) = {}
  BY <1>1 DEF UnderWay, Left, InHand, Ending, Activating
<1>. QED
  BY <1>1, <1>2, <1>3 DEF UnderWay, Ending, Activating, Run

\* A run that ends undisturbed has settled everything.
LEMMA RunSettles ==
    ASSUME Typed, UnderWay, swept = "running", FinishScheduler
    PROVE  SweepInv'
<1>1. /\ Run.pc = "loop" /\ Run.stage = "open" /\ Run.work = {}
      /\ swept' = "yes" /\ UNCHANGED <<clock, rows>>
  BY DEF FinishScheduler, At, Run
<1>2. Run'.pc = "done" /\ Run'.batch = Run.batch
  BY GoDone, JobsAre DEF FinishScheduler, Typed, Run
<1>3. InOrder /\ LastOpened /\ ToOpen(clock) = {} /\ ToEnd(clock) = {} /\ Run.now = clock
  BY <1>1 DEF UnderWay, Opening, Left, InHand, Ending, Activating
<1>4. Done = Run.batch
  BY <1>1 DEF Done
<1>. DEFINE live == {i \in Run.batch : i.ends # NoTime /\ i.ends > clock}
            last == {k \in live : \A j \in live \ {k} : Before(j, k)}
<1>5. Latest = {i.id : i \in last}
  BY DEF Latest, Run
<1>6. live = {i \in Done : Live(i)}
  BY <1>3, <1>4 DEF Live
<1>. HIDE DEF live
<1>7. Latest # {} => Active = Latest
  <2>. SUFFICES ASSUME Latest # {} PROVE Active = Latest
    OBVIOUS
  <2>1. PICK k : k \in last
    BY <1>5
  <2>2. k \in Done /\ Live(k) /\ \A j \in Done \ {k} : Live(j) => Before(j, k)
    BY <1>6, <2>1
  <2>3. Active = {k.id}
    BY <1>1, <1>3, <2>2 DEF LastOpened, Activating
  <2>4. ASSUME NEW i \in last PROVE i = k
    <3>. SUFFICES ASSUME i # k PROVE FALSE
      OBVIOUS
    <3>1. Before(i, k) /\ Before(k, i)
      BY <2>1, <2>4
    <3>2. i \in Item /\ k \in Item /\ i.starts \in Nat /\ k.starts \in Nat
      BY <1>3, <1>4, <1>6, <2>1, <2>4, ItemsAre DEF InOrder
    <3>. QED
      BY <3>1, <3>2, LessIsNotMore
  <2>5. last = {k}
    BY <2>1, <2>4
  <2>. QED
    BY <1>5, <2>3, <2>5
<1>8. Latest' = Latest /\ Active' = Active /\ ToEnd(clock)' = ToEnd(clock) /\ ToOpen(clock)' = ToOpen(clock)
  BY <1>1, <1>2 DEF Latest, Active, ToEnd, ToOpen, WithStatus, Exists, Run
<1>9. SweepSettles'
  BY <1>3, <1>7, <1>8 DEF SweepSettles
<1>. QED
  BY <1>1, <1>2, <1>9 DEF SweepInv, Sweeping, Run

\* While the run awaits a service function, its list and its clock stand still.
LEMMA RunGoes ==
    ASSUME Typed, NEW pc \in {"loop", "endEvent_set"}, Go(Scheduler, pc)
    PROVE  /\ Run'.pc = pc /\ Run'.stage = Run.stage /\ Run'.now = Run.now /\ Run'.id = Run.id
           /\ Run'.row = Run.row /\ Run'.others = Run.others
           /\ Run'.work = Run.work /\ Run'.batch = Run.batch
           /\ Done' = Done /\ \A i : Live(i)' <=> Live(i)
<1>1. pc \in Pcs /\ pc # "done"
  BY DEF Pcs, Serving, Ending
<1>2. /\ Run'.pc = pc /\ Run'.stage = Run.stage /\ Run'.now = Run.now /\ Run'.id = Run.id
      /\ Run'.row = Run.row /\ Run'.others = Run.others
      /\ Run'.work = Run.work /\ Run'.batch = Run.batch
  BY <1>1, GoOn, JobsAre DEF Typed, Run
<1>. QED
  BY <1>2 DEF Done, Live, Run

LEMMA RunResumes == Go(Scheduler, Resume(Scheduler)) => Go(Scheduler, "loop")
BY DEF Resume

LEMMA RunEnds ==
    ASSUME Typed, UnderWay, EndEvent(Scheduler)
    PROVE  UnderWay'
<1>1. /\ Run.pc = "endEvent" /\ Run.id \in Events
      /\ Run.stage \in {"expire", "open"}
  BY JobsAre, RunTypes DEF EndEvent, At, Typed, Holds, Serving, Ending, UnderWay, Run, Stages
<1>2. PICK pc \in {"loop", "endEvent_set"} :
         Go(Scheduler, pc) /\ (pc = "loop" => ~ Exists(Run.id))
  BY RunResumes DEF EndEvent, Run
<1>3. /\ Run'.pc = pc /\ Run'.stage = Run.stage /\ Run'.now = Run.now /\ Run'.id = Run.id
      /\ Run'.work = Run.work /\ Run'.batch = Run.batch
      /\ Done' = Done /\ \A i : Live(i)' <=> Live(i)
  BY <1>2, RunGoes
<1>4. /\ clock' = clock /\ Active' = Active
      /\ ToEnd(clock)' = ToEnd(clock) /\ ToOpen(clock)' = ToOpen(clock)
      /\ \A i : AsListed(i)' <=> AsListed(i)
  BY ReadKeepsTables DEF EndEvent
<1>5. Left \ Left' \subseteq {Run.id} /\ (pc = "endEvent_set" => Left \subseteq Left')
  <2>1. Left = {i.id : i \in Run.work} \cup {Run.id}
    BY <1>1 DEF Left, InHand, Ending
  <2>2. {i.id : i \in Run.work} \subseteq Left'
    BY <1>3 DEF Left, Run
  <2>3. pc = "endEvent_set" => Run.id \in Left'
    BY <1>3 DEF Left, InHand, Ending, Run
  <2>. QED
    BY <2>1, <2>2, <2>3
<1>6. ~ Exists(Run.id) => Run.id \notin ToEnd(clock) /\ Run.id \notin ToOpen(clock)
  BY DEF ToEnd, ToOpen, Active, WithStatus
<1>7. CASE Run.stage = "expire"
  <2>1. ToEnd(clock)' \subseteq Left'
    BY <1>1, <1>2, <1>4, <1>5, <1>6, <1>7 DEF UnderWay
  <2>. QED
    BY <1>1, <1>2, <1>3, <1>4, <1>7, <2>1 DEF UnderWay, Ending, Activating, Run
<1>8. CASE Run.stage = "open"
  <2>1. InOrder /\ Handling /\ LastOpened /\ ToOpen(clock) \subseteq Left
    BY <1>1, <1>8 DEF UnderWay, Opening
  <2>2. InOrder'
    BY <1>3, <1>4, <2>1 DEF InOrder, Run
  <2>3. Handling'
    BY <1>1, <1>2, <1>3, <2>1 DEF Handling, Ending, Activating, Run
  <2>4. LastOpened'
    BY <1>1, <1>2, <1>3, <1>4, <2>1 DEF LastOpened, Activating, Run
  <2>5. ToOpen(clock)' \subseteq Left'
    BY <1>2, <1>4, <1>5, <1>6, <2>1
  <2>6. Opening'
    BY <2>2, <2>3, <2>4, <2>5 DEF Opening
  <2>. QED
    BY <1>1, <1>2, <1>3, <1>4, <1>8, <2>6 DEF UnderWay, Ending, Activating, Run
<1>. QED
  BY <1>1, <1>7, <1>8

LEMMA WriteKeepsClock == Write(Scheduler) => UNCHANGED <<clock, swept>>
BY DEF Write, Quiet, Disturb

LEMMA RunEndsSet ==
    ASSUME Typed, UnderWay, EndEventSet(Scheduler)
    PROVE  UnderWay'
<1>. DEFINE id == Run.id
<1>1. Run.pc = "endEvent_set" /\ id \in Events /\ Run.stage \in {"expire", "open"}
  BY JobsAre, RunTypes DEF EndEventSet, At, Typed, Holds, Serving, Ending, UnderWay, Run, Stages
<1>2. Go(Scheduler, "loop") /\ clock' = clock
  BY RunResumes, WriteKeepsClock DEF EndEventSet
<1>3. /\ Run'.pc = "loop" /\ Run'.stage = Run.stage /\ Run'.now = Run.now
      /\ Run'.work = Run.work /\ Run'.batch = Run.batch
      /\ Done' = Done /\ \A i : Live(i)' <=> Live(i)
  BY <1>2, RunGoes
<1>4. "ended" \in Statuses /\ SetEventStatus(id, "ended")
  BY DEF EndEventSet, Statuses, Run
<1>5. OtherRowsKeep(id) /\ (rows'[id] = NoRow \/ rows'[id].status = "ended")
  BY <1>1, <1>4, SetsStatus DEF Typed
<1>6. ToEnd(clock)' \subseteq ToEnd(clock) \ {id} /\ ToOpen(clock)' \subseteq ToOpen(clock) \ {id}
  BY <1>1, <1>2, <1>5, NotToEnd, NotToOpen
<1>7. Left \ {id} \subseteq Left'
  <2>1. Left = {i.id : i \in Run.work} \cup {id}
    BY <1>1 DEF Left, InHand, Ending
  <2>2. {i.id : i \in Run.work} \subseteq Left'
    BY <1>3 DEF Left, Run
  <2>. QED
    BY <2>1, <2>2
<1>8. CASE Run.stage = "expire"
  <2>1. ToEnd(clock)' \subseteq Left'
    BY <1>1, <1>6, <1>7, <1>8 DEF UnderWay
  <2>. QED
    BY <1>2, <1>3, <1>8, <2>1 DEF UnderWay, Ending, Activating, Run
<1>9. CASE Run.stage = "open"
  <2>1. InOrder /\ Handling /\ LastOpened /\ ToOpen(clock) \subseteq Left /\ ToEnd(clock) = {}
    BY <1>1, <1>9 DEF UnderWay, Opening
  <2>2. PICK c \in Done : c.id = id /\ ~ Live(c)
    BY <1>1, <2>1 DEF Handling, Ending
  <2>3. \A i \in Run.batch : i.id = id => i = c
    BY <2>1, <2>2 DEF InOrder, Done
  <2>4. \A i \in Run.work : AsListed(i)'
    <3>1. \A i \in Run.work : i.id # id /\ i.id \in Events
      BY <2>2, <2>3, ItemsAre DEF Done
    <3>2. \A i \in Run.work : AsListed(i)
      BY <2>1 DEF InOrder
    <3>. QED
      BY <1>1, <1>5, <3>1, <3>2, ListedKeeps
  <2>5. InOrder'
    BY <1>3, <2>1, <2>4 DEF InOrder, Run
  <2>6. Handling'
    BY <1>3 DEF Handling, Ending, Activating, Run
  <2>7. LastOpened'
    <3>1. SUFFICES ASSUME NEW i \in Done, Live(i), \A j \in Done \ {i} : Live(j) => Before(j, i)
                   PROVE  Active' = {i.id}
      BY <1>3 DEF LastOpened
    <3>2. Active = {i.id}
      BY <1>1, <2>1, <3>1 DEF LastOpened, Activating
    <3>3. i.id # id
      BY <2>2, <2>3, <3>1 DEF Done
    <3>4. Active' = Active
      BY <1>1, <1>5, <3>2, <3>3 DEF Active, WithStatus, Exists, OtherRowsKeep
    <3>. QED
      BY <3>2, <3>4
  <2>8. ToOpen(clock)' \subseteq Left'
    BY <1>6, <1>7, <2>1
  <2>9. Opening'
    BY <2>5, <2>6, <2>7, <2>8 DEF Opening
  <2>10. ToEnd(clock)' = {}
    BY <1>6, <2>1
  <2>. QED
    BY <1>2, <1>3, <1>9, <2>9, <2>10 DEF UnderWay, Ending, Activating, Run
<1>. QED
  BY <1>1, <1>8, <1>9

\* What is being activated is live, and its row is as it was listed.
LEMMA InHandIsLive ==
    ASSUME Typed, UnderWay, Run.pc \in Activating
    PROVE  /\ Run.stage = "open" /\ Opening /\ Run.id \in Events
           /\ \E c \in Done : /\ c.id = Run.id /\ Live(c) /\ AsListed(c)
                              /\ \A j \in Done \ {c} : Before(j, c)
<1>1. Run.stage = "open"
  BY RunTypes DEF UnderWay, Stages, Activating
<1>2. Opening
  BY <1>1 DEF UnderWay, Activating
<1>. QED
  BY <1>1, <1>2, JobsAre DEF Opening, Handling, Typed, Holds, Serving, Run

LEMMA RunActivates ==
    ASSUME Typed, UnderWay, ActivateEvent(Scheduler)
    PROVE  UnderWay'
<1>. DEFINE row == rows[Run.id]
            state == [Run EXCEPT !.row = row, !.pc = "activateEvent_list"]
<1>1. Run.pc = "activateEvent"
  BY DEF ActivateEvent, At, Run
<1>2. Run.stage = "open" /\ Opening /\ Run.id \in Events
  BY <1>1, InHandIsLive DEF Activating
<1>3. PICK c \in Done : c.id = Run.id /\ Live(c) /\ AsListed(c)
                        /\ \A j \in Done \ {c} : Before(j, c)
  BY <1>1, InHandIsLive DEF Activating
<1>4. Activatable(row, Run.now)
  BY <1>3 DEF Activatable, Live, AsListed, Exists
<1>5. Becomes(Scheduler, state)
  BY <1>4 DEF ActivateEvent, Run
<1>6. row \in Row
  BY <1>2, <1>4 DEF Activatable, Typed
<1>. HIDE DEF row
<1>7. /\ state.pc = "activateEvent_list" /\ state.row = row /\ state.stage = Run.stage
      /\ state.now = Run.now /\ state.id = Run.id
      /\ state.work = Run.work /\ state.batch = Run.batch
  BY JobsAre DEF Typed, JobState, Run
<1>. HIDE DEF state
<1>8. Run' = state
  BY <1>5, JobsAre DEF Becomes, Typed, Run
<1>9. Done' = Done /\ \A i : Live(i)' <=> Live(i)
  BY <1>7, <1>8 DEF Done, Live
<1>10. /\ clock' = clock /\ rows' = rows
       /\ ToEnd(clock)' = ToEnd(clock) /\ ToOpen(clock)' = ToOpen(clock)
       /\ \A i : AsListed(i)' <=> AsListed(i)
  BY ReadKeepsTables DEF ActivateEvent
<1>11. InOrder'
  BY <1>2, <1>7, <1>8, <1>9, <1>10 DEF Opening, InOrder
<1>12. Handling'
  BY <1>3, <1>7, <1>8, <1>9, <1>10 DEF Handling, Ending, Activating, row
<1>13. LastOpened'
  BY <1>7, <1>8 DEF LastOpened, Activating
<1>14. Left' = Left
  BY <1>1, <1>7, <1>8 DEF Left, InHand, Ending, Activating
<1>15. Opening'
  BY <1>2, <1>10, <1>11, <1>12, <1>13, <1>14 DEF Opening
<1>. QED
  BY <1>2, <1>7, <1>8, <1>10, <1>15 DEF UnderWay, Ending, Activating

LEMMA RunActivatesList ==
    ASSUME Typed, UnderWay, ActivateEventList(Scheduler)
    PROVE  UnderWay'
<1>. DEFINE found == Active \ {Run.id}
            state == [Run EXCEPT !.others = found, !.pc = "activateEvent_others"]
<1>1. Run.pc = "activateEvent_list"
  BY DEF ActivateEventList, At, Run
<1>2. Run.stage = "open" /\ Opening /\ Run.id \in Events
  BY <1>1, InHandIsLive DEF Activating
<1>3. PICK c \in Done : c.id = Run.id /\ Live(c) /\ AsListed(c)
                        /\ \A j \in Done \ {c} : Before(j, c)
  BY <1>1, InHandIsLive DEF Activating
<1>4. found = Active
  BY <1>3 DEF AsListed, Active, WithStatus
<1>5. Becomes(Scheduler, state)
  BY DEF ActivateEventList, Run
<1>. HIDE DEF found
<1>7. /\ state.pc = "activateEvent_others" /\ state.row = Run.row /\ state.stage = Run.stage
      /\ state.now = Run.now /\ state.id = Run.id /\ state.others = found
      /\ state.work = Run.work /\ state.batch = Run.batch
  BY JobsAre DEF Typed, JobState, Run
<1>. HIDE DEF state
<1>8. Run' = state
  BY <1>5, JobsAre DEF Becomes, Typed, Run
<1>9. Done' = Done /\ \A i : Live(i)' <=> Live(i)
  BY <1>7, <1>8 DEF Done, Live
<1>10. /\ clock' = clock /\ rows' = rows /\ Active' = Active
       /\ ToEnd(clock)' = ToEnd(clock) /\ ToOpen(clock)' = ToOpen(clock)
       /\ \A i : AsListed(i)' <=> AsListed(i)
  BY ReadKeepsTables DEF ActivateEventList
<1>11. InOrder'
  BY <1>2, <1>7, <1>8, <1>9, <1>10 DEF Opening, InOrder
<1>12. Run.row = rows[Run.id]
  BY <1>1, <1>2 DEF Opening, Handling
<1>23. Handling'
  BY <1>3, <1>4, <1>7, <1>8, <1>9, <1>10, <1>12 DEF Handling, Ending, Activating
<1>13. LastOpened'
  BY <1>7, <1>8 DEF LastOpened, Activating
<1>14. Left' = Left
  BY <1>1, <1>7, <1>8 DEF Left, InHand, Ending, Activating
<1>15. Opening'
  BY <1>2, <1>10, <1>11, <1>23, <1>13, <1>14 DEF Opening
<1>. QED
  BY <1>2, <1>7, <1>8, <1>10, <1>15 DEF UnderWay, Ending, Activating

LEMMA RunEndsOther ==
    ASSUME Typed, UnderWay, EndOther(Scheduler)
    PROVE  UnderWay'
<1>1. Run.pc = "activateEvent_others" /\ clock' = clock
  BY WriteKeepsClock DEF EndOther, At, Run
<1>2. Run.stage = "open" /\ Opening /\ Run.id \in Events
  BY <1>1, InHandIsLive DEF Activating
<1>3. PICK c \in Done : c.id = Run.id /\ Live(c) /\ AsListed(c)
                        /\ \A j \in Done \ {c} : Before(j, c)
  BY <1>1, InHandIsLive DEF Activating
<1>4. PICK other \in Run.others :
         /\ SetEventStatus(other, "ended")
         /\ Becomes(Scheduler, [Run EXCEPT !.others = @ \ {other}])
  BY DEF EndOther, Run
<1>5. other \in Events /\ "ended" \in Statuses
  BY RunTypes DEF Statuses
<1>6. Run.others = Active /\ Run.row = rows[Run.id]
  BY <1>1, <1>2 DEF Opening, Handling
<1>7. OtherRowsKeep(other) /\ (rows'[other] = NoRow \/ rows'[other].status = "ended")
  BY <1>4, <1>5, SetsStatus DEF Typed
<1>8. ASSUME NEW i, AsListed(i), i.id \in Events
      PROVE  AsListed(i)'
  <2>1. i.id # other
    BY <1>6, <1>8 DEF AsListed, Active, WithStatus
  <2>. QED
    BY <1>5, <1>7, <1>8, <2>1, ListedKeeps
<1>9. Active' = Active \ {other}
  BY <1>5, <1>7 DEF Active, WithStatus, Exists, OtherRowsKeep
<1>10. ToEnd(clock)' \subseteq ToEnd(clock) /\ ToOpen(clock)' \subseteq ToOpen(clock)
  BY <1>1, <1>5, <1>7, NotToEnd, NotToOpen
<1>. DEFINE state == [Run EXCEPT !.others = @ \ {other}]
<1>11. /\ state.pc = Run.pc /\ state.row = Run.row /\ state.stage = Run.stage
       /\ state.now = Run.now /\ state.id = Run.id /\ state.others = Run.others \ {other}
       /\ state.work = Run.work /\ state.batch = Run.batch
  BY JobsAre DEF Typed, JobState, Run
<1>12. Becomes(Scheduler, state)
  BY <1>4
<1>. HIDE DEF state
<1>13. Run' = state
  BY <1>12, JobsAre DEF Becomes, Typed, Run
<1>14. Done' = Done /\ \A i : Live(i)' <=> Live(i)
  BY <1>11, <1>13 DEF Done, Live
<1>15. \A i \in Run.batch : i.id \in Events
  BY ItemsAre
<1>16. InOrder'
  BY <1>2, <1>8, <1>11, <1>13, <1>14, <1>15, ItemsAre DEF Opening, InOrder
<1>17. Run'.row = rows'[Run.id]
  <2>1. Run.id # other
    BY <1>3, <1>6 DEF AsListed, Active, WithStatus
  <2>. QED
    BY <1>2, <1>6, <1>7, <1>11, <1>13, <2>1 DEF OtherRowsKeep
<1>18. Handling'
  <2>1. c \in Done' /\ c.id = Run'.id /\ Live(c)' /\ AsListed(c)' /\ \A j \in Done' \ {c} : Before(j, c)
    BY <1>2, <1>3, <1>8, <1>11, <1>13, <1>14
  <2>2. Run'.others = Active'
    BY <1>6, <1>9, <1>11, <1>13
  <2>. QED
    BY <1>1, <1>11, <1>13, <1>17, <2>1, <2>2 DEF Handling, Ending, Activating
<1>19. LastOpened'
  BY <1>1, <1>11, <1>13 DEF LastOpened, Activating
<1>20. Left' = Left
  BY <1>11, <1>13 DEF Left, InHand
<1>21. Opening'
  BY <1>2, <1>10, <1>16, <1>18, <1>19, <1>20 DEF Opening
<1>22. ToEnd(clock)' = {}
  BY <1>2, <1>10 DEF UnderWay
<1>. QED
  BY <1>1, <1>2, <1>11, <1>13, <1>21, <1>22 DEF UnderWay, Ending, Activating

LEMMA RunActivatesSet ==
    ASSUME Typed, UnderWay, ActivateEventSet(Scheduler)
    PROVE  UnderWay'
<1>. DEFINE id == Run.id
            row == Run.row
<1>1. Run.pc = "activateEvent_others" /\ Run.others = {} /\ clock' = clock
  BY WriteKeepsClock DEF ActivateEventSet, At, Run
<1>2. Run.stage = "open" /\ Opening /\ id \in Events /\ ToEnd(clock) = {} /\ Run.now = clock
  BY <1>1, InHandIsLive DEF Activating, UnderWay
<1>3. PICK c \in Done : c.id = id /\ Live(c) /\ AsListed(c) /\ \A j \in Done \ {c} : Before(j, c)
  BY <1>1, InHandIsLive DEF Activating
<1>4. Active = {} /\ row = rows[id]
  BY <1>1, <1>2 DEF Opening, Handling
<1>5. c \in Run.batch /\ c \notin Run.work /\ c \in Item /\ c.starts \in Nat
  BY <1>2, <1>3, ItemsAre DEF Done, Opening, InOrder
<1>6. row.starts = c.starts /\ row.ends = c.ends /\ rows[id] # NoRow /\ c.starts # NoTime
  BY <1>3, <1>4, <1>5, EventAssumption DEF AsListed, Exists
<1>7. SetStatusAndWindow(id, "active", c.starts, c.ends)
  BY <1>6 DEF ActivateEventSet, Run
<1>8. /\ OtherRowsKeep(id) /\ rows'[id] # NoRow
      /\ rows'[id].status = "active" /\ rows'[id].ends = c.ends
  <2>1. "active" \in Statuses /\ c.starts \in Times /\ c.ends \in Times
    BY <1>5 DEF Statuses, Times, Item
  <2>. QED
    BY <1>2, <1>6, <1>7, <2>1, SetsWindow DEF Typed
<1>9. Active' = {id}
  BY <1>2, <1>4, <1>8 DEF Active, WithStatus, Exists, OtherRowsKeep
<1>10. ~ (rows'[id].ends # NoTime /\ rows'[id].ends <= clock)
  <2>1. c.ends \in Times /\ clock \in Nat
    BY <1>5 DEF Item, Typed
  <2>. QED
    BY <1>2, <1>3, <1>8, <2>1 DEF Live, Times
<1>11. ToEnd(clock)' = {} /\ ToOpen(clock)' \subseteq ToOpen(clock) \ {id}
  <2>1. rows'[id].status # "scheduled"
    BY <1>8
  <2>. QED
    BY <1>1, <1>2, <1>8, <1>10, <2>1, NotToEnd, NotToOpen
<1>12. Go(Scheduler, "loop")
  BY RunResumes DEF ActivateEventSet
<1>13. /\ Run'.pc = "loop" /\ Run'.stage = Run.stage /\ Run'.now = Run.now
       /\ Run'.work = Run.work /\ Run'.batch = Run.batch
       /\ Done' = Done /\ \A i : Live(i)' <=> Live(i)
  BY <1>12, RunGoes
<1>14. InOrder'
  <2>1. \A i \in Run.work : i.id # id /\ i.id \in Events /\ AsListed(i)
    BY <1>2, <1>3, <1>5, ItemsAre DEF Opening, InOrder
  <2>2. \A i \in Run.work : AsListed(i)'
    BY <1>2, <1>8, <2>1, ListedKeeps
  <2>. QED
    BY <1>2, <1>13, <2>2 DEF Opening, InOrder
<1>15. Handling'
  BY <1>13 DEF Handling, Ending, Activating
<1>16. LastOpened'
  <2>1. SUFFICES ASSUME NEW i \in Done, Live(i), \A j \in Done \ {i} : Live(j) => Before(j, i)
                 PROVE  i = c
    BY <1>3, <1>9, <1>13 DEF LastOpened
  <2>2. SUFFICES ASSUME i # c PROVE FALSE
    OBVIOUS
  <2>3. Before(c, i) /\ Before(i, c)
    BY <1>3, <2>1, <2>2
  <2>4. i \in Item /\ i.starts \in Nat
    BY <1>2, <2>1, ItemsAre DEF Done, Opening, InOrder
  <2>. QED
    BY <1>5, <2>3, <2>4, LessIsNotMore
<1>17. Left \ {id} \subseteq Left'
  <2>1. Left = {i.id : i \in Run.work} \cup {id}
    BY <1>1 DEF Left, InHand, Activating
  <2>2. {i.id : i \in Run.work} \subseteq Left'
    BY <1>13 DEF Left
  <2>. QED
    BY <2>1, <2>2
<1>18. Opening'
  BY <1>2, <1>11, <1>14, <1>15, <1>16, <1>17 DEF Opening
<1>. QED
  BY <1>1, <1>2, <1>11, <1>13, <1>18 DEF UnderWay, Ending, Activating

-----------------------------------------------------------------------------
\* A request's step leaves the run alone: it reads, or it disturbs.
LEMMA OthersRest ==
    ASSUME Typed, SweepInv, NEW p \in Requests, Service(p) \/ Route(p)
    PROVE  SweepInv'
<1>1. p \in Jobs /\ p # Scheduler
  BY JobsAre
<1>2. \A pc : Go(p, pc) => Run' = Run
  BY <1>1, JobsAre DEF Go, Becomes, Typed, Run
<1>3. \A state : Becomes(p, state) => Run' = Run
  BY <1>1, JobsAre DEF Becomes, Typed, Run
<1>4. Run' = Run
  <2>1. CASE Service(p)
    BY <1>2, <1>3, <2>1 DEF Service, EndEvent, EndEventSet, ActivateEvent, ActivateEventList, EndOther,
                            ActivateEventSet
  <2>2. CASE Route(p)
    BY <1>2, <1>3, <2>2 DEF Route, Create, CreatePut, Put, PutPut, Delete, DeleteDelete, Schedule,
                            ScheduleSet, Activate, ActivateCheck
  <2>. QED
    BY <2>1, <2>2
<1>5. Read \/ Write(p)
  BY DEF Service, EndEvent, EndEventSet, ActivateEvent, ActivateEventList, EndOther, ActivateEventSet,
         Route, Create, CreatePut, Put, PutPut, Delete, DeleteDelete, Schedule, ScheduleSet, Activate,
         ActivateCheck
<1>6. CASE Read
  BY <1>4, <1>6, SweepRests, ReadKeepsTables
<1>7. CASE Write(p)
  BY <1>1, <1>7, SweepGivenUp DEF Write, Disturb
<1>. QED
  BY <1>5, <1>6, <1>7

LEMMA RunStep ==
    ASSUME Typed, SweepInv, Service(Scheduler) \/ Sweep
    PROVE  SweepInv'
<1>1. Run.pc # "done"
  BY DEF Service, EndEvent, EndEventSet, ActivateEvent, ActivateEventList, EndOther, ActivateEventSet,
         Sweep, ListStage, MaterializeOne, ExpireOne, OpenOne, NextStage, FinishScheduler, At, Run
<1>2. \/ swept' = swept
      \/ FinishScheduler
  BY ReadKeepsTables, WriteKeepsClock
     DEF Service, EndEvent, EndEventSet, ActivateEvent, ActivateEventList, EndOther, ActivateEventSet,
         Sweep, ListStage, MaterializeOne, ExpireOne, OpenOne, NextStage
<1>3. CASE swept = "no"
  <2>1. swept' = "no"
    BY <1>2, <1>3 DEF FinishScheduler
  <2>. QED
    BY <2>1, SweepGivenUp
<1>4. CASE swept = "running"
  <2>1. UnderWay
    BY <1>4 DEF SweepInv, Sweeping
  <2>2. CASE FinishScheduler
    BY <1>4, <2>1, <2>2, RunSettles
  <2>3. CASE ~ FinishScheduler
    <3>1. UnderWay'
      BY <2>1, <2>3, RunEnds, RunEndsSet, RunActivates, RunActivatesList, RunEndsOther, RunActivatesSet,
         RunLists, RunMaterializes, RunExpires, RunOpens, RunTurns
         DEF Service, Sweep
    <3>. QED
      BY <1>2, <1>4, <2>3, <3>1, StillRunning
  <2>. QED
    BY <2>2, <2>3
<1>. QED
  BY <1>1, <1>3, <1>4 DEF Typed, SweepInv, Sweeping

LEMMA SweepInit == ASSUME Init PROVE SweepInv
<1>1. Run = Starting /\ swept = "running" /\ clock = 0
  BY JobsAre DEF Init, Run
<1>2. Starting.pc = "list" /\ Starting.stage = "materialize" /\ Starting.now = 0
  BY DEF Starting, Blank
<1>. QED
  BY <1>1, <1>2 DEF SweepInv, Sweeping, SweepSettles, UnderWay, Ending, Activating

LEMMA SweepStep ==
    ASSUME Typed, SweepInv, [Next]_vars
    PROVE  SweepInv'
<1>1. CASE Tick
  BY <1>1, SweepGivenUp DEF Tick
<1>2. CASE RunScheduler
  <2>. DEFINE state == [Starting EXCEPT !.now = clock]
  <2>1. /\ state.pc = "list" /\ state.stage = "materialize" /\ state.now = clock
        /\ Becomes(Scheduler, state)
    BY <1>2 DEF RunScheduler, Starting, Blank
  <2>. HIDE DEF state
  <2>2. Run' = state
    BY <2>1, JobsAre DEF Becomes, Typed, Run
  <2>. QED
    BY <1>2, <2>1, <2>2, SweepBegins DEF RunScheduler, Quiet
<1>3. ASSUME NEW q \in Requests, Arrive(q)
      PROVE  SweepInv'
  <2>1. PICK route \in Routes, e \in Events, body \in Bodies :
           /\ route = "schedule" => IsWindow(body.starts, body.ends)
           /\ route \notin {"put", "schedule"} => body.starts = NoRow /\ body.ends = NoRow
           /\ route = "create" => body.content # NoRow
           /\ route \notin {"put", "create"} => body.content = NoRow
           /\ Becomes(q, [Blank EXCEPT !.pc = route, !.id = e, !.body = body])
    BY <1>3, Zenon DEF Arrive
  <2>. DEFINE state == [Blank EXCEPT !.pc = route, !.id = e, !.body = body]
  <2>2. Becomes(q, state)
    BY <2>1
  <2>. HIDE DEF state
  <2>3. Run' = Run
    BY <2>2, JobsAre DEF Becomes, Typed, Run
  <2>. QED
    BY <1>3, <2>3, SweepRests, ReadKeepsTables DEF Arrive
<1>4. ASSUME NEW p \in Jobs, Advance(p)
      PROVE  SweepInv'
  <2>1. CASE p = Scheduler
    BY <1>4, <2>1, RunStep, JobsAre DEF Advance
  <2>2. CASE p # Scheduler
    BY <1>4, <2>2, OthersRest DEF Advance, Jobs
  <2>. QED
    BY <2>1, <2>2
<1>5. ASSUME NEW p \in Jobs, Throw(p)
      PROVE  SweepInv'
  BY <1>5, SweepGivenUp DEF Throw
<1>6. CASE Restart
  <2>. DEFINE state == [Starting EXCEPT !.now = clock]
  <2>1. state.pc = "list" /\ state.stage = "materialize" /\ state.now = clock
    BY DEF Starting, Blank
  <2>2. Run' = state /\ swept' = "running" /\ clock' = clock
    BY <1>6, JobsAre DEF Restart, Run
  <2>. HIDE DEF state
  <2>. QED
    BY <2>1, <2>2, SweepBegins
<1>7. CASE UNCHANGED vars
  BY <1>7, SweepRests DEF vars, Run
<1>. QED
  BY <1>1, <1>2, <1>3, <1>4, <1>5, <1>6, <1>7 DEF Next

\* A scheduler run that no write, failure or tick of the clock has disturbed
\* leaves nothing open past its end, nothing waiting past its start, and of the
\* windows it found open the one that started last active, for any number of
\* events and of handlers in flight beside it.
THEOREM RunsSettle == Spec => []SweepSettles
<1>1. SweepInv => SweepSettles
  BY DEF SweepInv
<1>. QED
  BY <1>1, SweepInit, SweepStep, AlwaysTyped, PTL DEF Spec
=============================================================================
