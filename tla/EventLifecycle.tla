--------------------------- MODULE EventLifecycle ---------------------------
(***************************************************************************)
(* The live_events table under the hourly scheduler and the coordinators'  *)
(* routes: server/eventService.js and /api/admin/events.                   *)
(*                                                                         *)
(* Each handler is a job that awaits the database between its steps, so a  *)
(* step is one statement.  MaxInFlight = 1 is the SQLite driver, whose     *)
(* awaits settle without giving any other handler a turn; on Postgres jobs *)
(* interleave.  An event is its status, its window and the version of its  *)
(* ladder and modifiers; whether it recurs is fixed when it is created.    *)
(***************************************************************************)
EXTENDS Naturals, FiniteSets

CONSTANTS
    Events,       \* event ids, compared as numbers
    Recurrence,   \* [day, duration] of each recurring event; all are seeded
    Requests,     \* requests coordinators may send, once each
    Scheduler,    \* the job that runs at boot and every hour
    Contents,     \* versions of an event's ladder and modifiers
    Bodies,       \* what a coordinator's request may carry
    Year, Grace,  \* a year; the 48 hours for which a personal window stays claimable
    MaxClock, MaxInFlight, MaxMishaps,
    NoTime, NoRow

Jobs == Requests \cup {Scheduler}
Recurring == DOMAIN Recurrence
Statuses == {"draft", "scheduled", "active", "ended"}
Times == Nat \cup {NoTime}
Row == [status: Statuses, starts: Times, ends: Times, content: Contents]

\* A date is entered, cleared or left out (NoRow), either one without the other;
\* an edit of the name, the description or the theme alone leaves everything out.
Body == [starts: Times \cup {NoRow}, ends: Times \cup {NoRow}, content: Contents \cup {NoRow}]

ASSUME EventAssumption ==
    /\ Events \subseteq Nat
    /\ Recurring \subseteq Events
    /\ \A e \in Recurring : Recurrence[e] \in [day: Nat, duration: Nat \ {0}]
    /\ Bodies \subseteq Body
    /\ Contents # {}
    /\ Scheduler \notin Requests
    /\ NoTime \notin Nat /\ NoRow \notin Row
ASSUME BoundAssumption ==
    Year \in Nat \ {0} /\ {Grace, MaxClock, MaxInFlight, MaxMishaps} \subseteq Nat

VARIABLES
    clock,
    rows,     \* the live_events table
    job,      \* the local state of each handler
    up,       \* the server is listening: its boot sweep is over
    swept,    \* history: "yes" just after an undisturbed scheduler run
    mishaps   \* failed statements and crashes so far

vars == <<clock, rows, job, up, swept, mishaps>>

Draft(c) == [status |-> "draft", starts |-> NoTime, ends |-> NoTime, content |-> c]

Blank == [pc |-> "done", stage |-> "none", now |-> 0, id |-> 0, row |-> NoRow,
          body |-> NoRow, others |-> {}, work |-> {}, batch |-> {}]
Starting == [Blank EXCEPT !.pc = "list", !.stage = "materialize"]

\* Seeding inserts each seasonal event that has no row, as a draft.
Seeded(table) ==
    [e \in Events |-> IF e \in Recurring /\ table[e] = NoRow
                      THEN Draft(CHOOSE c \in Contents : TRUE) ELSE table[e]]

Init ==
    /\ clock = 0
    /\ \E created \in SUBSET Events, c \in Contents :
          rows = Seeded([e \in Events |-> IF e \in created THEN Draft(c) ELSE NoRow])
    /\ job = [p \in Jobs |-> IF p = Scheduler THEN Starting ELSE [Blank EXCEPT !.pc = "unsent"]]
    /\ up = FALSE
    /\ swept = "running"
    /\ mishaps = 0

-----------------------------------------------------------------------------
(***************************************************************************)
(* Statements on the table.                                                *)
(***************************************************************************)

Exists(e) == rows[e] # NoRow
WithStatus(status) == {e \in Events : Exists(e) /\ rows[e].status = status}
Active == WithStatus("active")

\* UPDATE touches no row when the event is gone.
SetEventStatus(e, status) ==
    rows' = IF Exists(e) THEN [rows EXCEPT ![e].status = status] ELSE rows

SetStatusAndWindow(e, status, starts, ends) ==
    rows' = IF Exists(e)
            THEN [rows EXCEPT ![e].status = status, ![e].starts = starts, ![e].ends = ends]
            ELSE rows

PutEvent(e, row) == rows' = [rows EXCEPT ![e] = row]

ListEvents(es) == {[id |-> e, starts |-> rows[e].starts, ends |-> rows[e].ends] : e \in es}

-----------------------------------------------------------------------------
(***************************************************************************)
(* Jobs.                                                                   *)
(***************************************************************************)

At(p, pc) == job[p].pc = pc
InFlight == {p \in Jobs : job[p].pc \notin {"unsent", "done"}}
Room == Cardinality(InFlight) < MaxInFlight

\* Where p goes on when a service function it awaited returns.
Resume(p) == IF p = Scheduler THEN "loop" ELSE "done"

Becomes(p, state) == job' = [job EXCEPT ![p] = state]

\* Local state is dropped with the handler; of a scheduler run the last list is
\* kept as history.
Go(p, pc) ==
    Becomes(p, IF pc = "done" THEN [Blank EXCEPT !.batch = job[p].batch]
                              ELSE [job[p] EXCEPT !.pc = pc])

\* The rows are no longer as a complete scheduler run left them.
Disturb(p) == swept' = IF p = Scheduler THEN swept ELSE "no"

Quiet == UNCHANGED <<clock, up, mishaps>>
Read == Quiet /\ UNCHANGED <<rows, swept>>
Write(p) == Quiet /\ Disturb(p)

Tick ==
    /\ clock < MaxClock
    /\ clock' = clock + 1
    /\ swept' = "no"
    /\ UNCHANGED <<rows, job, up, mishaps>>

(***************************************************************************)
(* eventService.js: endEvent and activateEvent.                            *)
(***************************************************************************)

EndEvent(p) ==
    /\ At(p, "endEvent")
    /\ Go(p, IF Exists(job[p].id) THEN "endEvent_set" ELSE Resume(p))
    /\ Read

EndEventSet(p) ==
    /\ At(p, "endEvent_set")
    /\ SetEventStatus(job[p].id, "ended")
    /\ Go(p, Resume(p))
    /\ Write(p)

\* May the row be activated: it has a window that is not over.
Activatable(row, now) == row # NoRow /\ row.ends # NoTime /\ row.ends > now

ActivateEvent(p) ==
    /\ At(p, "activateEvent")
    /\ LET row == rows[job[p].id] IN
       IF Activatable(row, job[p].now)
       THEN Becomes(p, [job[p] EXCEPT !.row = row, !.pc = "activateEvent_list"])
       ELSE Go(p, Resume(p))
    /\ Read

\* Mutant. Taking it that nothing else is active.
ActivateEventListNone(p) ==
    /\ At(p, "activateEvent_list")
    /\ Becomes(p, [job[p] EXCEPT !.others = {}, !.pc = "activateEvent_others"])
    /\ Read

ActivateEventList(p) ==
    /\ At(p, "activateEvent_list")
    /\ Becomes(p, [job[p] EXCEPT !.others = Active \ {job[p].id}, !.pc = "activateEvent_others"])
    /\ Read

EndOther(p) ==
    /\ At(p, "activateEvent_others")
    /\ \E other \in job[p].others :
          /\ SetEventStatus(other, "ended")
          /\ Becomes(p, [job[p] EXCEPT !.others = @ \ {other}])
    /\ Write(p)

\* The window written back is the one read at the start.
ActivateEventSet(p) ==
    /\ At(p, "activateEvent_others") /\ job[p].others = {}
    /\ LET row == job[p].row IN
       SetStatusAndWindow(job[p].id, "active",
                          IF row.starts = NoTime THEN job[p].now ELSE row.starts, row.ends)
    /\ Go(p, Resume(p))
    /\ Write(p)

(***************************************************************************)
(* eventService.js: runScheduler, in three stages over a list each.        *)
(***************************************************************************)

\* This year's window, or next year's once this year's is over.
NextOccurrence(e, now) ==
    LET r == Recurrence[e]
        WindowFor(y) == [starts |-> y * Year + r.day, ends |-> y * Year + r.day + r.duration]
        this == WindowFor(now \div Year)
    IN IF this.ends > now THEN this ELSE WindowFor((now \div Year) + 1)

\* Mutant. Materializing the first occurrence only.
ToMaterializeOnce(now) ==
    {e \in Recurring : Exists(e) /\
        rows[e].status = "draft" /\ rows[e].starts = NoTime /\ rows[e].ends = NoTime}

\* A draft without a window, or an ended event nobody can claim from any more.
ToMaterialize(now) ==
    {e \in Recurring : Exists(e) /\
        \/ rows[e].status = "draft" /\ rows[e].starts = NoTime /\ rows[e].ends = NoTime
        \/ rows[e].status = "ended" /\ rows[e].ends # NoTime /\ now > rows[e].ends + Grace}

ToEnd(now) == {e \in Active : rows[e].ends # NoTime /\ rows[e].ends <= now}

ToOpen(now) ==
    {e \in WithStatus("scheduled") : rows[e].starts # NoTime /\ rows[e].starts <= now}

Worklist(stage, now) ==
    CASE stage = "materialize" -> ListEvents(ToMaterialize(now))
      [] stage = "expire" -> ListEvents(ToEnd(now))
      [] stage = "open" -> ListEvents(ToOpen(now))

RunScheduler ==
    /\ At(Scheduler, "done")
    /\ Room
    /\ Becomes(Scheduler, [Starting EXCEPT !.now = clock])
    /\ swept' = "running"
    /\ UNCHANGED <<rows>> /\ Quiet

ListStage ==
    /\ At(Scheduler, "list")
    /\ LET work == Worklist(job[Scheduler].stage, job[Scheduler].now) IN
       Becomes(Scheduler, [job[Scheduler] EXCEPT !.work = work, !.batch = work, !.pc = "loop"])
    /\ Read

MaterializeOne ==
    /\ At(Scheduler, "loop") /\ job[Scheduler].stage = "materialize"
    /\ \E item \in job[Scheduler].work :
          LET w == NextOccurrence(item.id, job[Scheduler].now) IN
          /\ SetStatusAndWindow(item.id, "scheduled", w.starts, w.ends)
          /\ Becomes(Scheduler, [job[Scheduler] EXCEPT !.work = @ \ {item}])
    /\ Write(Scheduler)

\* The run takes the next event off its list, for the service function it awaits.
Take(item, pc) ==
    Becomes(Scheduler, [job[Scheduler] EXCEPT !.work = @ \ {item}, !.id = item.id, !.pc = pc])

ExpireOne ==
    /\ At(Scheduler, "loop") /\ job[Scheduler].stage = "expire"
    /\ \E item \in job[Scheduler].work :
          Take(item, "endEvent")
    /\ Read

Before(a, b) == a.starts < b.starts \/ (a.starts = b.starts /\ a.id < b.id)

\* An event whose window has elapsed, as listed, is ended.
Fate(item) ==
    IF item.ends = NoTime \/ item.ends <= job[Scheduler].now THEN "endEvent" ELSE "activateEvent"

\* Mutant. Opening the windows in no particular order.
OpenAny ==
    /\ At(Scheduler, "loop") /\ job[Scheduler].stage = "open"
    /\ \E item \in job[Scheduler].work :
          Take(item, Fate(item))
    /\ Read

\* In (starts_at, id) order.
OpenOne ==
    /\ At(Scheduler, "loop") /\ job[Scheduler].stage = "open"
    /\ \E item \in job[Scheduler].work :
          /\ \A i \in job[Scheduler].work \ {item} : Before(item, i)
          /\ Take(item, Fate(item))
    /\ Read

\* Mutant. Leaving the ending of events to the activation of the next one.
NextStageSkipsExpire ==
    /\ At(Scheduler, "loop") /\ job[Scheduler].work = {}
    /\ job[Scheduler].stage \in {"materialize", "expire"}
    /\ Becomes(Scheduler, [job[Scheduler] EXCEPT !.pc = "list", !.stage = "open"])
    /\ Read

NextStage ==
    /\ At(Scheduler, "loop") /\ job[Scheduler].work = {}
    /\ job[Scheduler].stage \in {"materialize", "expire"}
    /\ Becomes(Scheduler, [job[Scheduler] EXCEPT
                             !.pc = "list",
                             !.stage = IF @ = "materialize" THEN "expire" ELSE "open"])
    /\ Read

\* After the boot sweep the server starts to listen.
FinishScheduler ==
    /\ At(Scheduler, "loop") /\ job[Scheduler].work = {} /\ job[Scheduler].stage = "open"
    /\ Go(Scheduler, "done")
    /\ up' = TRUE
    /\ swept' = IF swept = "running" THEN "yes" ELSE "no"
    /\ UNCHANGED <<clock, rows, mishaps>>

(***************************************************************************)
(* The coordinators' routes.                                               *)
(***************************************************************************)

Routes == {"create", "put", "delete", "schedule", "activate", "endEvent"}

IsWindow(starts, ends) == starts \in Nat /\ ends \in Nat /\ starts < ends

\* A handler starts; what its body carries is validated before it matters.
Arrive(q) ==
    /\ up /\ At(q, "unsent") /\ Room
    /\ \E route \in Routes, e \in Events, body \in Bodies :
          /\ route = "schedule" => IsWindow(body.starts, body.ends)
          /\ route \notin {"put", "schedule"} => body.starts = NoRow /\ body.ends = NoRow
          /\ route = "create" => body.content # NoRow
          /\ route \notin {"put", "create"} => body.content = NoRow
          /\ Becomes(q, [Blank EXCEPT !.pc = route, !.id = e, !.body = body])
    /\ Read

Create(q) ==
    /\ At(q, "create")
    /\ Go(q, IF Exists(job[q].id) THEN "done" ELSE "create_put")
    /\ Read

CreatePut(q) ==
    /\ At(q, "create_put")
    /\ PutEvent(job[q].id, Draft(job[q].body.content))
    /\ Go(q, "done")
    /\ Write(q)

\* A row as a body edits it.
Edited(row, body) ==
    [status |-> row.status,
     starts |-> IF body.starts = NoRow THEN row.starts ELSE body.starts,
     ends |-> IF body.ends = NoRow THEN row.ends ELSE body.ends,
     content |-> IF body.content = NoRow THEN row.content ELSE body.content]

\* Edits of the ladder or the modifiers are refused while the event is active,
\* and so are two dates that are no window.
Editable(row, body) ==
    /\ row # NoRow
    /\ row.status = "active" => body.content = NoRow
    /\ LET next == Edited(row, body) IN
       NoTime \notin {next.starts, next.ends} => IsWindow(next.starts, next.ends)

Put(q) ==
    /\ At(q, "put")
    /\ LET existing == rows[job[q].id] IN
       IF ~ Editable(existing, job[q].body) THEN Go(q, "done")
       ELSE Becomes(q, [job[q] EXCEPT !.row = existing, !.pc = "put_put"])
    /\ Read

\* The whole row is replaced by the one read, as edited.
PutPut(q) ==
    /\ At(q, "put_put")
    /\ PutEvent(job[q].id, Edited(job[q].row, job[q].body))
    /\ Go(q, "done")
    /\ Write(q)

Delete(q) ==
    /\ At(q, "delete")
    /\ Go(q, IF Exists(job[q].id) /\ rows[job[q].id].status = "draft" THEN "delete_delete" ELSE "done")
    /\ Read

DeleteDelete(q) ==
    /\ At(q, "delete_delete")
    /\ rows' = [rows EXCEPT ![job[q].id] = NoRow]
    /\ Go(q, "done")
    /\ Write(q)

Schedule(q) ==
    /\ At(q, "schedule")
    /\ Go(q, IF Exists(job[q].id) /\ rows[job[q].id].status # "active" THEN "schedule_set" ELSE "done")
    /\ Read

ScheduleSet(q) ==
    /\ At(q, "schedule_set")
    /\ SetStatusAndWindow(job[q].id, "scheduled", job[q].body.starts, job[q].body.ends)
    /\ Go(q, "done")
    /\ Write(q)

Activate(q) ==
    /\ At(q, "activate")
    /\ IF Exists(job[q].id)
       THEN Becomes(q, [job[q] EXCEPT !.row = rows[job[q].id], !.pc = "activate_check"])
       ELSE Go(q, "done")
    /\ Read

\* The first active row, of any the table may list first.
GetActiveEvent == IF Active = {} THEN {NoRow} ELSE Active

\* Refused when the active event found is another one; the clock is read here.
ActivateCheck(q) ==
    /\ At(q, "activate_check")
    /\ \E active \in GetActiveEvent :
       LET refused == active \notin {NoRow, job[q].id} \/ ~ Activatable(job[q].row, clock) IN
       IF refused THEN Go(q, "done")
       ELSE Becomes(q, [job[q] EXCEPT !.now = clock, !.pc = "activateEvent"])
    /\ Read

Route(q) ==
    \/ Create(q) \/ CreatePut(q)
    \/ Put(q) \/ PutPut(q)
    \/ Delete(q) \/ DeleteDelete(q)
    \/ Schedule(q) \/ ScheduleSet(q)
    \/ Activate(q) \/ ActivateCheck(q)

Service(p) ==
    \/ EndEvent(p) \/ EndEventSet(p)
    \/ ActivateEvent(p) \/ ActivateEventList(p) \/ EndOther(p) \/ ActivateEventSet(p)

Sweep ==
    \/ ListStage \/ MaterializeOne \/ ExpireOne \/ OpenOne
    \/ NextStage \/ FinishScheduler

Advance(p) == Service(p) \/ (p = Scheduler /\ Sweep) \/ (p \in Requests /\ Route(p))

\* A statement fails: the route answers 500, the hourly run is logged and given
\* up until the next one.
Throw(p) ==
    /\ up /\ p \in InFlight
    /\ mishaps < MaxMishaps
    /\ mishaps' = mishaps + 1
    /\ Go(p, "done")
    /\ swept' = "no"
    /\ UNCHANGED <<clock, rows, up>>

\* The process dies, its boot sweep failing included, and is started again.
Restart ==
    /\ mishaps < MaxMishaps
    /\ mishaps' = mishaps + 1
    /\ rows' = Seeded(rows)
    /\ job' = [p \in Jobs |->
                IF p = Scheduler THEN [Starting EXCEPT !.now = clock]
                ELSE IF At(p, "unsent") THEN job[p] ELSE Blank]
    /\ up' = FALSE
    /\ swept' = "running"
    /\ UNCHANGED clock

Next ==
    \/ Tick
    \/ RunScheduler
    \/ \E q \in Requests : Arrive(q)
    \/ \E p \in Jobs : Advance(p) \/ Throw(p)
    \/ Restart

Spec == Init /\ [][Next]_vars

\* Time passes, the interval timer fires, and every awaited statement returns.
FairSpec ==
    /\ Spec
    /\ WF_vars(Tick)
    /\ WF_vars(RunScheduler)
    /\ \A p \in Jobs : WF_vars(Advance(p))

-----------------------------------------------------------------------------

\* Type invariant.
TypeOK ==
    /\ clock \in Nat /\ mishaps \in Nat /\ up \in BOOLEAN
    /\ swept \in {"no", "running", "yes"}
    /\ rows \in [Events -> Row \cup {NoRow}]
    /\ \A p \in Jobs :
          /\ job[p].id \in Events \cup {0} /\ job[p].now \in Nat
          /\ job[p].row \in Row \cup {NoRow}
          /\ job[p].others \subseteq Events
          /\ job[p].work \subseteq job[p].batch
          /\ \A item \in job[p].batch : item \in [id: Events, starts: Times, ends: Times]

\* At most one event is active, whatever statements fail and whenever the
\* process dies ("it always restores the invariant no matter what state it's
\* called from", eventService.js).
OneActive == Cardinality(Active) <= 1

\* Of the windows the last run found open, the one that started last.
Latest ==
    LET live == {i \in job[Scheduler].batch : i.ends # NoTime /\ i.ends > clock}
    IN  {i.id : i \in {k \in live : \A j \in live \ {k} : Before(j, k)}}

\* An undisturbed scheduler run leaves nothing open past its end and nothing
\* waiting past its start, however many windows opened or elapsed meanwhile;
\* of those it found open the one that started last is active ("only the LAST
\* one processed", eventService.js).
SweepSettles ==
    swept = "yes" =>
        /\ ToEnd(clock) = {} /\ ToOpen(clock) = {}
        /\ Latest # {} => Active = Latest

Late(e) == e \in Active /\ rows[e].ends # NoTime /\ rows[e].ends <= clock

\* No event stays active past its end, whoever activated it and however stale
\* what they knew of it was.
WindowsClose == \A e \in Events : Late(e) ~> ~ Late(e)

\* A recurring event that has run is scheduled again, every year, unless a
\* coordinator moves its window; one ended by hand before it ever had a window
\* is not meant.
Lapsed(e) ==
    Exists(e) /\ rows[e].status = "ended" /\ rows[e].ends # NoTime /\ rows[e].ends + Grace < MaxClock
RecurrenceResumes == \A e \in Recurring : Lapsed(e) ~> ~ Lapsed(e)
=============================================================================
