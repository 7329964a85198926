---------------------------- MODULE ActionQueue ----------------------------
(***************************************************************************)
(* The client's action queue (makeActionQueue of client/src/game/api.js),  *)
(* the replay list the page keeps beside it (pendingActionsRef of          *)
(* RackStack.jsx), the network between them and POST /api/actions; and the *)
(* page's minigame round, whose finish is answered with a canonical state  *)
(* too, outside the queue's order.                                         *)
(*                                                                         *)
(* An action is its correlation id.  The server answers a batch in one     *)
(* step: SaveServiceProofs!Atomic is the theorem that lets it.  Time is    *)
(* counted in units of ACTION_FLUSH_MS.                                    *)
(***************************************************************************)
EXTENDS Integers, Sequences, FiniteSets, Functions

CONSTANTS
    MaxActions,   \* bound: clicks of one page
    BatchLimit,   \* the most actions one POST /api/actions may carry
    RetryMax,     \* ACTION_RETRY_MAX_MS, in flush intervals
    MaxFailures,  \* bound: where the failure count saturates
    MaxMishaps,   \* bound: requests lost, connections cut, handlers crashed,
                  \* responses whose body is cut off, finishes refused, the
                  \* session ended
    NoReply       \* nothing has come back yet

ASSUME MaxActionsAssumption == MaxActions \in Nat
ASSUME BatchLimitAssumption == BatchLimit \in Nat \ {0}
\* Saturating the count hides no delay.
ASSUME MaxFailuresAssumption ==
    /\ MaxFailures \in Nat \ {0}
    /\ RetryMax \in Nat \ {0}
    /\ 2^(MaxFailures - 1) >= RetryMax

Ids == 1..MaxActions

VARIABLES
    loaded,       \* `loaded`: the boot fetched config and state
    round,        \* minigameRef.current: "none" or "playing"
    completed,    \* a match is complete, its finish is the next timer
    finishing,    \* finishingRef.current names the session
    finish,       \* the finish on its way, and its answer on its way back
    posts,        \* history: finishes posted for the round's session; bound: a
                  \* page plays no other round once it has finished one
    hidden,       \* history: what an older answer than the screen's took off it
    queue,        \* `queue`: not yet posted
    batch,        \* the local of the flush under way
    inFlight,     \* `inFlight`
    awaited,      \* the message whose response flush awaits; 0 for none
    failures,     \* `consecutiveFailures`
    wait,         \* flush intervals until nextAllowedAttemptAt
    authStopped,  \* `authStopped`
    pending,      \* pendingActionsRef.current, always in the order of the ids
    base,         \* the actions the page's canonical state accounts for
    nextId,       \* `nextId`
    open,         \* the page is still there
    session,      \* the server still accepts the session cookie
    transit,      \* requests on their way to the server
    reply,        \* the response on its way back to the awaited post
    applied,      \* history: actions in the order the server applied them
    beaconed,     \* history: actions sent by sendBeacon
    mishaps,      \* how much of the bound is used up
    torn          \* history: a response broke off

client == <<queue, batch, inFlight, awaited, failures, wait, authStopped,
            pending, base, nextId, open>>
play == <<loaded, round, completed, finishing, finish, posts>>
queueVars == <<client, play, hidden, session, transit, reply, applied, beaconed, mishaps, torn>>

QueueInit ==
    /\ queue = <<>> /\ batch = <<>> /\ pending = {}
    /\ inFlight = FALSE /\ awaited = 0 /\ reply = NoReply
    /\ failures = 0 /\ wait = 0 /\ authStopped = FALSE
    /\ base = {} /\ nextId = 1
    /\ open = TRUE /\ session = TRUE
    /\ transit = {} /\ applied = <<>> /\ beaconed = {}
    /\ mishaps = 0 /\ torn = FALSE
    /\ loaded = FALSE /\ round = "none" /\ completed = FALSE
    /\ finishing = FALSE /\ finish = NoReply /\ posts = 0
    /\ hidden = {}

-----------------------------------------------------------------------------

(***************************************************************************)
(* Messages.  An id tells the awaited post from every other request that   *)
(* is still under way.                                                     *)
(***************************************************************************)
Ok(log) == [status |-> "ok", log |-> log]
Failed(s) == [status |-> s, log |-> {}]

FreshMessage ==
    LET used == {m.id : m \in transit} \union {awaited}
    IN CHOOSE i \in 1..(Cardinality(transit) + 2) : i \notin used

Answer(m, r) ==
    /\ transit' = transit \ {m}
    /\ reply' = IF m.id = awaited THEN r ELSE reply

Mishap == mishaps < MaxMishaps /\ mishaps' = mishaps + 1

-----------------------------------------------------------------------------

\* The two early returns of flush().
MayFlush(q) == ~authStopped /\ ~inFlight /\ q # <<>> /\ wait = 0

\* flush() up to its await, on the queue q.
Flush(q) ==
    IF MayFlush(q)
    THEN /\ batch' = q
         /\ queue' = <<>>
         /\ inFlight' = TRUE
         /\ awaited' = FreshMessage
         /\ transit' = transit \union {[id |-> FreshMessage, actions |-> q]}
    ELSE /\ queue' = q
         /\ UNCHANGED <<batch, inFlight, awaited, transit>>

\* The queue's dispatch(): an IMMEDIATE action is flushed at once.
Enqueue(immediate) ==
    /\ nextId' = nextId + 1
    /\ IF immediate
       THEN Flush(Append(queue, nextId))
       ELSE /\ queue' = Append(queue, nextId)
            /\ UNCHANGED <<batch, inFlight, awaited, transit>>

\* dispatchAction: into the queue, then onto the replay list.
Dispatch(immediate) ==
    /\ open /\ loaded
    /\ nextId <= MaxActions
    /\ Enqueue(immediate)
    /\ pending' = pending \union {nextId}
    /\ UNCHANGED <<play, hidden, failures, wait, authStopped, base, open, session, reply,
                   applied, beaconed, mishaps, torn>>

\* The auto-flush interval.
AutoFlush ==
    /\ open
    /\ MayFlush(queue)
    /\ Flush(queue)
    /\ UNCHANGED <<play, hidden, failures, wait, authStopped, pending, base, nextId, open,
                   session, reply, applied, beaconed, mishaps, torn>>

Tick ==
    /\ open
    /\ wait > 0
    /\ wait' = wait - 1
    /\ UNCHANGED <<play, hidden, queue, batch, inFlight, awaited, failures, authStopped,
                   pending, base, nextId, open, session, transit, reply,
                   applied, beaconed, mishaps, torn>>

-----------------------------------------------------------------------------

\* Mutant. Dropping the whole replay list.
PendingAfterAll(ids) == {}

\* The replay list without the actions named.
PendingAfter(ids) == pending \ ids

\* A 2xx: the results name every action of the batch.
Reconcile ==
    /\ open
    /\ awaited # 0 /\ reply # NoReply /\ reply.status = "ok"
    /\ inFlight' = FALSE /\ awaited' = 0 /\ reply' = NoReply
    /\ batch' = <<>>
    /\ failures' = 0 /\ wait' = 0
    /\ pending' = PendingAfter(Range(batch))
    /\ base' = reply.log
    /\ hidden' = {}
    /\ UNCHANGED <<play, queue, authStopped, nextId, open, session, transit, applied,
                   beaconed, mishaps, torn>>

\* Mutant. Retrying behind what was dispatched meanwhile.
RequeuedBehind == queue \o batch

\* Mutant. Not retrying at all.
RequeuedNever == queue

\* `batch.concat(queue)`.
Requeued == batch \o queue

Delay(n) == LET d == 2^(n - 1) IN IF d < RetryMax THEN d ELSE RetryMax

\* A batch-level failure: the error branch of flush.
Fail(status) ==
    /\ inFlight' = FALSE /\ awaited' = 0 /\ reply' = NoReply
    /\ queue' = Requeued
    /\ batch' = <<>>
    /\ failures' = IF failures < MaxFailures THEN failures + 1 ELSE failures
    /\ IF status = "unauthorized"
       THEN authStopped' = TRUE /\ wait' = wait
       ELSE authStopped' = authStopped /\ wait' = Delay(failures')
    /\ UNCHANGED <<play, hidden, pending, base, nextId, open, session, applied, beaconed, torn>>

Refused ==
    /\ open
    /\ awaited # 0 /\ reply # NoReply /\ reply.status # "ok"
    /\ Fail(reply.status)
    /\ UNCHANGED <<play, hidden, transit, mishaps>>

\* The connection breaks under the post: the client sees a network error, the
\* server may still get the request or may have answered it already.
Disconnect ==
    /\ open
    /\ awaited # 0
    /\ Mishap
    /\ Fail("network")
    /\ UNCHANGED transit

\* The response body breaks off: `await res.text()` rejects, outside the try,
\* and so does flush; nothing after its await runs.
BodyTorn ==
    /\ open
    /\ awaited # 0 /\ reply # NoReply
    /\ Mishap
    /\ torn' = TRUE
    /\ awaited' = 0 /\ reply' = NoReply
    /\ UNCHANGED <<play, hidden, queue, batch, inFlight, failures, wait, authStopped, pending,
                   base, nextId, open, session, transit, applied, beaconed>>

-----------------------------------------------------------------------------

\* What flushViaBeacon sends: the queue, not the batch in flight.
BeaconActions == queue

\* flushViaBeacon with onBeaconFlush (handleBeaconFlush).
Beacon ==
    /\ queue # <<>>
    /\ transit' = transit \union {[id |-> FreshMessage, actions |-> BeaconActions]}
    /\ pending' = PendingAfter(Range(queue))
    /\ queue' = <<>>
    /\ beaconed' = beaconed \union Range(queue)

\* visibilitychange to hidden.
Hide ==
    /\ open
    /\ Beacon
    /\ UNCHANGED <<play, hidden, batch, inFlight, awaited, failures, wait, authStopped, base,
                   nextId, open, session, reply, applied, mishaps, torn>>

\* The page goes away: pagehide, then nobody is left to hear an answer.
Close ==
    /\ open
    /\ IF queue = <<>> THEN UNCHANGED <<queue, pending, transit, beaconed>> ELSE Beacon
    /\ open' = FALSE /\ awaited' = 0 /\ reply' = NoReply
    /\ round' = "none" /\ completed' = FALSE /\ finishing' = FALSE /\ finish' = NoReply
    /\ UNCHANGED <<loaded, posts, hidden, batch, inFlight, failures, wait, authStopped, base, nextId,
                   session, applied, mishaps, torn>>

-----------------------------------------------------------------------------

(***************************************************************************)
(* The page's boot and its minigame rounds.                                *)
(***************************************************************************)

\* fetchConfig and fetchState, both answered; otherwise the boot screen stays.
BootGame ==
    /\ open /\ ~loaded
    /\ session
    /\ loaded' = TRUE
    /\ base' = Range(applied)
    /\ UNCHANGED <<round, completed, finishing, finish, posts, hidden, queue, batch,
                   inFlight, awaited, failures, wait, authStopped, pending, nextId, open,
                   session, transit, reply, applied, beaconed, mishaps, torn>>

\* A start the server granted.
StartRound ==
    /\ open /\ loaded
    /\ round = "none" /\ ~completed /\ posts = 0
    /\ round' = "playing"
    /\ UNCHANGED <<client, loaded, completed, finishing, finish, posts, hidden, session, transit, reply,
                   applied, beaconed, mishaps, torn>>

\* finishMinigameRound up to its await: one finish per session at a time.
FinishMinigameRound ==
    IF finishing
    THEN UNCHANGED <<finishing, finish, posts>>
    ELSE /\ finishing' = TRUE
         /\ finish' = [status |-> "sent", log |-> {}]
         /\ posts' = posts + 1

\* The heartbeat takes the round off the page before it finishes it.
Heartbeat ==
    /\ open /\ round = "playing"
    /\ round' = "none"
    /\ FinishMinigameRound
    /\ UNCHANGED <<client, loaded, completed, hidden, session, transit, reply,
                   applied, beaconed, mishaps, torn>>

\* Mutant. The round stays on the page until the timer has run.
TapLastTileLate ==
    /\ open /\ round = "playing" /\ ~completed
    /\ completed' = TRUE
    /\ UNCHANGED <<client, loaded, round, finishing, finish, posts, hidden, session, transit,
                   reply, applied, beaconed, mishaps, torn>>

\* The last pair of a match: the round is off the page, its finish a timer.
TapLastTile ==
    /\ open /\ round = "playing" /\ ~completed
    /\ completed' = TRUE
    /\ round' = "none"
    /\ UNCHANGED <<client, loaded, finishing, finish, posts, hidden, session, transit,
                   reply, applied, beaconed, mishaps, torn>>

FinishTimer ==
    /\ open /\ completed
    /\ completed' = FALSE
    /\ FinishMinigameRound
    /\ UNCHANGED <<client, loaded, round, hidden, session, transit, reply,
                   applied, beaconed, mishaps, torn>>

CancelRound ==
    /\ open /\ round = "playing"
    /\ round' = "none"
    /\ UNCHANGED <<client, loaded, completed, finishing, finish, posts, hidden, session,
                   transit, reply, applied, beaconed, mishaps, torn>>

\* POST /api/minigame/finish answers with the save as it is then, or refuses.
AnswerFinish ==
    /\ finish # NoReply /\ finish.status = "sent"
    /\ \/ session /\ finish' = Ok(Range(applied)) /\ UNCHANGED mishaps
       \/ ~session /\ finish' = Failed("unauthorized") /\ UNCHANGED mishaps
       \/ Mishap /\ finish' = Failed("refused")
    /\ UNCHANGED <<client, loaded, round, completed, finishing, posts, hidden, session,
                   transit, reply, applied, beaconed, torn>>

\* Its answer, whenever it arrives: handleReconcile(res.state, []).
ReceiveFinish ==
    /\ open
    /\ finish # NoReply /\ finish.status # "sent"
    /\ finishing' = FALSE /\ finish' = NoReply
    /\ IF finish.status = "ok"
       THEN base' = finish.log /\ hidden' = (hidden \union base) \ finish.log
       ELSE UNCHANGED <<base, hidden>>
    /\ UNCHANGED <<loaded, round, completed, posts, queue, batch, inFlight, awaited,
                   failures, wait, authStopped, pending, nextId, open, session, transit, reply,
                   applied, beaconed, mishaps, torn>>

-----------------------------------------------------------------------------

(***************************************************************************)
(* The server and the network.                                             *)
(***************************************************************************)

Accepted(m) == session /\ Len(m.actions) <= BatchLimit

\* POST /api/actions to its end.
Handle(m) ==
    /\ Accepted(m)
    /\ applied' = applied \o m.actions
    /\ Answer(m, Ok(Range(applied')))
    /\ UNCHANGED <<client, play, hidden, session, beaconed, mishaps, torn>>

\* 401 from requireAuth, or 400 for a batch over the limit.
TurnAway(m) ==
    /\ ~Accepted(m)
    /\ Answer(m, Failed(IF session THEN "too_long" ELSE "unauthorized"))
    /\ UNCHANGED <<client, play, hidden, session, applied, beaconed, mishaps, torn>>

\* The handler throws: before putSave, or after it (the participation writes
\* follow the save).
Throw(m) ==
    /\ Accepted(m)
    /\ Mishap
    /\ applied' \in {applied, applied \o m.actions}
    /\ Answer(m, Failed("server"))
    /\ UNCHANGED <<client, play, hidden, session, beaconed, torn>>

\* The request never arrives.
Drop(m) ==
    /\ Mishap
    /\ Answer(m, Failed("network"))
    /\ UNCHANGED <<client, play, hidden, session, applied, beaconed, torn>>

SessionEnds ==
    /\ session
    /\ Mishap
    /\ session' = FALSE
    /\ UNCHANGED <<client, play, hidden, transit, reply, applied, beaconed, torn>>

ServeActions == \E m \in transit : Handle(m) \/ TurnAway(m)

QueueNext ==
    \/ \E immediate \in BOOLEAN : Dispatch(immediate)
    \/ AutoFlush
    \/ Tick
    \/ Reconcile
    \/ Refused
    \/ Disconnect
    \/ BodyTorn
    \/ Hide
    \/ Close
    \/ BootGame
    \/ StartRound \/ Heartbeat \/ TapLastTile \/ FinishTimer \/ CancelRound
    \/ AnswerFinish \/ ReceiveFinish
    \/ ServeActions
    \/ \E m \in transit : Throw(m) \/ Drop(m)
    \/ SessionEnds

QueueSpec == QueueInit /\ [][QueueNext]_queueVars

\* The interval keeps firing and time keeps passing, a response that arrived
\* is read, and the server answers what reached it.  Nothing makes a click, a
\* failure or a closed page happen.
QueueFairSpec ==
    QueueSpec /\ WF_queueVars(AutoFlush) /\ WF_queueVars(Tick) /\ WF_queueVars(Reconcile \/ Refused)
         /\ WF_queueVars(ServeActions)

-----------------------------------------------------------------------------

Dispatched == 1..(nextId - 1)

\* The position of the first time the server applied an action.
FirstTime(a) ==
    CHOOSE i \in 1..Len(applied) : applied[i] = a /\ \A j \in 1..(i - 1) : applied[j] # a

\* The types of the queue, the page and the network.
QueueTypeOK ==
    /\ queue \in Seq(Ids) /\ batch \in Seq(Ids) /\ pending \subseteq Ids
    /\ inFlight \in BOOLEAN /\ authStopped \in BOOLEAN
    /\ open \in BOOLEAN /\ session \in BOOLEAN
    /\ awaited \in Nat /\ nextId \in 1..(MaxActions + 1)
    /\ failures \in 0..MaxFailures /\ wait \in 0..RetryMax
    /\ base \subseteq Ids /\ beaconed \subseteq Ids
    /\ applied \in Seq(Ids)
    /\ loaded \in BOOLEAN /\ completed \in BOOLEAN /\ finishing \in BOOLEAN
    /\ round \in {"none", "playing"} /\ hidden \subseteq Ids
    /\ \A m \in transit : m.id \in Nat /\ m.actions \in Seq(Ids) \ {<<>>}
    /\ awaited # 0 => inFlight /\ batch # <<>>

\* What the player did stays on the screen until a beacon carries it away: it is
\* part of the canonical state or it is replayed on top of it (RackStack.jsx: "so
\* in-flight optimism isn't lost/flickered away").  Only the answer to a finish,
\* taken before a batch was applied and arriving after the batch's own, hides
\* it, until the queue's next answer.
NothingFlickers ==
    open => Dispatched \subseteq base \union pending \union beaconed \union hidden

\* A round is redeemed at most once, though the last tile and the heartbeat both
\* finish it (RackStack.jsx: "from ever posting two finish calls for the same
\* session"), so the player never sees the refusal of the second.
RoundFinishedOnce == posts <= 1

\* The server first applies a player's actions in the order they were made,
\* whatever is lost, retried or delivered late, unless a beacon carried the
\* earlier or the later one.
OvertakenOnlyByBeacon ==
    \A a, b \in Range(applied) : a < b /\ FirstTime(b) < FirstTime(a) => {a, b} \cap beaconed # {}

\* Every click is eventually applied, or carried off by a beacon, while the page
\* stays open and the session lives (flush: retry with capped backoff, forever),
\* whatever fails in between but a response that breaks off, which wedges the
\* queue, and as long as a batch stays under the server's limit.
EveryClickCounts ==
    \A a \in Ids : a \in pending ~>
        (a \in Range(applied) \union beaconed \/ ~open \/ ~session \/ torn)

=============================================================================
