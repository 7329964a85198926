---------------------------- MODULE ConfigService ----------------------------
(***************************************************************************)
(* The tunables and what a request is evaluated with: the config row, its  *)
(* history, the in-process cache of it, and the cache of the effective     *)
(* config, which is the config with the active event laid over it          *)
(* (server/configService.js).                                              *)
(*                                                                         *)
(* One process changes things: boot, then an admin, a coordinator or the   *)
(* scheduler, one at a time (EventLifecycle has their interleavings).  Any *)
(* number of loads run beside it; each of its awaited statements, and each *)
(* of theirs, is an action.  Documents stand for their texts.              *)
(***************************************************************************)
EXTENDS Naturals, Sequences, SequencesExt

CONSTANTS
    Docs,        \* documents that validateConfig accepts
    Legacy,      \* documents earlier builds have stored
    Upgrade,     \* upgradeConfig, and defaults if that is not valid
    Default,     \* DEFAULT_CONFIG
    Events, Windows,
    Loads,       \* requests that evaluate a save
    None,        \* no row, an empty cache, no event
    MaxVersion, MaxChanges, MaxMishaps

Stored == Docs \cup Legacy

ASSUME DocAssumption ==
    /\ Default \in Docs
    /\ Upgrade \in [Stored -> Docs]
    /\ \A d \in Stored : Upgrade[Upgrade[d]] = Upgrade[d]
ASSUME ConfigBounds == {MaxVersion, MaxChanges, MaxMishaps} \subseteq Nat

Config == [version: Nat, data: Stored]
Event == [id: Events, window: Windows]
ASSUME NoneAssumption == None \notin Config \cup Event \cup Stored \cup Events

VARIABLES
    row, history,           \* the tables config and config_history
    active,                 \* the row of the active event
    cache, effectiveCache,  \* the module variables of configService
    up,                     \* the server listens
    doing, draft,              \* the changing process: where it is, what it writes
    load,                   \* the loads under way
    acked,                  \* history: the config and event last acknowledged
    failed, overlapped,     \* history: a write of the config has failed; a load
                            \* held the event's row while it was changed
    changes, mishaps        \* changes of the active event and mishaps so far

tables == <<row, history, active>>
configVars == <<tables, cache, effectiveCache, up, doing, draft, load, acked, failed, overlapped, changes, mishaps>>

(***************************************************************************)
(* A load: where it is, the config and the event it has read, what it was  *)
(* given; docs and events are history, all that has held while it read.    *)
(***************************************************************************)
Reading == {"read", "fill"}
Idle == [at |-> "idle", base |-> None, event |-> None, served |-> None, docs |-> {}, events |-> {}]

ConfigInit ==
    /\ \/ row = None /\ history = <<>>
       \/ \E d \in Stored : row = [version |-> 1, data |-> d] /\ history = <<row>>
    /\ active \in Event \cup {None}
    /\ cache = None /\ effectiveCache = None
    /\ up = FALSE
    /\ doing = "boot" /\ draft = None
    /\ load = [l \in Loads |-> Idle]
    /\ acked = [data |-> None, event |-> None]
    /\ failed = FALSE /\ overlapped = FALSE
    /\ changes = 0 /\ mishaps = 0

-----------------------------------------------------------------------------

Id(e) == IF e = None THEN None ELSE e.id

(***************************************************************************)
(* Writing the config.                                                     *)
(***************************************************************************)

\* What has come to hold is noted by the loads under way.
SeenDoc(d) == load' = [l \in Loads |-> IF load[l].at \in Reading
                                       THEN [load[l] EXCEPT !.docs = @ \cup {d}] ELSE load[l]]

SetCache(config) ==
    /\ cache' = config
    /\ up' = TRUE
    /\ doing' = "idle" /\ draft' = None
    /\ acked' = [data |-> config.data, event |-> IF up THEN acked.event ELSE active]
    /\ SeenDoc(config.data)
    /\ UNCHANGED <<tables, effectiveCache, failed, overlapped, changes, mishaps>>

Write(config) ==
    /\ doing' = "putConfigRow" /\ draft' = config
    /\ UNCHANGED <<tables, cache, effectiveCache, up, load, acked, failed, overlapped, changes, mishaps>>

\* Boot: seed the row, bring it up to this build's schema, or take it as it is.
EnsureConfig ==
    /\ doing = "boot"
    /\ IF row = None THEN Write([version |-> 1, data |-> Default])
       ELSE IF Upgrade[row.data] # row.data
            THEN Write([version |-> row.version + 1, data |-> Upgrade[row.data]])
            ELSE SetCache(row)

\* Mutant. Writing a changed document under the number it had.
UpdateConfigSameVersion(d) ==
    /\ doing = "idle" /\ d \in Docs
    /\ Write([version |-> cache.version, data |-> d])

UpdateConfig(d) ==
    /\ doing = "idle" /\ d \in Docs
    /\ cache.version < MaxVersion
    /\ Write([version |-> cache.version + 1, data |-> d])

\* The newest entry of a version.
Found(v) == SelectLastInSeq(history, LAMBDA h : h.version = v)

\* An old document becomes the newest version, if this build still accepts it.
RollbackConfig(v) ==
    /\ doing = "idle" /\ Found(v) # 0 /\ history[Found(v)].data \in Docs
    /\ cache.version < MaxVersion
    /\ Write([version |-> cache.version + 1, data |-> history[Found(v)].data])

PutConfigRow ==
    /\ doing = "putConfigRow"
    /\ row' = draft
    /\ doing' = "putHistory"
    /\ UNCHANGED <<history, active, cache, effectiveCache, up, draft, load, acked,
                   failed, overlapped, changes, mishaps>>

PutHistory ==
    /\ doing = "putHistory"
    /\ history' = Append(history, draft)
    /\ doing' = "stored"
    /\ UNCHANGED <<row, active, cache, effectiveCache, up, draft, load, acked,
                   failed, overlapped, changes, mishaps>>

Acknowledge == doing = "stored" /\ SetCache(draft)

\* A statement fails, or its answer is lost: the request is answered 500 and the
\* caches stay.  At boot it is fatal: see Reboot.
Fail ==
    /\ up /\ doing # "idle"
    /\ mishaps < MaxMishaps
    /\ mishaps' = mishaps + 1
    /\ doing' = "idle" /\ draft' = None
    /\ failed' = TRUE
    /\ UNCHANGED <<tables, cache, effectiveCache, up, load, acked, overlapped, changes>>

-----------------------------------------------------------------------------
(***************************************************************************)
(* Changing the active event (setEventStatus or putEvent, then             *)
(* invalidateEffectiveConfig).                                             *)
(***************************************************************************)

SetActive(e) ==
    /\ active' = e
    /\ load' = [l \in Loads |-> IF load[l].at \in Reading
                                THEN [load[l] EXCEPT !.events = @ \cup {e}] ELSE load[l]]
    /\ UNCHANGED <<row, history, cache, effectiveCache, up, acked, failed, overlapped, mishaps>>

Change == changes < MaxChanges /\ changes' = changes + 1

\* Another event that is active is ended first, by a statement of its own.
ActivateEvent(e) ==
    /\ doing = "idle" /\ Id(active) # e.id /\ Change
    /\ IF active = None
       THEN SetActive(e) /\ doing' = "invalidate" /\ UNCHANGED draft
       ELSE SetActive(None) /\ doing' = "activateEvent" /\ draft' = e

ActivateEventSet ==
    /\ doing = "activateEvent"
    /\ SetActive(draft) /\ doing' = "invalidate" /\ draft' = None /\ UNCHANGED changes

EndEvent ==
    /\ doing = "idle" /\ active # None /\ Change
    /\ SetActive(None) /\ doing' = "invalidate" /\ UNCHANGED draft

\* Another window for the active event: the key of the cache stays the same.
PutEvent(w) ==
    /\ doing = "idle" /\ active # None /\ Change
    /\ SetActive([active EXCEPT !.window = w]) /\ doing' = "invalidate" /\ UNCHANGED draft

InvalidateEffectiveConfig ==
    /\ doing = "invalidate"
    /\ effectiveCache' = None
    /\ doing' = "idle"
    /\ overlapped' = (overlapped \/ \E l \in Loads : load[l].at = "fill" /\ load[l].event # active)
    /\ acked' = [acked EXCEPT !.event = active]
    /\ UNCHANGED <<tables, cache, up, draft, load, failed, changes, mishaps>>

-----------------------------------------------------------------------------
(***************************************************************************)
(* getEffectiveConfig, one await after the other.                          *)
(***************************************************************************)

GetConfig(l) ==
    /\ up /\ load[l].at = "idle"
    /\ load' = [load EXCEPT ![l] = [Idle EXCEPT !.at = "read", !.base = cache,
                                                !.docs = {acked.data},
                                                !.events = IF doing \in {"activateEvent", "invalidate"}
                                                    THEN {active, acked.event} ELSE {active}]]
    /\ UNCHANGED <<tables, cache, effectiveCache, up, doing, draft, acked, failed, overlapped, changes, mishaps>>

GetActiveEvent(l) ==
    /\ load[l].at = "read"
    /\ load' = [load EXCEPT ![l].at = "fill", ![l].event = active]
    /\ UNCHANGED <<tables, cache, effectiveCache, up, doing, draft, acked, failed, overlapped, changes, mishaps>>

\* Mutant. Taking the cached config for right while the event is the same.
HitByEvent(base, event) == effectiveCache # None /\ Id(effectiveCache.event) = Id(event)

Hit(base, event) ==
    /\ effectiveCache # None
    /\ effectiveCache.version = base.version
    /\ Id(effectiveCache.event) = Id(event)

GetEffectiveConfig(l) ==
    LET base == load[l].base
        event == load[l].event
        merged == [version |-> base.version, data |-> base.data, event |-> event]
    IN
    /\ load[l].at = "fill"
    /\ effectiveCache' = IF Hit(base, event) THEN effectiveCache ELSE merged
    /\ load' = [load EXCEPT ![l] = [Idle EXCEPT !.at = "served", !.served = effectiveCache',
                                                !.docs = load[l].docs, !.events = load[l].events]]
    /\ UNCHANGED <<tables, cache, up, doing, draft, acked, failed, overlapped, changes, mishaps>>

\* The request is over, or its statement has failed.
LoadEnds(l) ==
    /\ load[l].at \in {"read", "served"}
    /\ load' = [load EXCEPT ![l] = Idle]
    /\ UNCHANGED <<tables, cache, effectiveCache, up, doing, draft, acked, failed, overlapped, changes, mishaps>>

-----------------------------------------------------------------------------

\* The process dies, or its boot fails, and is started again.
Reboot ==
    /\ mishaps < MaxMishaps
    /\ mishaps' = mishaps + 1
    /\ cache' = None /\ effectiveCache' = None
    /\ up' = FALSE
    /\ doing' = "boot" /\ draft' = None
    /\ load' = [l \in Loads |-> Idle]
    /\ UNCHANGED <<tables, acked, failed, overlapped, changes>>

ConfigNext ==
    \/ EnsureConfig
    \/ \E d \in Docs : UpdateConfig(d)
    \/ \E v \in 1..MaxVersion : RollbackConfig(v)
    \/ PutConfigRow \/ PutHistory \/ Acknowledge \/ Fail
    \/ \E e \in Event : ActivateEvent(e)
    \/ ActivateEventSet \/ EndEvent
    \/ \E w \in Windows : PutEvent(w)
    \/ InvalidateEffectiveConfig
    \/ \E l \in Loads : GetConfig(l) \/ GetActiveEvent(l) \/ GetEffectiveConfig(l) \/ LoadEnds(l)
    \/ Reboot

ConfigSpec == ConfigInit /\ [][ConfigNext]_configVars

-----------------------------------------------------------------------------

\* Type invariant.
ConfigTypeOK ==
    /\ row \in Config \cup {None} /\ history \in Seq(Config)
    /\ active \in Event \cup {None}
    /\ cache \in Config \cup {None}
    /\ effectiveCache = None \/ effectiveCache.event \in Event \cup {None}
    /\ doing \in {"boot", "idle", "putConfigRow", "putHistory", "stored", "activateEvent", "invalidate"}
    /\ draft \in Config \cup Event \cup {None}
    /\ up => cache # None
    /\ acked \in [data: Stored \cup {None}, event: Event \cup {None}]
    /\ changes \in Nat /\ mishaps \in Nat

\* A load evaluates with a config that held at some time while it ran, and with
\* an event that was active then.  The event's window is the one it had then,
\* too, unless a load held the event's row across an edit of it, or a statement
\* failed: invalidateEffectiveConfig does not reach what is filled in after it.
ServedIsCurrent ==
    \A l \in Loads : load[l].at = "served" =>
        LET served == load[l].served IN
        /\ served.data \in load[l].docs
        /\ \E e \in load[l].events : Id(e) = Id(served.event)
        /\ served.event \in load[l].events \/ overlapped \/ failed

\* No request is evaluated with a document that this build does not accept,
\* whatever earlier builds have stored or an admin rolls back to.
ServedIsValid == \A l \in Loads : load[l].at = "served" => load[l].served.data \in Docs

\* The history is an append-only log in which a version names one document (the
\* number is all a client or the effective cache compares), and the config row
\* is in it or about to be, unless a write of it was cut off.
VersionsNameDocuments ==
    ~ failed =>
        /\ \A i, j \in 1..Len(history) : i < j => history[i].version < history[j].version
        /\ row # None => \A i \in 1..Len(history) :
              /\ history[i].version <= row.version
              /\ history[i].version = row.version => history[i] = row
=============================================================================
