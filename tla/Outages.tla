------------------------------- MODULE Outages ------------------------------
(***************************************************************************)
(* shared/outages.js: parts of the infrastructure that run at a factor of  *)
(* their output for a while.  Hazards are derived from the time they were  *)
(* scheduled for, fired when the save is next evaluated, and absorbed by a *)
(* matching supply; grid maintenance is announced; an overheated rack goes *)
(* down.  Factors are counted in 1 .. Full.                                *)
(***************************************************************************)
EXTENDS Economy, SequencesExt

CONSTANTS
    Full,               \* the factor of undisturbed output
    Draw, DrawRange,    \* the hash of a scheduled time, per salt, below DrawRange
    MaxHazards          \* MAX_HAZARDS_PER_EVALUATION

ASSUME DrawAssumption ==
    /\ {Full, DrawRange, MaxHazards} \subseteq Positive
    /\ \A t \in 0 .. MaxClock, salt \in 0 .. 2 : Draw[<<t, salt>>] \in 0 .. DrawRange - 1

HazardKinds == <<"ransomware", "ispOutage", "driveFailure">>
SupplyForKind == [ransomware |-> "antivirus", ispOutage |-> "backupIsp", driveFailure |-> "spareDrives"]
EveryIndex == -1

ScopeCovers(scope, lane, i) ==
    \/ scope.lane = "*"
    \/ scope.lane = lane /\ scope.index \in {EveryIndex, i}

PruneExpired(outages, now) == {o \in outages : o.endAt > now}

(***************************************************************************)
(* The integral of the factors of the outages over [from, to): constant    *)
(* between two boundaries, where it is sampled in the middle.  Overlapping *)
(* outages multiply.                                                       *)
(***************************************************************************)
Combined(outages) == FoldSet(LAMBDA o, f : (f * o.factor) \div Full, Full, outages)

WeightedFactor(outages, lane, i, from, to) ==
    LET relevant == {o \in outages : ScopeCovers(o.scope, lane, i) /\ o.endAt > from /\ o.startAt < to}
        inside == {t \in UNION {{o.startAt, o.endAt} : o \in relevant} : from < t /\ t < to}
        Next(a) == Min({t \in inside \cup {to} : t > a})
    IN  SumFunction([a \in inside \cup {from} |->
            (Next(a) - a)
                * Combined({o \in relevant : 2 * o.startAt <= a + Next(a) /\ a + Next(a) < 2 * o.endAt})])

(***************************************************************************)
(* Hazards.                                                                *)
(***************************************************************************)
RiskOn(source) == riskEnabled /\ config.risk[source]

SupplyCost(s, supply, now) ==
    SupplyPrice(config.risk.priceSeconds[supply], config.risk.supplyPriceMin, TotalOutputPerSec(s, now))

\* The n-th of a non-empty list, by the hash of a time.
Pick(list, t, salt) == list[1 + (Draw[<<t, salt>>] * Len(list)) \div DrawRange]

OwnedTiers(s) == SetToSortSeq({i \in Tiers : s.run.tiers[i].owned > 0}, <)

\* The hazard a scheduled time stands for, or None.
HazardFrom(t, s) ==
    LET Enabled(k) == IF config.risk.kinds[k].enabled THEN <<k>> ELSE <<>>
        kinds == Enabled(HazardKinds[1]) \o Enabled(HazardKinds[2]) \o Enabled(HazardKinds[3])
        kind == Pick(kinds, t, 0)
        Hazard(scope) == [id |-> <<"hazard", t>>, kind |-> kind, scope |-> scope,
                          factor |-> config.risk.kinds[kind].factor,
                          startAt |-> t, endAt |-> t + config.risk.kinds[kind].duration,
                          source |-> "hazard"]
    IN  IF kinds = <<>> \/ (kind = "driveFailure" /\ OwnedTiers(s) = <<>>) THEN None
        ELSE Hazard(CASE kind = "ransomware" -> [lane |-> "*", index |-> EveryIndex]
                      [] kind = "ispOutage" -> [lane |-> "grid", index |-> EveryIndex]
                      [] kind = "driveFailure" -> [lane |-> "tiers", index |-> Pick(OwnedTiers(s), t, 1)])

\* The rng draws a delay; the schedule is then stored.
ScheduledHazards(s, now) ==
    {[s EXCEPT !.server.nextHazardAt = now + d] : d \in config.risk.hazardDelays}

\* A stocked supply is spent instead of going down; the player is told either way.
AbsorbOrGoDown(s, hazard) ==
    LET supply == SupplyForKind[hazard.kind]
        absorbed == s.meta.supplies[supply] >= 1
        told == [s EXCEPT !.server.outageNotices =
                     @ \cup {[kind |-> hazard.kind, absorbed |-> absorbed, at |-> hazard.startAt]}]
    IN  IF absorbed THEN [told EXCEPT !.meta.supplies[supply] = @ - 1]
        ELSE [told EXCEPT !.server.outages = @ \cup {hazard}]

\* One due hazard fires, and the next is scheduled from its time.
FireHazard(s) ==
    LET t == s.server.nextHazardAt
        hazard == HazardFrom(t, s)
        isNew == hazard # None /\ \A o \in s.server.outages : o.id # <<"hazard", t>>
    IN  ScheduledHazards(IF isNew THEN AbsorbOrGoDown(s, hazard) ELSE s, t)

Due(s, now) == s.server.nextHazardAt <= now
FireDue(states, now) == UNION {IF Due(s, now) THEN FireHazard(s) ELSE {s} : s \in states}
Reschedule(states, now) == UNION {IF Due(s, now) THEN ScheduledHazards(s, now) ELSE {s} : s \in states}

\* At most MaxHazards fire; a backlog beyond that is skipped.
FireDueHazards(s, now) ==
    LET fired[k \in 0 .. MaxHazards] == IF k = 0 THEN {s} ELSE FireDue(fired[k - 1], now)
    IN  IF ~RiskOn("hazardsEnabled") THEN {s}
        ELSE IF s.server.nextHazardAt = 0 THEN ScheduledHazards(s, now)
        ELSE Reschedule(fired[MaxHazards], now)

(***************************************************************************)
(* Maintenance and overheating.                                            *)
(***************************************************************************)
ScheduledMaintenance(s, now) ==
    {[s EXCEPT !.server.gridMaintenance =
          [index |-> i, startAt |-> now + d, endAt |-> now + d + config.risk.maintenanceDuration]] :
        i \in Grid, d \in config.risk.maintenanceDelays}

\* A window that has begun becomes an outage, even one that is already over.
ActivateDueMaintenance(s, now) ==
    LET gm == s.server.gridMaintenance
        outage == [id |-> <<"maintenance", gm.startAt>>, kind |-> "maintenance",
                   scope |-> [lane |-> "grid", index |-> gm.index], factor |-> 0,
                   startAt |-> gm.startAt, endAt |-> gm.endAt, source |-> "scheduled"]
    IN  IF ~RiskOn("maintenanceEnabled") \/ gm = None THEN s
        ELSE IF gm.startAt > now THEN s
        ELSE [s EXCEPT !.server.gridMaintenance = None, !.server.outages = @ \cup {outage}]

\* A meltdown takes a rack down, or, without one to take, freezes the lane.
Overheat(s, now) ==
    LET cooled == [s EXCEPT !.run.heat = 0]
        outage == [id |-> <<"overheat", now>>, kind |-> "overheat",
                   scope |-> [lane |-> "tiers", index |-> Pick(OwnedTiers(s), now, 2)], factor |-> 0,
                   startAt |-> now, endAt |-> now + config.risk.overheatOutage, source |-> "overheat"]
    IN  IF RiskOn("overheatShutdownEnabled") /\ OwnedTiers(s) # <<>>
        THEN [cooled EXCEPT !.server.outages = @ \cup {outage}]
        ELSE [cooled EXCEPT !.run.heatCooldownUntil = now + config.heat.overheatCooldown]

(***************************************************************************)
(* What the player does about it.                                          *)
(***************************************************************************)
BuySupply(id) ==
    LET cost == SupplyCost(save, id, clock)
    IN  /\ Posts("buySupply")
        /\ cost <= save.run.credits
        /\ save.meta.supplies[id] < MaxOwned
        /\ Succeed([save EXCEPT !.run.credits = @ - cost, !.meta.supplies[id] = @ + 1])

\* Balances are whole here, so a fraction of a FLOP is paid as a whole one.
PriceOfCure(o) ==
    Ceiling(CureCost([num |-> SupplyCost(save, SupplyForKind[o.kind], clock), den |-> 1],
                     config.risk.cureMultiplier, o.endAt - clock, o.endAt - o.startAt))

\* The outage ends now: the time it was down stays on the books.
ResolveOutage(o) ==
    /\ Posts("resolveOutage")
    /\ o.source = "hazard" /\ clock < o.endAt
    /\ PriceOfCure(o) <= save.run.credits
    /\ Succeed([save EXCEPT !.run.credits = @ - PriceOfCure(o),
                            !.server.outages = (@ \ {o}) \cup {[o EXCEPT !.endAt = clock]}])
=============================================================================
