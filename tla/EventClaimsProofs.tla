------------------------- MODULE EventClaimsProofs -------------------------
(***************************************************************************)
(* Proofs about EventClaims: for any events, ladder, lengths and bounds, a *)
(* rung is paid once per activation and only when it was met, and a met    *)
(* rung survives the supersession of its window.                           *)
(***************************************************************************)
EXTENDS EventClaims, FiniteSetTheorems, TLAPS

-----------------------------------------------------------------------------
(***************************************************************************)
(* The inductive invariant, by what it says of a save (the row in the      *)
(* table, or the copy a request works on).                                 *)
(***************************************************************************)

\* The records of st's windows, and whether st knows of its run n at event e.
Records(st) == st.pending \cup ({st.progress} \ {NoRecord})
Knows(st, e, n) ==
    \/ \E r \in Records(st) : r.event = e /\ r.run = n
    \/ \E i \in Rungs : <<e, n, i>> \in st.paid

Fits(st) == st \in Save /\ IsFiniteSet(st.pending) /\ Cardinality(st.pending) <= MaxPending

\* Pending records differ in event and number, and no two records are of one run.
Numbered(st) == \A p \in st.pending : p.nth <= st.superseded
Apart(st) ==
    /\ \A p, q \in st.pending : p.event = q.event \/ p.nth = q.nth => p = q
    /\ \A p \in st.pending :
          st.progress # NoRecord => p.event # st.progress.event \/ p.run # st.progress.run

\* A rung paid is marked in the record of its run, if there still is one.
Marked(st) ==
    /\ st.paidTwice = {}
    /\ \A r \in Records(st), i \in Rungs : <<r.event, r.run, i>> \in st.paid => i \in r.claimed

\* What is or may yet be paid is met.
Measured(st) ==
    /\ st.paid \subseteq st.met
    /\ st.progress # NoRecord =>
          ~ st.progress.frozen /\ Tagged(st.progress, Met(st.progress, st.metric)) \subseteq st.met
    /\ \A p \in st.pending : p.frozen /\ Tagged(p, p.claimable) \subseteq st.met

\* r is the record that is still kept of the superseded window w.
RecordOf(st, w, r) ==
    /\ r.event = w.event /\ r.run = w.run /\ r.nth = w.nth
    /\ r.ends = w.ends /\ r.claimable = w.claimable
    /\ \A i \in r.claimed \cap w.claimable : <<w.event, w.run, i>> \in st.paid
LastOf(st, w) == \A q \in st.past : q.event = w.event => q.nth <= w.nth
Kept(st, t) ==
    \A w \in st.past :
        /\ w.nth <= st.superseded
        /\ w.nth + MaxPending > st.superseded /\ LastOf(st, w) /\ InGrace(w, t) =>
              \E r \in st.pending : RecordOf(st, w, r)

Sound(st, t) ==
    Fits(st) /\ Numbered(st) /\ Apart(st) /\ Marked(st) /\ Measured(st) /\ Kept(st, t)

\* Its runs have happened, and the one the table is at is the live one.
Dated(st) == \A e \in Events, n \in Nat : Knows(st, e, n) => n \in 1..activations[e]
UpToDate(st) ==
    \A e \in Events : active = e /\ Knows(st, e, activations[e]) => IsLive(st, e)

\* A request at the point of joining what it has read: that run is new to it,
\* and so is whatever else has gone active since.
Reading ==
    pc = "joining" =>
        /\ joining.event # NoEvent =>
              /\ joining.run \in 1..activations[joining.event]
              /\ \/ IsLive(s, joining.event)
                 \/ \A n \in Nat : n >= joining.run => ~ Knows(s, joining.event, n)
        /\ active \notin {NoEvent, joining.event} => ~ Knows(s, active, activations[active])

Simple ==
    /\ clock \in Nat /\ now \in Nat /\ throws \in Nat /\ resets \in Nat
    /\ active \in Events \cup {NoEvent}
    /\ ends \in [Events -> Nat] /\ activations \in [Events -> Nat]
    /\ participation \in [Events -> Nat]
    /\ pc \in {"idle", "join", "joining", "upsert", "apply", "sync"}
    /\ joining \in [event: Events \cup {NoEvent}, ends: Nat, run: Nat]
    /\ touched \subseteq Events
    /\ now <= clock
    /\ active # NoEvent => activations[active] >= 1

IInv ==
    /\ Simple
    /\ Reading
    /\ \A st \in {save, s} : Sound(st, clock) /\ Dated(st) /\ UpToDate(st)

-----------------------------------------------------------------------------
(***************************************************************************)
(* What the model's operators do to a save.                                *)
(***************************************************************************)

LEMMA Numbers ==
    /\ MaxPending \in Nat /\ Grace \in Nat /\ Day \in Nat /\ Length \in Nat
    /\ MaxActivations \in Nat /\ MaxMetric \in Nat /\ MaxClock \in Nat /\ MaxMishaps \in Nat
BY NumberAssumption

LEMMA LadderNumbers == Len(Ladder) \in Nat /\ \A i \in Rungs : Ladder[i] \in Nat
BY LadderAssumption DEF Rungs

LEMMA RungsFinite == IsFiniteSet(Rungs) /\ \A is \in SUBSET Rungs : Cardinality(is) \in Nat
<1>1. IsFiniteSet(Rungs)
  BY LadderNumbers, FS_Interval DEF Rungs
<1>. QED
  BY <1>1, FS_Subset, FS_CardinalityType

LEMMA MetRungs == ASSUME NEW r, NEW m PROVE Met(r, m) \subseteq Rungs
BY DEF Met

LEMMA Tags ==
    ASSUME NEW r \in Record, NEW is \in SUBSET Rungs
    PROVE  /\ Tagged(r, is) \subseteq Rung
           /\ \A e, n, i : <<e, n, i>> \in Tagged(r, is) <=> e = r.event /\ n = r.run /\ i \in is
BY DEF Tagged, Rung, Record

LEMMA SavedRecords ==
    ASSUME NEW st \in Save
    PROVE  /\ Records(st) \subseteq Record /\ st.pending \subseteq Records(st)
           /\ st.progress # NoRecord => st.progress \in Records(st)
BY DEF Records, Save

LEMMA NotedFields ==
    ASSUME NEW st \in Save
    PROVE  /\ Noted(st) \in Save
           /\ Noted(st).metric = st.metric /\ Noted(st).progress = st.progress
           /\ Noted(st).pending = st.pending /\ Noted(st).paid = st.paid
           /\ Noted(st).paidTwice = st.paidTwice /\ Noted(st).past = st.past
           /\ Noted(st).superseded = st.superseded
           /\ st.met \subseteq Noted(st).met
           /\ st.progress # NoRecord =>
                Tagged(st.progress, Met(st.progress, st.metric)) \subseteq Noted(st).met
<1>1. CASE st.progress = NoRecord
  BY <1>1 DEF Noted
<1>2. CASE st.progress # NoRecord
  <2>. DEFINE met == st.met \cup Tagged(st.progress, Met(st.progress, st.metric))
  <2>1. Noted(st) = [st EXCEPT !.met = met]
    BY <1>2 DEF Noted
  <2>2. met \in SUBSET Rung
    BY <1>2, Tags, MetRungs DEF Save
  <2>3. st.met \subseteq met /\ Tagged(st.progress, Met(st.progress, st.metric)) \subseteq met
    OBVIOUS
  <2>. HIDE DEF met
  <2>4. /\ [st EXCEPT !.met = met] \in Save
        /\ [st EXCEPT !.met = met].met = met
    BY <2>2 DEF Save
  <2>5. QED
    BY <2>1, <2>3, <2>4 DEF Save
<1>. QED
  BY <1>1, <1>2

\* Records and payments unchanged, st knows the same runs.
LEMMA SameKnowledge ==
    ASSUME NEW st, NEW st2, st2.progress = st.progress, st2.pending = st.pending, st2.paid = st.paid
    PROVE  /\ Records(st2) = Records(st)
           /\ \A e, n : Knows(st2, e, n) <=> Knows(st, e, n)
           /\ \A e : IsLive(st2, e) <=> IsLive(st, e)
BY DEF Records, Knows, IsLive

\* Evaluating a save or earning in it: what the live window meets is noted.
LEMMA Grown ==
    ASSUME NEW st, NEW t \in Nat, Sound(st, t), NEW m \in Nat
    PROVE  LET st2 == Noted([st EXCEPT !.metric = m]) IN
           /\ Sound(st2, t)
           /\ \A e, n : Knows(st2, e, n) <=> Knows(st, e, n)
           /\ \A e : IsLive(st2, e) <=> IsLive(st, e)
<1>. DEFINE grown == [st EXCEPT !.metric = m]  st2 == Noted(grown)
<1>1. st \in Save
  BY DEF Sound, Fits
<1>2. /\ grown \in Save /\ grown.progress = st.progress /\ grown.pending = st.pending
      /\ grown.paid = st.paid /\ grown.paidTwice = st.paidTwice /\ grown.past = st.past
      /\ grown.met = st.met /\ grown.superseded = st.superseded /\ grown.metric = m
  BY <1>1 DEF Save
<1>. HIDE DEF grown
<1>3. /\ st2 \in Save /\ st2.progress = st.progress /\ st2.pending = st.pending
      /\ st2.paid = st.paid /\ st2.paidTwice = st.paidTwice /\ st2.past = st.past
      /\ st2.superseded = st.superseded /\ st2.metric = m /\ st.met \subseteq st2.met
      /\ st.progress # NoRecord =>
           Tagged(st2.progress, Met(st2.progress, st2.metric)) \subseteq st2.met
  BY <1>2, NotedFields
<1>. HIDE DEF st2
<1>4. /\ Records(st2) = Records(st)
      /\ \A e, n : Knows(st2, e, n) <=> Knows(st, e, n)
      /\ \A e : IsLive(st2, e) <=> IsLive(st, e)
  BY <1>3, SameKnowledge
<1>5. Fits(st2) /\ Numbered(st2) /\ Apart(st2)
  BY <1>3 DEF Sound, Fits, Numbered, Apart
<1>6. Marked(st2)
  BY <1>3, <1>4 DEF Sound, Marked
<1>7. Measured(st2)
  BY <1>3 DEF Sound, Measured
<1>8. Kept(st2, t)
  BY <1>3 DEF Sound, Kept, LastOf, RecordOf
<1>. QED
  BY <1>4, <1>5, <1>6, <1>7, <1>8 DEF Sound, st2, grown

LEMMA LeastNatural ==
    ASSUME NEW N \in SUBSET Nat, N # {}
    PROVE  \E n \in N : \A k \in N : n <= k
<1>. DEFINE less == {ss \in Nat \X Nat : ss[1] < ss[2]}
<1>1. \A x, y \in Nat : <<x, y>> \in less <=> x < y
  OBVIOUS
<1>2. IsWellFoundedOn(less, Nat)
  BY NatLessThanWellFounded DEF OpToRel
<1>. HIDE DEF less
<1>3. PICK n \in N : \A k \in N : <<k, n>> \notin less
  BY <1>2, WFMin
<1>4. \A k \in N : k \in Nat /\ n \in Nat /\ ~ k < n
  BY <1>1, <1>3
<1>. QED
  BY <1>4

\* Superseded windows, each with a number of its own.
OwnNumbers(records) ==
    /\ records \in SUBSET Record /\ IsFiniteSet(records)
    /\ \A p, q \in records : p.nth = q.nth => p = q

\* slice(0, MAX_PENDING_EVENT_CLAIMS) leaves that many.
LEMMA NewestAreFew ==
    ASSUME NEW records, OwnNumbers(records)
    PROVE  /\ Newest(records) \subseteq records /\ IsFiniteSet(Newest(records))
           /\ Cardinality(Newest(records)) <= MaxPending
<1>. DEFINE kept == Newest(records)
<1>1. kept \subseteq records /\ IsFiniteSet(kept)
  BY FS_Subset DEF OwnNumbers, Newest
<1>2. CASE kept = {}
  BY <1>1, <1>2, FS_EmptySet, Numbers
<1>3. CASE kept # {}
  <2>. DEFINE N == {r.nth : r \in kept}
  <2>1. N \in SUBSET Nat /\ N # {}
    BY <1>1, <1>3 DEF OwnNumbers, Record
  <2>2. PICK n \in N : \A k \in N : n <= k
    BY <2>1, LeastNatural
  <2>3. PICK r \in kept : r.nth = n
    BY <2>2
  <2>. DEFINE newer == {q \in records : q.nth > r.nth}
  <2>4. Cardinality(newer) < MaxPending
    BY <2>3 DEF Newest
  <2>5. kept \ {r} \subseteq newer
    <3>. SUFFICES ASSUME NEW q \in kept, q # r PROVE q \in newer
      OBVIOUS
    <3>1. q \in records /\ r \in records /\ q.nth \in Nat /\ r.nth \in Nat
      BY <1>1 DEF OwnNumbers, Record
    <3>2. q.nth >= r.nth
      BY <2>2, <2>3
    <3>3. q.nth # r.nth
      BY <3>1 DEF OwnNumbers
    <3>. QED
      BY <3>1, <3>2, <3>3
  <2>6. IsFiniteSet(newer) /\ Cardinality(newer) \in Nat
    BY FS_Subset, FS_CardinalityType DEF OwnNumbers
  <2>. HIDE DEF newer, kept
  <2>7. Cardinality(kept \ {r}) <= Cardinality(newer) /\ Cardinality(kept \ {r}) \in Nat
    BY <2>5, <2>6, FS_Subset, FS_CardinalityType
  <2>8. Cardinality(kept \ {r}) = Cardinality(kept) - 1 /\ Cardinality(kept) \in Nat
    BY <1>1, FS_RemoveElement, FS_CardinalityType
  <2>9. Cardinality(kept) <= MaxPending
    BY <2>4, <2>6, <2>7, <2>8, Numbers
  <2>. QED
    BY <1>1, <2>9 DEF kept
<1>. QED
  BY <1>2, <1>3

\* It leaves a window that fewer than MaxPending newer ones can have come after.
LEMMA NewestKeeps ==
    ASSUME NEW records, OwnNumbers(records), NEW last \in Nat,
           \A q \in records : q.nth <= last,
           NEW r \in records, r.nth + MaxPending > last
    PROVE  r \in Newest(records)
<1>. DEFINE newer == {q \in records : q.nth > r.nth}
            numbers == (r.nth + 1)..last
            f == [q \in newer |-> q.nth]
<1>1. r.nth \in Nat /\ \A q \in newer : q.nth \in Nat /\ q.nth \in numbers
  BY DEF OwnNumbers, Record
<1>2. IsFiniteSet(numbers) /\ Cardinality(numbers) \in Nat /\ Cardinality(numbers) < MaxPending
  <2>1. r.nth + 1 \in Int /\ last \in Int /\ r.nth <= last
    BY <1>1
  <2>2. IsFiniteSet(numbers) /\ Cardinality(numbers) \in Nat
    BY <2>1, FS_Interval, FS_CardinalityType
  <2>3. Cardinality(numbers) = IF r.nth + 1 > last THEN 0 ELSE last - (r.nth + 1) + 1
    BY <2>1, FS_Interval
  <2>. QED
    BY <1>1, <2>1, <2>2, <2>3, Numbers
<1>3. f \in Injection(newer, numbers)
  BY <1>1 DEF Injection, IsInjective, OwnNumbers
<1>4. Cardinality(newer) <= Cardinality(numbers) /\ IsFiniteSet(newer)
  BY <1>2, <1>3, FS_Injection
<1>5. Cardinality(newer) \in Nat
  BY <1>4, FS_CardinalityType
<1>6. Cardinality(newer) < MaxPending
  BY <1>2, <1>4, <1>5, Numbers
<1>. QED
  BY <1>6 DEF Newest

\* Pruning at a request's own time removes no window that is still in its grace.
LEMMA PrunedKeeps ==
    ASSUME NEW st, NEW t \in Nat, Sound(st, t), NEW n \in Nat, n <= t
    PROVE  /\ Sound(Pruned(st, n), t)
           /\ \A e, k : Knows(Pruned(st, n), e, k) => Knows(st, e, k)
           /\ \A e : IsLive(Pruned(st, n), e) <=> IsLive(st, e)
           /\ Pruned(st, n).progress = st.progress
<1>. DEFINE st2 == Pruned(st, n)
            pending == {p \in st.pending : InGrace(p, n)}
<1>1. st \in Save /\ pending \in SUBSET st.pending
  BY DEF Sound, Fits
<1>2. /\ st2 = [st EXCEPT !.pending = pending]
  BY DEF Pruned
<1>3. \A p \in st.pending : p.ends \in Nat /\ (InGrace(p, t) => p \in pending)
  BY <1>1, Numbers DEF Save, Record, InGrace
<1>. HIDE DEF pending
<1>4. /\ st2 \in Save /\ st2.metric = st.metric /\ st2.progress = st.progress
      /\ st2.pending = pending /\ st2.met = st.met /\ st2.paid = st.paid
      /\ st2.paidTwice = st.paidTwice /\ st2.past = st.past /\ st2.superseded = st.superseded
  BY <1>1, <1>2 DEF Save
<1>. HIDE DEF st2
<1>5. Records(st2) \subseteq Records(st)
  BY <1>1, <1>4 DEF Records
<1>6. \A e, k : Knows(st2, e, k) => Knows(st, e, k)
  BY <1>4, <1>5 DEF Knows
<1>7. \A e : IsLive(st2, e) <=> IsLive(st, e)
  BY <1>4 DEF IsLive
<1>8. Fits(st2)
  <2>1. IsFiniteSet(pending) /\ Cardinality(pending) <= Cardinality(st.pending)
    BY <1>1, FS_Subset DEF Sound, Fits
  <2>2. Cardinality(pending) \in Nat /\ Cardinality(st.pending) \in Nat
    BY <2>1, FS_CardinalityType DEF Sound, Fits
  <2>. QED
    BY <1>4, <2>1, <2>2, Numbers DEF Sound, Fits
<1>9. Numbered(st2) /\ Apart(st2) /\ Marked(st2) /\ Measured(st2)
  BY <1>1, <1>4, <1>5 DEF Sound, Numbered, Apart, Marked, Measured
<1>10. Kept(st2, t)
  <2>1. \A w, r : RecordOf(st, w, r) => RecordOf(st2, w, r) /\ (InGrace(w, t) => InGrace(r, t))
    BY <1>4 DEF RecordOf, InGrace
  <2>. QED
    BY <1>3, <1>4, <2>1 DEF Sound, Kept, LastOf
<1>. QED
  BY <1>4, <1>6, <1>7, <1>8, <1>9, <1>10 DEF Sound, st2

LEMMA FrozenRecord ==
    ASSUME NEW r \in Record, NEW m \in Nat, NEW t \in Nat, NEW n \in Nat
    PROVE  LET frozen == [Frozen(r, m, t) EXCEPT !.nth = n] IN
           /\ frozen \in Record
           /\ frozen.event = r.event /\ frozen.run = r.run /\ frozen.nth = n
           /\ frozen.claimed = r.claimed /\ frozen.frozen
           /\ frozen.claimable = Met(r, m) \ r.claimed
<1>. DEFINE claimable == Met(r, m) \ r.claimed
            ending == IF t < r.ends THEN t ELSE r.ends
            frozen == [r EXCEPT !.frozen = TRUE, !.claimable = claimable, !.ends = ending]
<1>1. claimable \in SUBSET Rungs
  BY MetRungs
<1>2. ending \in Nat
  BY DEF Record
<1>3. Frozen(r, m, t) = frozen
  BY DEF Frozen
<1>. HIDE DEF claimable, ending
<1>4. /\ frozen \in Record /\ frozen.event = r.event /\ frozen.run = r.run
      /\ frozen.claimed = r.claimed /\ frozen.frozen /\ frozen.claimable = claimable
  BY <1>1, <1>2 DEF Record
<1>. HIDE DEF frozen
<1>5. QED
  BY <1>3, <1>4 DEF Record, claimable

\* Superseding the live window clears the slot and keeps what may still be claimed.
LEMMA SupersededKeeps ==
    ASSUME NEW st, NEW t \in Nat, Sound(st, t), NEW n \in Nat, st.progress # NoRecord
    PROVE  /\ Sound(Superseded(st, n), t)
           /\ \A e, k : Knows(Superseded(st, n), e, k) => Knows(st, e, k)
           /\ Superseded(st, n).progress = NoRecord
<1>. DEFINE old == st.progress
            last == st.superseded + 1
            record == [Frozen(old, st.metric, n) EXCEPT !.nth = last]
            others == {p \in st.pending : p.event # old.event}
            records == {record} \cup others
            st2 == Superseded(st, n)
<1>1. /\ st \in Save /\ old \in Record /\ last \in Nat /\ st.metric \in Nat
      /\ st.superseded \in Nat /\ st.pending \in SUBSET Record /\ old \in Records(st)
  BY SavedRecords DEF Sound, Fits, Save
<1>2. CASE ~ InGrace(old, n)
  <2>1. st2 = [st EXCEPT !.progress = NoRecord]
    BY <1>2 DEF Superseded
  <2>2. /\ st2 \in Save /\ st2.metric = st.metric /\ st2.progress = NoRecord
        /\ st2.pending = st.pending /\ st2.met = st.met /\ st2.paid = st.paid
        /\ st2.paidTwice = st.paidTwice /\ st2.past = st.past /\ st2.superseded = st.superseded
    BY <1>1, <2>1 DEF Save
  <2>. HIDE DEF st2
  <2>3. Records(st2) \subseteq Records(st)
    BY <2>2 DEF Records
  <2>4. \A e, k : Knows(st2, e, k) => Knows(st, e, k)
    BY <2>2, <2>3 DEF Knows
  <2>5. Fits(st2) /\ Numbered(st2) /\ Apart(st2) /\ Marked(st2) /\ Measured(st2)
    BY <2>2, <2>3 DEF Sound, Fits, Numbered, Apart, Marked, Measured
  <2>6. Kept(st2, t)
    BY <2>2 DEF Sound, Kept, LastOf, RecordOf
  <2>. QED
    BY <2>2, <2>4, <2>5, <2>6 DEF Sound, st2
<1>3. CASE InGrace(old, n)
  <2>1. /\ record \in Record /\ record.event = old.event /\ record.run = old.run
        /\ record.nth = last /\ record.claimed = old.claimed /\ record.frozen
        /\ record.claimable = Met(old, st.metric) \ old.claimed
    BY <1>1, FrozenRecord
  <2>. DEFINE newest == Newest(records)
  <2>2. st2 = [st EXCEPT !.progress = NoRecord, !.pending = newest,
                         !.past = @ \cup {record}, !.superseded = last]
    BY <1>3 DEF Superseded
  <2>. HIDE DEF record, newest
  <2>3. others \subseteq st.pending /\ IsFiniteSet(others) /\ \A p \in others : p.event # old.event
    BY FS_Subset DEF Sound, Fits
  <2>4. IsFiniteSet(records)
    BY <2>3, FS_AddElement
  <2>5. \A p \in others : p.nth \in Nat /\ p.nth <= st.superseded /\ p.nth < last
    BY <1>1, <2>3 DEF Sound, Numbered, Record
  <2>6. \A p, q \in records : p.event = q.event \/ p.nth = q.nth => p = q
    BY <2>1, <2>3, <2>5 DEF Sound, Apart
  <2>7. OwnNumbers(records)
    BY <1>1, <2>1, <2>3, <2>4, <2>6 DEF OwnNumbers
  <2>8. newest \subseteq records /\ IsFiniteSet(newest) /\ Cardinality(newest) <= MaxPending
    BY <2>7, NewestAreFew DEF newest
  <2>9. \A q \in records : q.nth <= last
    BY <2>1, <2>5, <1>1
  <2>. HIDE DEF records
  <2>10. \A r \in records : r.nth + MaxPending > last => r \in newest
    BY <1>1, <2>7, <2>9, NewestKeeps DEF newest
  <2>11. newest \in SUBSET Record /\ st.past \cup {record} \in SUBSET Record
    BY <1>1, <2>1, <2>7, <2>8 DEF OwnNumbers, Save
  <2>12. /\ st2 \in Save /\ st2.metric = st.metric /\ st2.progress = NoRecord
         /\ st2.pending = newest /\ st2.met = st.met /\ st2.paid = st.paid
         /\ st2.paidTwice = st.paidTwice /\ st2.past = st.past \cup {record}
         /\ st2.superseded = last
    BY <1>1, <2>2, <2>11 DEF Save
  <2>. HIDE DEF st2
  <2>13. \A r \in newest : r = record \/ (r \in st.pending /\ r \in others)
    BY <2>3, <2>8 DEF records
  <2>14. Records(st2) = newest
    BY <2>12 DEF Records
  <2>15. \A r \in Records(st2) : \E q \in Records(st) :
            q.event = r.event /\ q.run = r.run /\ q.claimed = r.claimed
    BY <1>1, <2>1, <2>13, <2>14 DEF Records
  <2>16. \A e, k : Knows(st2, e, k) => Knows(st, e, k)
    BY <2>12, <2>15 DEF Knows
  <2>17. Fits(st2)
    BY <2>8, <2>12 DEF Fits
  <2>18. Numbered(st2)
    BY <2>8, <2>9, <2>12 DEF Numbered
  <2>19. Apart(st2)
    BY <2>6, <2>8, <2>12 DEF Apart
  <2>20. Marked(st2)
    BY <2>12, <2>15 DEF Sound, Marked
  <2>21. Measured(st2)
    <3>1. Tagged(record, record.claimable) \subseteq Tagged(old, Met(old, st.metric))
      BY <2>1 DEF Tagged
    <3>2. Tagged(record, record.claimable) \subseteq st.met
      BY <3>1 DEF Sound, Measured
    <3>. QED
      BY <2>1, <2>12, <2>13, <3>2 DEF Sound, Measured
  <2>22. Kept(st2, t)
    <3>. SUFFICES ASSUME NEW w \in st2.past
                  PROVE  /\ w.nth <= last
                         /\ w.nth + MaxPending > last /\ LastOf(st2, w) /\ InGrace(w, t) =>
                               \E r \in newest : RecordOf(st2, w, r)
      BY <2>12 DEF Kept
    <3>1. w \in Record /\ w.nth \in Nat
      BY <2>11, <2>12 DEF Record
    <3>2. CASE w = record
      <4>1. RecordOf(st2, record, record)
        BY <2>1 DEF RecordOf
      <4>2. record \in records /\ record.nth = last
        BY <2>1 DEF records
      <4>. QED
        BY <3>2, <4>1, <4>2, <2>10, <1>1
    <3>3. CASE w \in st.past
      <4>1. w.nth <= st.superseded
        BY <3>3 DEF Sound, Kept
      <4>. SUFFICES ASSUME w.nth + MaxPending > last, LastOf(st2, w), InGrace(w, t)
                    PROVE  \E r \in newest : RecordOf(st2, w, r)
        BY <1>1, <3>1, <4>1
      <4>2. w.event # old.event /\ LastOf(st, w)
        BY <1>1, <2>1, <2>12, <3>1, <4>1 DEF LastOf
      <4>3. w.nth + MaxPending > st.superseded
        BY <1>1, <3>1, Numbers
      <4>4. PICK r \in st.pending : RecordOf(st, w, r)
        BY <3>3, <4>2, <4>3 DEF Sound, Kept
      <4>5. r \in records /\ r.nth = w.nth
        BY <4>2, <4>4 DEF RecordOf, records
      <4>6. r \in newest
        BY <2>10, <4>5
      <4>. QED
        BY <2>12, <4>4, <4>6 DEF RecordOf
    <3>. QED
      BY <2>12, <3>2, <3>3
  <2>. QED
    BY <2>12, <2>16, <2>17, <2>18, <2>19, <2>20, <2>21, <2>22 DEF Sound, st2
<1>. QED
  BY <1>2, <1>3

\* Joining a run that is new to the player.
LEMMA JoinedKeeps ==
    ASSUME NEW st, NEW t \in Nat, Sound(st, t), NEW n \in Nat, st.progress = NoRecord,
           NEW event \in [event: Events, ends: Nat, run: Nat],
           ~ Knows(st, event.event, event.run)
    PROVE  LET st2 == Noted(Joined(st, event, n)) IN
           /\ Sound(st2, t)
           /\ \A e, k : Knows(st2, e, k) =>
                 Knows(st, e, k) \/ (e = event.event /\ k = event.run)
           /\ \A e : IsLive(st2, e) <=> e = event.event
<1>. DEFINE record ==
              [event |-> event.event, run |-> event.run, nth |-> 0,
               ends |-> IF n + Length < event.ends + Day THEN n + Length ELSE event.ends + Day,
               base |-> st.metric, claimed |-> {}, frozen |-> FALSE, claimable |-> {}]
            joined == Joined(st, event, n)
            st2 == Noted(joined)
<1>1. st \in Save /\ st.metric \in Nat
  BY DEF Sound, Fits, Save
<1>2. /\ record \in Record /\ record.event = event.event /\ record.run = event.run
      /\ record.claimed = {} /\ ~ record.frozen
  BY <1>1, Numbers DEF Record
<1>3. joined = [st EXCEPT !.progress = record]
  BY DEF Joined
<1>. HIDE DEF record
<1>4. /\ joined \in Save /\ joined.metric = st.metric /\ joined.progress = record
      /\ joined.pending = st.pending /\ joined.met = st.met /\ joined.paid = st.paid
      /\ joined.paidTwice = st.paidTwice /\ joined.past = st.past
      /\ joined.superseded = st.superseded
  BY <1>1, <1>2, <1>3 DEF Save
<1>5. record # NoRecord
  BY <1>2, NoneAssumption
<1>. HIDE DEF joined
<1>6. /\ st2 \in Save /\ st2.progress = record /\ st2.metric = st.metric
      /\ st2.pending = st.pending /\ st2.paid = st.paid /\ st2.paidTwice = st.paidTwice
      /\ st2.past = st.past /\ st2.superseded = st.superseded /\ st.met \subseteq st2.met
      /\ Tagged(record, Met(record, st.metric)) \subseteq st2.met
  BY <1>4, <1>5, NotedFields
<1>. HIDE DEF st2
<1>7. Records(st2) = Records(st) \cup {record} /\ st.pending \subseteq Records(st)
  BY <1>5, <1>6 DEF Records
<1>8. \A r \in Records(st) : r.event # event.event \/ r.run # event.run
  BY DEF Knows
<1>9. \A i \in Rungs : <<event.event, event.run, i>> \notin st.paid
  BY DEF Knows
<1>10. Fits(st2) /\ Numbered(st2)
  BY <1>6 DEF Sound, Fits, Numbered
<1>11. Apart(st2)
  BY <1>2, <1>6, <1>7, <1>8 DEF Sound, Apart
<1>12. Marked(st2)
  BY <1>2, <1>6, <1>7, <1>9 DEF Sound, Marked
<1>13. Measured(st2)
  BY <1>2, <1>6 DEF Sound, Measured
<1>14. Kept(st2, t)
  BY <1>6 DEF Sound, Kept, LastOf, RecordOf
<1>15. \A e, k : Knows(st2, e, k) => Knows(st, e, k) \/ (e = event.event /\ k = event.run)
  BY <1>2, <1>6, <1>7 DEF Knows
<1>16. \A e : IsLive(st2, e) <=> e = event.event
  BY <1>2, <1>5, <1>6 DEF IsLive
<1>. QED
  BY <1>10, <1>11, <1>12, <1>13, <1>14, <1>15, <1>16 DEF Sound, st2, joined

\* The record a claim goes to.
LEMMA RecordForIs ==
    ASSUME NEW st, NEW t \in Nat, Sound(st, t), NEW e, HasRecord(st, e)
    PROVE  /\ RecordFor(st, e) \in Records(st) /\ RecordFor(st, e) \in Record
           /\ RecordFor(st, e).event = e
           /\ IsLive(st, e) => RecordFor(st, e) = st.progress /\ st.progress # NoRecord
           /\ ~ IsLive(st, e) =>
                 /\ RecordFor(st, e) \in st.pending
                 /\ \A p \in st.pending : p.event = e => p = RecordFor(st, e)
<1>1. Records(st) \subseteq Record
  BY SavedRecords DEF Sound, Fits
<1>2. CASE IsLive(st, e)
  BY <1>1, <1>2 DEF IsLive, RecordFor, Records
<1>3. CASE ~ IsLive(st, e)
  <2>1. \E p \in st.pending : p.event = e
    BY <1>3 DEF HasRecord
  <2>2. RecordFor(st, e) = CHOOSE p \in st.pending : p.event = e
    BY <1>3 DEF RecordFor
  <2>3. RecordFor(st, e) \in st.pending /\ RecordFor(st, e).event = e
    BY <2>1, <2>2
  <2>. QED
    BY <1>1, <1>3, <2>3 DEF Sound, Apart, Records
<1>. QED
  BY <1>2, <1>3

\* Paying a rung that claimEventRung accepts.
LEMMA PaidKeeps ==
    ASSUME NEW st, NEW t \in Nat, Sound(st, t), NEW n \in Nat,
           NEW e \in Events, NEW i \in Rungs, Claimable(st, e, i, n)
    PROVE  /\ Sound(Paid(st, e, i), t)
           /\ \A x, k : Knows(Paid(st, e, i), x, k) => Knows(st, x, k)
           /\ \A x : IsLive(Paid(st, e, i), x) <=> IsLive(st, x)
<1>. DEFINE record == RecordFor(st, e)
            marked == [record EXCEPT !.claimed = @ \cup {i}]
            tag == <<e, record.run, i>>
            progress == IF IsLive(st, e) THEN marked ELSE st.progress
            pending == IF IsLive(st, e) THEN st.pending
                       ELSE (st.pending \ {record}) \cup {marked}
            st2 == Paid(st, e, i)
<1>1. st \in Save /\ IsFiniteSet(st.pending) /\ Cardinality(st.pending) <= MaxPending
  BY DEF Sound, Fits
<1>2. HasRecord(st, e) /\ i \notin record.claimed
      /\ IF record.frozen THEN i \in record.claimable ELSE i \in Met(record, st.metric)
  BY DEF Claimable
<1>3. /\ record \in Records(st) /\ record \in Record /\ record.event = e
      /\ IsLive(st, e) => record = st.progress /\ st.progress # NoRecord
      /\ ~ IsLive(st, e) => /\ record \in st.pending
                            /\ \A p \in st.pending : p.event = e => p = record
  BY <1>2, RecordForIs
<1>4. /\ marked \in Record /\ marked.event = e /\ marked.run = record.run
      /\ marked.nth = record.nth /\ marked.ends = record.ends /\ marked.base = record.base
      /\ marked.frozen = record.frozen /\ marked.claimable = record.claimable
      /\ marked.claimed = record.claimed \cup {i}
  BY <1>3 DEF Record
<1>5. tag \notin st.paid
  BY <1>2, <1>3 DEF Sound, Marked
<1>6. tag \in Rung /\ tag \in st.met
  <2>1. tag \in Rung
    BY <1>3 DEF Rung, Record
  <2>2. CASE IsLive(st, e)
    <3>1. ~ record.frozen /\ i \in Met(record, st.metric)
      BY <1>2, <1>3, <2>2 DEF Sound, Measured
    <3>. QED
      BY <1>3, <2>1, <2>2, <3>1 DEF Sound, Measured, Tagged
  <2>3. CASE ~ IsLive(st, e)
    <3>1. record.frozen /\ i \in record.claimable
      BY <1>2, <1>3, <2>3 DEF Sound, Measured
    <3>. QED
      BY <1>3, <2>1, <2>3, <3>1 DEF Sound, Measured, Tagged
  <2>. QED
    BY <2>2, <2>3
<1>7. progress \in Record \cup {NoRecord} /\ pending \in SUBSET Record
  BY <1>1, <1>4 DEF Save
<1>8. IsFiniteSet(pending) /\ Cardinality(pending) <= MaxPending
  <2>1. CASE IsLive(st, e)
    BY <1>1, <2>1
  <2>2. CASE ~ IsLive(st, e)
    <3>. DEFINE rest == st.pending \ {record}
    <3>. HIDE DEF marked, record
    <3>1. IsFiniteSet(rest) /\ Cardinality(rest) = Cardinality(st.pending) - 1
      BY <1>1, <1>3, <2>2, FS_RemoveElement
    <3>2. Cardinality(st.pending) \in Nat /\ Cardinality(rest) \in Nat
      BY <1>1, <3>1, FS_CardinalityType
    <3>. HIDE DEF rest
    <3>3. /\ IsFiniteSet(rest \cup {marked})
          /\ Cardinality(rest \cup {marked}) <= Cardinality(rest) + 1
      BY <3>1, <3>2, FS_AddElement
    <3>4. Cardinality(rest \cup {marked}) \in Nat
      BY <3>3, FS_CardinalityType
    <3>5. Cardinality(rest \cup {marked}) <= MaxPending
      BY <1>1, <3>1, <3>2, <3>3, <3>4, Numbers
    <3>. QED
      BY <2>2, <3>3, <3>5 DEF rest
  <2>. QED
    BY <2>1, <2>2
<1>9. st2 = [st EXCEPT !.progress = progress, !.pending = pending, !.paid = @ \cup {tag}]
  <2>1. st2 = [st EXCEPT !.progress = progress, !.pending = pending, !.paid = @ \cup {tag},
                         !.paidTwice = st.paidTwice]
    BY <1>5 DEF Paid
  <2>. HIDE DEF progress, pending, tag, st2
  <2>. QED
    BY <1>1, <2>1 DEF Save
<1>. HIDE DEF marked, record
<1>10. ~ IsLive(st, e) => \A r \in pending : r = marked \/ (r \in st.pending /\ r # record)
  OBVIOUS
<1>11. IsLive(st, e) => progress = marked /\ pending = st.pending
  OBVIOUS
<1>12. ~ IsLive(st, e) => progress = st.progress /\ pending = (st.pending \ {record}) \cup {marked}
  OBVIOUS
<1>. HIDE DEF progress, pending, tag
<1>13. /\ st2 \in Save /\ st2.metric = st.metric /\ st2.progress = progress
       /\ st2.pending = pending /\ st2.met = st.met /\ st2.paid = st.paid \cup {tag}
       /\ st2.paidTwice = st.paidTwice /\ st2.past = st.past /\ st2.superseded = st.superseded
  <2>. DEFINE paid == st.paid \cup {tag}
  <2>1. paid \in SUBSET Rung /\ st2 = [st EXCEPT !.progress = progress, !.pending = pending, !.paid = paid]
    BY <1>1, <1>6, <1>9 DEF Save
  <2>. HIDE DEF paid, st2
  <2>2. /\ st2 \in Save /\ st2.metric = st.metric /\ st2.progress = progress
        /\ st2.pending = pending /\ st2.met = st.met /\ st2.paid = paid
        /\ st2.paidTwice = st.paidTwice /\ st2.past = st.past /\ st2.superseded = st.superseded
    BY <1>1, <1>7, <2>1 DEF Save
  <2>. QED
    BY <2>2 DEF paid
<1>. HIDE DEF st2
<1>. USE DEF tag
<1>14. marked # NoRecord
  BY <1>4, NoneAssumption
<1>15. \A r \in Records(st2) : r = marked \/ (r \in Records(st) /\ r # record)
  <2>1. CASE IsLive(st, e)
    <3>1. record \notin st.pending
      BY <1>3, <2>1 DEF Sound, Apart
    <3>. QED
      BY <1>11, <1>13, <2>1, <3>1 DEF Records
  <2>2. CASE ~ IsLive(st, e)
    <3>1. st.progress # NoRecord => st.progress # record
      BY <1>3, <2>2 DEF IsLive
    <3>. QED
      BY <1>10, <1>12, <1>13, <2>2, <3>1 DEF Records
  <2>. QED
    BY <2>1, <2>2
<1>16. \A x, k : Knows(st2, x, k) => Knows(st, x, k)
  <2>. SUFFICES ASSUME NEW x, NEW k, Knows(st2, x, k) PROVE Knows(st, x, k)
    OBVIOUS
  <2>1. CASE \E r \in Records(st2) : r.event = x /\ r.run = k
    BY <1>3, <1>4, <1>15, <2>1 DEF Knows
  <2>2. CASE \E j \in Rungs : <<x, k, j>> \in st2.paid
    BY <1>3, <1>13, <2>2 DEF Knows
  <2>. QED
    BY <2>1, <2>2 DEF Knows
<1>17. \A x : IsLive(st2, x) <=> IsLive(st, x)
  BY <1>3, <1>4, <1>11, <1>12, <1>13, <1>14 DEF IsLive
<1>18. Fits(st2)
  BY <1>8, <1>13 DEF Fits
<1>19. Numbered(st2)
  BY <1>3, <1>4, <1>10, <1>11, <1>13 DEF Sound, Numbered
<1>20. Apart(st2)
  <2>1. CASE IsLive(st, e)
    BY <1>3, <1>4, <1>11, <1>13, <2>1 DEF Sound, Apart
  <2>2. CASE ~ IsLive(st, e)
    BY <1>3, <1>4, <1>10, <1>12, <1>13, <2>2 DEF Sound, Apart
  <2>. QED
    BY <2>1, <2>2
<1>21. Marked(st2)
  <2>1. \A r \in Records(st) : r # record => r.event # e \/ r.run # record.run
    <3>1. CASE IsLive(st, e)
      BY <1>3, <3>1 DEF Sound, Apart, Records
    <3>2. CASE ~ IsLive(st, e)
      BY <1>3, <3>2 DEF Sound, Apart, Records
    <3>. QED
      BY <3>1, <3>2
  <2>. SUFFICES ASSUME NEW r \in Records(st2), NEW j \in Rungs,
                       <<r.event, r.run, j>> \in st2.paid
                PROVE  j \in r.claimed
    BY <1>13 DEF Sound, Marked
  <2>2. CASE r = marked
    BY <1>3, <1>4, <1>13, <2>2 DEF Sound, Marked
  <2>3. CASE r # marked
    BY <1>13, <1>15, <2>1, <2>3 DEF Sound, Marked
  <2>. QED
    BY <2>2, <2>3
<1>22. Measured(st2)
  <2>1. Met(marked, st.metric) = Met(record, st.metric)
    BY <1>4 DEF Met
  <2>2. \A is : Tagged(marked, is) = Tagged(record, is)
    BY <1>3, <1>4 DEF Tagged
  <2>3. CASE IsLive(st, e)
    BY <1>3, <1>4, <1>6, <1>11, <1>13, <2>1, <2>2, <2>3 DEF Sound, Measured
  <2>4. CASE ~ IsLive(st, e)
    BY <1>3, <1>4, <1>6, <1>10, <1>12, <1>13, <2>2, <2>4 DEF Sound, Measured
  <2>. QED
    BY <2>3, <2>4
<1>23. Kept(st2, t)
  <2>1. \A w, r : RecordOf(st, w, r) => RecordOf(st2, w, r)
    BY <1>13 DEF RecordOf
  <2>2. \A w : RecordOf(st, w, record) => RecordOf(st2, w, marked)
    BY <1>3, <1>4, <1>13 DEF RecordOf
  <2>3. \A r \in st.pending : r # record => r \in pending
    BY <1>11, <1>12
  <2>4. record \in st.pending => marked \in pending \/ record \in pending
    BY <1>11, <1>12
  <2>5. \A w, r : r \in st.pending /\ RecordOf(st, w, r) => \E q \in pending : RecordOf(st2, w, q)
    BY <2>1, <2>2, <2>3, <2>4
  <2>. QED
    BY <1>13, <2>5 DEF Sound, Kept, LastOf
<1>. QED
  BY <1>16, <1>17, <1>18, <1>19, <1>20, <1>21, <1>22, <1>23 DEF Sound, st2

-----------------------------------------------------------------------------
(***************************************************************************)
(* The invariant is inductive.                                             *)
(***************************************************************************)

LEMMA NewSaveSound ==
    /\ \A t \in Nat : Sound(NewSave, t)
    /\ \A e, n : ~ Knows(NewSave, e, n)
    /\ \A e : ~ IsLive(NewSave, e)
<1>1. /\ NewSave.progress = NoRecord /\ NewSave.pending = {} /\ NewSave.paid = {}
      /\ NewSave.met = {} /\ NewSave.paidTwice = {} /\ NewSave.past = {}
  BY DEF NewSave
<1>2. NewSave \in Save
  BY DEF NewSave, Save
<1>3. Fits(NewSave)
  BY <1>1, <1>2, FS_EmptySet, Numbers DEF Fits
<1>4. Records(NewSave) = {}
  BY <1>1 DEF Records
<1>5. /\ Numbered(NewSave) /\ Apart(NewSave) /\ Marked(NewSave) /\ Measured(NewSave)
      /\ \A t : Kept(NewSave, t)
  BY <1>1, <1>4 DEF Numbered, Apart, Marked, Measured, Kept
<1>. QED
  BY <1>1, <1>3, <1>4, <1>5 DEF Sound, Knows, IsLive

LEMMA SoundLater ==
    ASSUME NEW st, NEW t \in Nat, Sound(st, t)
    PROVE  Sound(st, t + 1)
<1>1. \A w \in st.past : w.ends \in Nat
  BY DEF Sound, Fits, Save, Record
<1>2. \A w \in st.past : InGrace(w, t + 1) => InGrace(w, t)
  BY <1>1, Numbers DEF InGrace
<1>. QED
  BY <1>2 DEF Sound, Kept

\* A save that knows no more than another, and has the same event live.
LEMMA KnowsNoMore ==
    ASSUME NEW st, NEW st2, Dated(st), UpToDate(st),
           \A e, n : Knows(st2, e, n) => Knows(st, e, n),
           \A e : IsLive(st2, e) <=> IsLive(st, e)
    PROVE  Dated(st2) /\ UpToDate(st2)
BY DEF Dated, UpToDate

THEOREM InitInv == Init => IInv
<1>. SUFFICES ASSUME Init PROVE IInv
  OBVIOUS
<1>1. Simple
  BY NoneAssumption DEF Init, Simple, None
<1>2. Reading
  BY DEF Init, Reading
<1>3. \A st \in {save, s} : st = NewSave
  BY DEF Init
<1>4. \A st \in {save, s} : Sound(st, clock) /\ Dated(st) /\ UpToDate(st)
  BY <1>3, NewSaveSound DEF Init, Dated, UpToDate
<1>. QED
  BY <1>1, <1>2, <1>4 DEF IInv

THEOREM StepInv == IInv /\ [Next]_vars => IInv'
<1>. SUFFICES ASSUME IInv, [Next]_vars PROVE IInv'
  OBVIOUS
<1>. USE DEF tableVars, requestVars
<1>1. /\ Simple /\ Reading
      /\ Sound(save, clock) /\ Dated(save) /\ UpToDate(save)
      /\ Sound(s, clock) /\ Dated(s) /\ UpToDate(s)
  BY DEF IInv
<1>. SUFFICES /\ Simple' /\ Reading'
              /\ Sound(save', clock') /\ Dated(save)' /\ UpToDate(save)'
              /\ Sound(s', clock') /\ Dated(s)' /\ UpToDate(s)'
  BY DEF IInv
<1>2. \A e \in Events : activations[e] \in Nat
  BY <1>1 DEF Simple
<1>3. /\ UNCHANGED <<clock, active, activations, save>>
         => Sound(save', clock') /\ Dated(save)' /\ UpToDate(save)'
      /\ UNCHANGED <<clock, active, activations, s>>
         => Sound(s', clock') /\ Dated(s)' /\ UpToDate(s)'
  BY <1>1 DEF Dated, UpToDate
<1>4. CASE Tick
  <2>1. Simple'
    BY <1>1, <1>4 DEF Simple, Tick
  <2>2. Reading'
    BY <1>1, <1>4 DEF Reading, Tick
  <2>3. Sound(save', clock') /\ Sound(s', clock')
    BY <1>1, <1>4, SoundLater DEF Tick, Simple
  <2>. QED
    BY <1>1, <1>4, <2>1, <2>2, <2>3 DEF Tick, Dated, UpToDate
<1>5. ASSUME NEW e \in Events, ActivateEvent(e) PROVE IInv'
  <2>1. /\ active' = e /\ activations' \in [Events -> Nat]
        /\ activations'[e] = activations[e] + 1
        /\ \A x \in Events : x # e => activations'[x] = activations[x]
    BY <1>1, <1>5 DEF ActivateEvent, Simple
  <2>2. ends' \in [Events -> Nat]
    BY <1>1, <1>5, Numbers DEF ActivateEvent, Simple
  <2>3. Simple'
    BY <1>1, <1>2, <1>5, <2>1, <2>2 DEF ActivateEvent, Simple
  <2>4. \A st : Dated(st) => ~ Knows(st, e, activations'[e])
    BY <1>2, <2>1 DEF Dated
  <2>5. \A st : Dated(st) => Dated(st)' /\ UpToDate(st)'
    BY <1>2, <2>1, <2>4 DEF Dated, UpToDate
  <2>6. Reading'
    <3>. SUFFICES ASSUME pc = "joining" PROVE Reading'
      BY <1>5 DEF ActivateEvent, Reading
    <3>1. joining' = joining /\ s' = s /\ pc' = pc
      BY <1>5 DEF ActivateEvent
    <3>2. joining.event # NoEvent => joining.event \in Events /\ joining.run \in Nat
      BY <1>1 DEF Simple
    <3>3. joining.event # NoEvent => joining.run \in 1..activations'[joining.event]
      BY <1>1, <1>2, <2>1, <3>2 DEF Reading
    <3>. QED
      BY <1>1, <2>1, <2>4, <3>1, <3>3 DEF Reading
  <2>. QED
    BY <1>1, <1>5, <2>3, <2>5, <2>6 DEF ActivateEvent, IInv
<1>6. CASE EndEvent
  <2>1. Simple'
    BY <1>1, <1>6 DEF EndEvent, Simple
  <2>2. Reading'
    BY <1>1, <1>6 DEF EndEvent, Reading
  <2>3. \A st : Dated(st) => Dated(st)'
    BY <1>6 DEF EndEvent, Dated
  <2>4. UpToDate(save)' /\ UpToDate(s)'
    BY <1>6, NoneAssumption DEF EndEvent, UpToDate
  <2>. QED
    BY <1>1, <1>6, <2>1, <2>2, <2>3, <2>4 DEF EndEvent, IInv
<1>7. CASE Load
  <2>1. Simple' /\ Reading'
    BY <1>1, <1>7 DEF Load, Simple, Reading
  <2>2. PICK gained \in 0..1 : s' = Noted([save EXCEPT !.metric = @ + gained])
    BY <1>7 DEF Load
  <2>3. save \in Save /\ save.metric + gained \in Nat
    BY <1>1 DEF Sound, Fits, Save
  <2>4. s' = Noted([save EXCEPT !.metric = save.metric + gained])
    BY <2>2, <2>3 DEF Save
  <2>5. /\ Sound(s', clock)
        /\ \A e, n : Knows(s', e, n) <=> Knows(save, e, n)
        /\ \A e : IsLive(s', e) <=> IsLive(save, e)
    BY <1>1, <2>3, <2>4, Grown DEF Simple
  <2>6. Dated(s)' /\ UpToDate(s)'
    BY <1>1, <1>7, <2>5 DEF Dated, UpToDate, Load
  <2>. QED
    BY <1>3, <1>7, <2>1, <2>5, <2>6 DEF Load, IInv
<1>8. CASE ReadActiveEvent
  <2>1. Simple'
    BY <1>1, <1>8, NoneAssumption DEF ReadActiveEvent, Simple, None
  <2>2. Reading'
    <3>1. CASE active = NoEvent
      BY <1>8, <3>1, NoneAssumption DEF ReadActiveEvent, Reading, None
    <3>2. CASE active # NoEvent
      <4>1. active \in Events /\ activations[active] \in Nat /\ activations[active] >= 1
        BY <1>1, <1>2, <3>2 DEF Simple
      <4>2. /\ joining'.event = active /\ joining'.run = activations[active]
            /\ s' = s /\ active' = active /\ activations' = activations
        BY <1>8, <3>2 DEF ReadActiveEvent
      <4>3. \/ IsLive(s, active)
            \/ \A n \in Nat : n >= activations[active] => ~ Knows(s, active, n)
        BY <1>1, <4>1 DEF Dated, UpToDate
      <4>. QED
        BY <4>1, <4>2, <4>3 DEF Reading
    <3>. QED
      BY <3>1, <3>2
  <2>. QED
    BY <1>3, <1>8, <2>1, <2>2 DEF ReadActiveEvent
<1>9. CASE Join
  <2>. DEFINE newcomer == joining.event # NoEvent /\ ~ IsLive(s, joining.event)
              st == IF newcomer /\ s.progress # NoRecord THEN Superseded(s, now) ELSE s
              pruned == Pruned(st, now)
  <2>1. now \in Nat /\ clock \in Nat /\ now <= clock /\ pc = "joining"
    BY <1>1, <1>9 DEF Join, Simple
  <2>2. /\ Sound(st, clock)
        /\ \A e, n : Knows(st, e, n) => Knows(s, e, n)
        /\ newcomer => st.progress = NoRecord
        /\ ~ newcomer => st = s
    BY <1>1, <2>1, SupersededKeeps
  <2>. HIDE DEF st
  <2>3. /\ Sound(pruned, clock)
        /\ \A e, n : Knows(pruned, e, n) => Knows(s, e, n)
        /\ newcomer => pruned.progress = NoRecord
        /\ ~ newcomer => \A e : IsLive(pruned, e) <=> IsLive(s, e)
    BY <2>1, <2>2, PrunedKeeps
  <2>4. newcomer <=> joining.event # NoEvent /\ ~ IsLive(pruned, joining.event)
    BY <2>3 DEF IsLive
  <2>5. /\ s' = IF newcomer THEN Noted(Joined(pruned, joining, now)) ELSE pruned
        /\ pc' = IF newcomer THEN "upsert" ELSE "apply"
        /\ UNCHANGED <<clock, tableVars, save, participation, now, joining, touched, throws, resets>>
    BY <1>9, <2>4 DEF Join, st
  <2>6. Simple' /\ Reading'
    BY <1>1, <2>5 DEF Simple, Reading
  <2>7. Sound(s', clock') /\ Dated(s)' /\ UpToDate(s)'
    <3>1. CASE newcomer
      <4>1. joining \in [event: Events, ends: Nat, run: Nat]
        BY <1>1, <3>1 DEF Simple
      <4>2. joining.run \in 1..activations[joining.event] /\ ~ Knows(s, joining.event, joining.run)
        BY <1>1, <2>1, <3>1, <4>1 DEF Reading
      <4>3. /\ Sound(s', clock)
            /\ \A e, n : Knows(s', e, n) =>
                  Knows(s, e, n) \/ (e = joining.event /\ n = joining.run)
            /\ \A e : IsLive(s', e) <=> e = joining.event
        BY <2>1, <2>3, <2>5, <3>1, <4>1, <4>2, JoinedKeeps
      <4>4. Dated(s)'
        BY <1>1, <2>5, <4>2, <4>3 DEF Dated
      <4>5. \A e \in Events : active = e /\ e # joining.event => ~ Knows(s, e, activations[e])
        BY <1>1, <2>1, NoneAssumption DEF Reading
      <4>6. UpToDate(s)'
        BY <2>5, <4>3, <4>5 DEF UpToDate
      <4>. QED
        BY <2>5, <4>3, <4>4, <4>6
    <3>2. CASE ~ newcomer
      <4>1. Dated(pruned) /\ UpToDate(pruned)
        BY <1>1, <2>3, <3>2, KnowsNoMore
      <4>. QED
        BY <2>3, <2>5, <3>2, <4>1 DEF Dated, UpToDate
    <3>. QED
      BY <3>1, <3>2
  <2>. QED
    BY <1>3, <2>5, <2>6, <2>7
<1>10. CASE UpsertParticipation
  <2>1. participation' \in [Events -> Nat]
    BY <1>1, <1>10 DEF UpsertParticipation, Simple
  <2>2. Simple' /\ Reading'
    BY <1>1, <1>10, <2>1 DEF UpsertParticipation, Simple, Reading
  <2>. QED
    BY <1>3, <1>10, <2>2 DEF UpsertParticipation
<1>11. CASE Earn
  <2>1. Simple' /\ Reading'
    BY <1>1, <1>11 DEF Earn, Simple, Reading
  <2>2. s \in Save /\ s.metric + 1 \in Nat
    BY <1>1 DEF Sound, Fits, Save
  <2>3. s' = Noted([s EXCEPT !.metric = s.metric + 1])
    BY <1>11, <2>2 DEF Earn
  <2>4. /\ Sound(s', clock)
        /\ \A e, n : Knows(s', e, n) <=> Knows(s, e, n)
        /\ \A e : IsLive(s', e) <=> IsLive(s, e)
    BY <1>1, <2>2, <2>3, Grown DEF Simple
  <2>5. Dated(s)' /\ UpToDate(s)'
    BY <1>1, <1>11, <2>4 DEF Dated, UpToDate, Earn
  <2>. QED
    BY <1>3, <1>11, <2>1, <2>4, <2>5 DEF Earn
<1>12. CASE HardReset
  <2>1. Simple' /\ Reading'
    BY <1>1, <1>12 DEF HardReset, Simple, Reading
  <2>2. Sound(s', clock') /\ Dated(s)' /\ UpToDate(s)'
    BY <1>1, <1>12, NewSaveSound DEF HardReset, Simple, Dated, UpToDate
  <2>. QED
    BY <1>3, <1>12, <2>1, <2>2 DEF HardReset
<1>13. ASSUME NEW e \in Events, NEW i \in Rungs, ClaimEventRung(e, i) PROVE IInv'
  <2>1. Simple' /\ Reading'
    BY <1>1, <1>13 DEF ClaimEventRung, Simple, Reading
  <2>2. /\ Sound(s', clock)
        /\ \A x, n : Knows(s', x, n) => Knows(s, x, n)
        /\ \A x : IsLive(s', x) <=> IsLive(s, x)
    BY <1>1, <1>13, PaidKeeps DEF ClaimEventRung, Simple
  <2>3. Dated(s)' /\ UpToDate(s)'
    BY <1>1, <1>13, <2>2 DEF Dated, UpToDate, ClaimEventRung
  <2>. QED
    BY <1>3, <1>13, <2>1, <2>2, <2>3 DEF ClaimEventRung, IInv
<1>14. CASE PutSave
  <2>1. Simple' /\ Reading'
    BY <1>1, <1>14 DEF PutSave, Simple, Reading
  <2>2. Dated(save)' /\ UpToDate(save)'
    BY <1>1, <1>14 DEF PutSave, Dated, UpToDate
  <2>. QED
    BY <1>1, <1>3, <1>14, <2>1, <2>2 DEF PutSave
<1>15. ASSUME NEW e \in Events, Sync(e) PROVE IInv'
  <2>1. participation' \in [Events -> Nat]
    <3>1. HasRecord(s, e) => Cardinality(RecordFor(s, e).claimed) \in Nat
      BY <1>1, RecordForIs, RungsFinite DEF Simple, Record
    <3>. QED
      BY <1>1, <1>15, <3>1 DEF Sync, Simple
  <2>2. Simple' /\ Reading'
    BY <1>1, <1>15, <2>1 DEF Sync, Simple, Reading
  <2>. QED
    BY <1>3, <1>15, <2>2 DEF Sync, IInv
<1>16. ASSUME Forget, UNCHANGED <<clock, tableVars, save, participation>>,
              throws' \in Nat, resets' \in Nat
       PROVE  IInv'
  <2>1. Simple' /\ Reading'
    BY <1>1, <1>16 DEF Forget, Simple, Reading, None
  <2>2. Sound(s', clock') /\ Dated(s)' /\ UpToDate(s)'
    BY <1>1, <1>16, NewSaveSound DEF Forget, Simple, Dated, UpToDate
  <2>. QED
    BY <1>3, <1>16, <2>1, <2>2 DEF IInv
<1>17. CASE Return
  <2>1. throws' \in Nat /\ resets' \in Nat
    BY <1>1, <1>17 DEF Return, Simple
  <2>. QED
    BY <1>16, <1>17, <2>1 DEF Return, IInv
<1>18. CASE Throw
  <2>1. throws' \in Nat /\ resets' \in Nat
    BY <1>1, <1>18 DEF Throw, Simple
  <2>. QED
    BY <1>16, <1>18, <2>1 DEF Throw, IInv
<1>19. CASE UNCHANGED vars
  <2>1. Simple' /\ Reading'
    BY <1>1, <1>19 DEF vars, Simple, Reading
  <2>. QED
    BY <1>3, <1>19, <2>1 DEF vars
<1>. QED
  BY <1>4, <1>5, <1>6, <1>7, <1>8, <1>9, <1>10, <1>11, <1>12, <1>13, <1>14, <1>15, <1>17,
     <1>18, <1>19 DEF Next, IInv

THEOREM Invariance == Spec => []IInv
<1>. QED
  BY InitInv, StepInv, PTL DEF Spec

-----------------------------------------------------------------------------
(***************************************************************************)
(* What it implies.                                                        *)
(***************************************************************************)

\* The variables keep their types: in particular no save holds more than
\* MAX_PENDING_EVENT_CLAIMS superseded windows.
THEOREM TypeCorrect == Spec => []TypeOK
<1>1. IInv => TypeOK
  BY DEF IInv, Simple, Sound, Fits, TypeOK
<1>. QED
  BY <1>1, Invariance, PTL

\* Over any number of requests, failed ones included, a rung is paid once from
\* a window, and not once more from a second window of the same activation.
THEOREM RungsPaidOnce == Spec => []PaidOnce
<1>1. IInv => PaidOnce
  <2>. SUFFICES ASSUME IInv, NEW e \in Events, NEW i \in Rungs
                PROVE  Cardinality({tag \in save.paid : tag[1] = e /\ tag[3] = i}) <= activations[e]
    BY DEF IInv, Sound, Marked, PaidOnce
  <2>. DEFINE paid == {tag \in save.paid : tag[1] = e /\ tag[3] = i}
              runs == 1..activations[e]
              f == [tag \in paid |-> tag[2]]
  <2>1. save.paid \subseteq Rung /\ activations[e] \in Nat
    BY DEF IInv, Simple, Sound, Fits, Save
  <2>2. \A tag \in paid : tag = <<e, tag[2], i>> /\ tag[2] \in Nat
    BY <2>1 DEF Rung
  <2>3. \A tag \in paid : Knows(save, e, tag[2])
    BY <2>2 DEF Knows
  <2>4. \A tag \in paid : tag[2] \in runs
    BY <2>2, <2>3 DEF IInv, Dated
  <2>5. f \in Injection(paid, runs)
    BY <2>2, <2>4 DEF Injection, IsInjective
  <2>6. IsFiniteSet(runs) /\ Cardinality(runs) = activations[e]
    <3>. DEFINE k == activations[e]
    <3>1. 1 \in Int /\ k \in Int /\ k \in Nat
      BY <2>1
    <3>. HIDE DEF k
    <3>2. IsFiniteSet(1..k) /\ Cardinality(1..k) = IF 1 > k THEN 0 ELSE k - 1 + 1
      BY <3>1, FS_Interval
    <3>3. Cardinality(1..k) = k
      BY <3>1, <3>2
    <3>. QED
      BY <3>2, <3>3 DEF k
  <2>. QED
    BY <2>5, <2>6, FS_Injection
<1>. QED
  BY <1>1, Invariance, PTL

\* Nothing is paid that was not met while its window was the live one.
THEOREM PaidRungsWereMet == Spec => []PaidWasMet
<1>1. IInv => PaidWasMet
  BY DEF IInv, Sound, Measured, PaidWasMet
<1>. QED
  BY <1>1, Invariance, PTL

\* The claim right outlives the window: what was met and not claimed when the
\* next event took the live slot can be claimed until its own grace is over.
THEOREM ClaimsSurvive == Spec => []ClaimSurvives
<1>1. IInv => ClaimSurvives
  <2>. SUFFICES ASSUME IInv, NEW w \in save.past,
                       w.nth + MaxPending > save.superseded,
                       LastAt(save, w), InGrace(w, clock),
                       NEW i \in w.claimable,
                       <<w.event, w.run, i>> \notin save.paid
                PROVE  Claimable(save, w.event, i, clock)
    BY DEF ClaimSurvives
  <2>1. Sound(save, clock) /\ LastOf(save, w) /\ ~ IsLive(save, w.event)
    BY DEF IInv, LastAt, LastOf
  <2>2. PICK r \in save.pending : RecordOf(save, w, r)
    BY <2>1 DEF Sound, Kept
  <2>3. HasRecord(save, w.event) /\ RecordFor(save, w.event) = r
    <3>1. HasRecord(save, w.event)
      BY <2>2 DEF RecordOf, HasRecord
    <3>2. clock \in Nat
      BY DEF IInv, Simple
    <3>. QED
      BY <2>1, <2>2, <3>1, <3>2, RecordForIs DEF RecordOf
  <2>4. r.frozen /\ i \in r.claimable /\ i \notin r.claimed /\ InGrace(r, clock)
    BY <2>1, <2>2 DEF Sound, Measured, RecordOf, InGrace
  <2>. QED
    BY <2>3, <2>4 DEF Claimable
<1>. QED
  BY <1>1, Invariance, PTL
=============================================================================
