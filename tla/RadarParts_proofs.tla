-------------------------- MODULE RadarParts_proofs --------------------------
(***************************************************************************)
(* Proofs about two parts of the radar model that stand on their own.  The *)
(* ring of class Timeline keeps, for every depth, what module TimelineSpec *)
(* promises: labels stay with their discretes while time moves on.         *)
(* build_scan_pair, for every sounding time and delay, builds a signal     *)
(* that is long enough and no longer than it must be, and the same for a   *)
(* target that is captured and one that is tracked.                        *)
(***************************************************************************)
EXTENDS TimelineRing, BuildScanPair, FiniteSetTheorems, TLAPS

-----------------------------------------------------------------------------
(* The ring: the place of an index in the array is                         *)
(* (start_idx + idx) % timeline_depth.  Within the depth no two indices    *)
(* share a place (SlotInjective), which is all that labelling needs, and   *)
(* moving by n puts index i + n at index i (SlotMoved), or empties the     *)
(* whole array when n reaches its depth.                                   *)

Indices == 0 .. timeline_depth - 1

LEMMA Depth == timeline_depth \in Nat \ {0}
BY SettingsAssumption DEF SettingsAssumption

LEMMA ModRange == ASSUME NEW d \in Nat \ {0}, NEW x \in Nat PROVE x % d \in 0 .. d - 1
OBVIOUS

LEMMA ModSmall == ASSUME NEW d \in Nat \ {0}, NEW x \in Nat, x < d PROVE x % d = x
OBVIOUS

LEMMA ModOnce == ASSUME NEW d \in Nat \ {0}, NEW x \in Nat, x >= d, x < 2 * d PROVE x % d = x - d
OBVIOUS

LEMMA ModSum ==
  ASSUME NEW d \in Nat \ {0}, NEW s \in 0 .. d - 1, NEW j \in 0 .. d - 1
  PROVE  (s + j) % d = IF s + j < d THEN s + j ELSE s + j - d
<1> DEFINE sum == s + j
<1>1. sum \in Nat /\ sum < 2 * d
  OBVIOUS
<1> SUFFICES sum % d = IF sum < d THEN sum ELSE sum - d
  OBVIOUS
<1> HIDE DEF sum
<1>2. CASE sum < d
  BY <1>1, <1>2, ModSmall
<1>3. CASE sum >= d
  <2>1. sum \in Nat /\ sum >= d /\ sum < 2 * d
    BY <1>1, <1>3
  <2>2. sum % d = sum - d
    BY <2>1, ModOnce
  <2> QED BY <1>1, <1>3, <2>2
<1> QED BY <1>1, <1>2, <1>3

LEMMA ModSumRange ==
  ASSUME NEW d \in Nat \ {0}, NEW s \in 0 .. d - 1, NEW j \in 0 .. d - 1
  PROVE  (s + j) % d \in 0 .. d - 1
BY ModSum

\* The place of an index, without the division.
LEMMA SlotPlace ==
  ASSUME TypeOK, NEW k \in Indices
  PROVE  /\ Slot(k) = IF start_idx + k < timeline_depth THEN start_idx + k ELSE start_idx + k - timeline_depth
         /\ Slot(k) \in Indices
<1>1. start_idx \in Indices
  BY DEF TypeOK, Indices
<1>2. Slot(k) = IF start_idx + k < timeline_depth THEN start_idx + k ELSE start_idx + k - timeline_depth
  BY <1>1, Depth, ModSum DEF Slot, Indices
<1> QED BY <1>1, <1>2, Depth DEF Indices

\* Two indices within the depth have two places.
LEMMA SlotInjective ==
  ASSUME TypeOK, NEW j \in Indices, NEW k \in Indices, Slot(j) = Slot(k)
  PROVE  j = k
<1> DEFINE Place(i) ==
             IF start_idx + i < timeline_depth THEN start_idx + i ELSE start_idx + i - timeline_depth
<1>1. Slot(j) = Place(j) /\ Slot(k) = Place(k)
  BY SlotPlace
<1>2. start_idx \in Indices
  BY DEF TypeOK, Indices
<1>3. Place(j) = Place(k)
  BY <1>1
<1> QED BY <1>2, <1>3, Depth DEF Indices

\* Each step keeps the type (label_sector, move_timeline).
LEMMA TypeStep == ASSUME TypeOK, [Next]_vars PROVE TypeOK'
<1>1. ASSUME NEW start \in 0 .. timeline_depth - 1, NEW stop \in 0 .. timeline_depth - 1,
             NEW label \in Lines!Labels, label_sector(start, stop, label)
      PROVE  TypeOK'
  BY <1>1 DEF TypeOK, label_sector
<1>2. ASSUME NEW time \in start_time .. last_time, move_timeline(time)
      PROVE  TypeOK'
  <2>1. start_idx + time - start_time \in Nat
    BY RingAssumption DEF TypeOK, RingAssumption
  <2>2. start_idx' \in 0 .. timeline_depth - 1
    BY <1>2, <2>1, Depth, ModRange DEF move_timeline
  <2>3. start_time' \in 0 .. last_time
    BY <1>2, RingAssumption DEF TypeOK, move_timeline, RingAssumption
  <2>4. timeline' \in [0 .. timeline_depth - 1 -> Lines!Labels \cup {"tll_empty"}]
    BY <1>2 DEF TypeOK, move_timeline
  <2> QED BY <2>2, <2>3, <2>4 DEF TypeOK
<1>3. CASE UNCHANGED vars
  BY <1>3 DEF TypeOK, vars
<1> QED BY <1>1, <1>2, <1>3 DEF Next

\* The type of the ring is kept, for every depth and length of time (label_sector, move_timeline).
THEOREM RingTypeCorrect == Spec => []TypeOK
<1>1. Init => TypeOK
  BY Depth, RingAssumption DEF Init, TypeOK, RingAssumption
<1>2. TypeOK /\ [Next]_vars => TypeOK'
  BY TypeStep
<1> QED BY <1>1, <1>2, PTL DEF Spec

-----------------------------------------------------------------------------
\* One sector labelled alone: the general definition without the choice of the last.
LEMMA OneSector ==
  ASSUME NEW t, NEW b \in Nat, NEW first \in Indices, NEW last \in Indices, NEW label
  PROVE  Promise!LabelSectors(t, b, << [first |-> first, last |-> last, label |-> label] >>)
           = [i \in DOMAIN t \cup (b + first .. b + last) |->
                IF i \in b + first .. b + last THEN label ELSE t[i]]
<1> DEFINE s == << [first |-> first, last |-> last, label |-> label] >>
           Last(i) == CHOOSE n \in DOMAIN s :
                        /\ Promise!Covers(s[n], b, i)
                        /\ \A m \in DOMAIN s : Promise!Covers(s[m], b, i) => m <= n
           labelled == UNION {b + s[n].first .. b + s[n].last : n \in DOMAIN s}
<1>1. DOMAIN s = {1} /\ s[1].first = first /\ s[1].last = last /\ s[1].label = label
  OBVIOUS
<1>2. labelled = b + first .. b + last
  BY <1>1
<1>3. ASSUME NEW i \in b + first .. b + last PROVE Last(i) = 1
  <2>1. Promise!Covers(s[1], b, i)
    BY <1>1, <1>3 DEF Promise!Covers, Indices
  <2> QED BY <1>1, <2>1
<1>4. Promise!LabelSectors(t, b, s)
        = [i \in DOMAIN t \cup labelled |-> IF i \in labelled THEN s[Last(i)].label ELSE t[i]]
  BY DEF Promise!LabelSectors
<1> HIDE DEF labelled, Last, s
<1> QED BY <1>1, <1>2, <1>3, <1>4 DEF s

\* What one step leaves of a label: labelling changes the indices it is for and no other.
LEMMA LabelAtLabelled ==
  ASSUME TypeOK, NEW start \in Indices, NEW stop \in Indices, NEW label \in Lines!Labels,
         label_sector(start, stop, label), NEW t \in start_time .. start_time + timeline_depth - 1
  PROVE  LabelAt(t)' = IF t \in start_time + start .. start_time + stop THEN label ELSE LabelAt(t)
<1> DEFINE idx == t - start_time
<1>1. start_time \in Nat /\ idx \in Indices /\ start .. stop \subseteq Indices
  BY Depth, RingAssumption DEF TypeOK, Indices, RingAssumption
<1>2. t \in start_time + start .. start_time + stop <=> idx \in start .. stop
  BY <1>1 DEF Indices
<1> HIDE DEF idx
<1>3. Slot(idx)' = Slot(idx) /\ idx' = idx
  BY DEF label_sector, Slot, idx
<1>4. Slot(idx) \in 0 .. timeline_depth - 1
  BY <1>1, SlotPlace DEF Indices
<1>5. timeline'[Slot(idx)] = IF \E i \in start .. stop : Slot(idx) = Slot(i) THEN label ELSE timeline[Slot(idx)]
  BY <1>4 DEF label_sector
<1>6. (\E i \in start .. stop : Slot(idx) = Slot(i)) <=> idx \in start .. stop
  BY <1>1, SlotInjective
<1>7. LabelAt(t)' = timeline'[Slot(idx)]
  BY <1>3 DEF LabelAt, get_value_at, idx
<1> QED BY <1>2, <1>5, <1>6, <1>7 DEF LabelAt, get_value_at, idx

\* Labelling the ring is labelling the timeline it stands for.
LEMMA LabelStep ==
  ASSUME TypeOK, NEW start \in Indices, NEW stop \in Indices, NEW label \in Lines!Labels,
         label_sector(start, stop, label)
  PROVE  Promise!Label(start, stop, label)
<1> DEFINE before == [t \in Labelled |-> LabelAt(t)]
           sector == start_time + start .. start_time + stop
           after  == [i \in Labelled \cup sector |-> IF i \in sector THEN label ELSE before[i]]
<1>1. start_time \in Nat /\ start_time' = start_time
  BY RingAssumption DEF TypeOK, RingAssumption, label_sector
<1>2. label # "tll_empty"
  BY DEF Lines!Labels
<1>3. sector \subseteq start_time .. start_time + timeline_depth - 1
  BY <1>1, Depth DEF Indices
<1> HIDE DEF sector
<1>4. \A t \in start_time .. start_time + timeline_depth - 1 :
        LabelAt(t)' = IF t \in sector THEN label ELSE LabelAt(t)
  BY LabelAtLabelled DEF sector
<1>5. Labelled' = Labelled \cup sector
  BY <1>1, <1>2, <1>3, <1>4 DEF Labelled
<1>6. Labelled \cup sector \subseteq start_time .. start_time + timeline_depth - 1
  BY <1>3 DEF Labelled
<1>7. ASSUME NEW t \in Labelled \cup sector
      PROVE  LabelAt(t)' = IF t \in sector THEN label ELSE before[t]
  BY <1>4, <1>6, <1>7
<1>8. before' = [t \in Labelled' |-> LabelAt(t)']
  OBVIOUS
<1>9. before' = after
  BY <1>5, <1>7, <1>8
<1>10. Promise!LabelSectors(before, start_time, << [first |-> start, last |-> stop, label |-> label] >>)
         = [i \in DOMAIN before \cup sector |-> IF i \in sector THEN label ELSE before[i]]
  BY <1>1, OneSector DEF sector
<1>11. DOMAIN before = Labelled
  OBVIOUS
<1> QED BY <1>1, <1>9, <1>10, <1>11 DEF Promise!Label

\* The place of an index after a move by less than the depth.
LEMMA SlotMoved ==
  ASSUME TypeOK, NEW n \in Indices, NEW i \in Indices, start_idx' = Slot(n)
  PROVE  Slot(i)' = IF n + i < timeline_depth THEN Slot(n + i) ELSE Slot(n + i - timeline_depth)
<1> DEFINE d == timeline_depth
           Place(s, j) == IF s + j < d THEN s + j ELSE s + j - d
<1>1. start_idx \in Indices
  BY DEF TypeOK, Indices
<1>2. Slot(n) = Place(start_idx, n) /\ Slot(n) \in Indices
  BY SlotPlace
<1>3. ASSUME NEW s \in Indices, NEW j \in Indices PROVE (s + j) % d = Place(s, j)
  BY Depth, ModSum DEF Indices
<1>4. Slot(i)' = Place(Slot(n), i)
  BY <1>2, <1>3 DEF Slot
<1>5. CASE n + i < d
  <2>1. n + i \in Indices
    BY <1>5, Depth DEF Indices
  <2>2. Slot(n + i) = Place(start_idx, n + i)
    BY <2>1, SlotPlace
  <2> QED BY <1>1, <1>2, <1>4, <1>5, <2>2, Depth DEF Indices
<1>6. CASE n + i >= d
  <2>1. n + i - d \in Indices
    BY <1>6, Depth DEF Indices
  <2>2. Slot(n + i - d) = Place(start_idx, n + i - d)
    BY <2>1, SlotPlace
  <2> QED BY <1>1, <1>2, <1>4, <1>6, <2>2, Depth DEF Indices
<1>7. n + i < d \/ n + i >= d
  BY Depth DEF Indices
<1> QED BY <1>5, <1>6, <1>7

\* Every place of the array belongs to an index.
LEMMA SlotOnto ==
  ASSUME TypeOK, NEW p \in Indices
  PROVE  \E i \in Indices : p = Slot(i)
<1>1. start_idx \in Indices
  BY DEF TypeOK, Indices
<1>2. CASE p >= start_idx
  <2>1. p - start_idx \in Indices
    BY <1>1, <1>2, Depth DEF Indices
  <2>2. Slot(p - start_idx) = p
    BY <1>1, <2>1, SlotPlace, Depth DEF Indices
  <2> QED BY <2>1, <2>2
<1>3. CASE p < start_idx
  <2>1. p - start_idx + timeline_depth \in Indices
    BY <1>1, <1>3, Depth DEF Indices
  <2>2. Slot(p - start_idx + timeline_depth) = p
    BY <1>1, <2>1, SlotPlace, Depth DEF Indices
  <2> QED BY <2>1, <2>2
<1> QED BY <1>1, <1>2, <1>3, Depth DEF Indices

\* What a move by less than the depth leaves at an index: what was at the index
\* so much later, and nothing beyond the old end.
LEMMA MovedWithin ==
  ASSUME TypeOK, NEW time \in start_time .. last_time, move_timeline(time),
         time - start_time \in Indices, NEW i \in Indices
  PROVE  get_value_at(i)' = IF time - start_time + i < timeline_depth
                            THEN get_value_at(time - start_time + i) ELSE "tll_empty"
<1> DEFINE n == time - start_time
<1>1. start_time \in Nat /\ start_idx \in Indices /\ time \in Nat
  BY RingAssumption DEF TypeOK, Indices, RingAssumption
<1>2. start_idx' = Slot(n)
  <2>1. start_idx + time - start_time = start_idx + n
    BY <1>1, Depth DEF Indices
  <2> QED BY <2>1 DEF move_timeline, Slot
<1>3. n \in Indices
  OBVIOUS
<1>4. timeline' = [p \in 0 .. timeline_depth - 1 |->
                     IF \E offset \in 0 .. n - 1 : p = Slot(offset) THEN "tll_empty" ELSE timeline[p]]
  BY DEF move_timeline
<1>5. get_value_at(i)' = timeline'[Slot(i)']
  BY DEF get_value_at
<1> HIDE DEF n
<1>6. Slot(i)' = IF n + i < timeline_depth THEN Slot(n + i) ELSE Slot(n + i - timeline_depth)
  BY <1>2, <1>3, SlotMoved
<1>7. CASE n + i < timeline_depth
  <2>1. n + i \in Indices
    BY <1>3, <1>7, Depth DEF Indices
  <2>2. ~ \E offset \in 0 .. n - 1 : Slot(n + i) = Slot(offset)
    <3> SUFFICES ASSUME NEW offset \in 0 .. n - 1, Slot(n + i) = Slot(offset) PROVE FALSE
      OBVIOUS
    <3>1. offset \in Indices
      BY <1>3, Depth DEF Indices
    <3>2. n + i = offset
      BY <2>1, <3>1, SlotInjective
    <3> QED BY <1>3, <3>2, Depth DEF Indices
  <2>3. Slot(n + i) \in 0 .. timeline_depth - 1
    BY <2>1, SlotPlace DEF Indices
  <2>4. timeline'[Slot(n + i)] = timeline[Slot(n + i)]
    BY <1>4, <2>2, <2>3
  <2> QED BY <1>5, <1>6, <1>7, <2>4 DEF get_value_at, n
<1>8. CASE n + i >= timeline_depth
  <2>1. n + i - timeline_depth \in 0 .. n - 1 /\ n + i - timeline_depth \in Indices
    BY <1>3, <1>8, Depth DEF Indices
  <2>2. Slot(n + i - timeline_depth) \in 0 .. timeline_depth - 1
    BY <2>1, SlotPlace DEF Indices
  <2>3. timeline'[Slot(n + i - timeline_depth)] = "tll_empty"
    BY <1>4, <2>1, <2>2
  <2>4. ~ (n + i < timeline_depth)
    BY <1>3, <1>8, Depth DEF Indices
  <2> QED BY <1>5, <1>6, <2>3, <2>4 DEF n
<1>9. n + i < timeline_depth \/ n + i >= timeline_depth
  BY <1>3, Depth DEF Indices
<1> QED BY <1>7, <1>8, <1>9

\* A move by the depth or more empties the array.
LEMMA MovedBeyond ==
  ASSUME TypeOK, NEW time \in start_time .. last_time, move_timeline(time),
         time - start_time >= timeline_depth, NEW i \in Indices
  PROVE  get_value_at(i)' = "tll_empty"
<1>1. start_time \in Nat /\ time \in Nat /\ start_idx \in Nat
  BY RingAssumption DEF TypeOK, RingAssumption
<1>2. Slot(i)' \in 0 .. timeline_depth - 1
  <2>1. TypeOK'
    BY TypeStep DEF Next
  <2>2. start_idx' \in 0 .. timeline_depth - 1
    BY <2>1 DEF TypeOK
  <2>3. (start_idx' + i) % timeline_depth \in 0 .. timeline_depth - 1
    BY <2>2, Depth, ModSumRange DEF Indices
  <2> QED BY <2>3 DEF Slot
<1>3. PICK k \in Indices : Slot(i)' = Slot(k)
  BY <1>2, SlotOnto DEF Indices
<1>4. k \in 0 .. time - start_time - 1
  BY <1>1, Depth DEF Indices
<1>5. timeline'[Slot(i)'] = "tll_empty"
  BY <1>2, <1>3, <1>4 DEF move_timeline
<1> QED BY <1>5 DEF get_value_at

\* Moving the ring is moving the timeline it stands for.
LEMMA MoveStep ==
  ASSUME TypeOK, NEW time \in start_time .. last_time, move_timeline(time)
  PROVE  Promise!Move
<1> DEFINE before == [t \in Labelled |-> LabelAt(t)]
           n      == time - start_time
<1>1. start_time \in Nat /\ time \in Nat /\ start_time' = time /\ n \in Nat
  BY RingAssumption DEF TypeOK, RingAssumption, move_timeline
<1>2. ASSUME NEW t \in time .. time + timeline_depth - 1
      PROVE  LabelAt(t)' = IF t <= start_time + timeline_depth - 1 THEN LabelAt(t) ELSE "tll_empty"
  <2> DEFINE i == t - time
  <2>1. i \in Indices
    BY <1>1, Depth DEF Indices
  <2>2. LabelAt(t)' = get_value_at(i)'
    BY <1>1 DEF LabelAt, get_value_at, Slot
  <2>3. n + i = t - start_time
    BY <1>1, Depth
  <2>4. CASE n < timeline_depth
    <3>1. n \in Indices
      BY <1>1, <2>4, Depth DEF Indices
    <3> HIDE DEF i
    <3>2. get_value_at(i)' = IF n + i < timeline_depth THEN get_value_at(n + i) ELSE "tll_empty"
      BY <2>1, <3>1, MovedWithin
    <3>3. n + i < timeline_depth <=> t <= start_time + timeline_depth - 1
      BY <1>1, <2>3, Depth
    <3> QED BY <2>2, <2>3, <3>2, <3>3 DEF LabelAt
  <2>5. CASE n >= timeline_depth
    <3>1. get_value_at(i)' = "tll_empty"
      BY <2>1, <2>5, MovedBeyond
    <3>2. ~ (t <= start_time + timeline_depth - 1)
      BY <1>1, <2>5, Depth
    <3> QED BY <2>2, <3>1, <3>2
  <2> QED BY <1>1, <2>4, <2>5, Depth
<1>3. Labelled' = {t \in Labelled : t >= time}
  <2>1. Labelled' = {t \in time .. time + timeline_depth - 1 : LabelAt(t)' # "tll_empty"}
    BY <1>1 DEF Labelled
  <2>2. ASSUME NEW t \in Labelled' PROVE t \in Labelled /\ t >= time
    BY <1>1, <1>2, <2>1, Depth DEF Labelled
  <2>3. ASSUME NEW t \in Labelled, t >= time PROVE t \in Labelled'
    BY <1>1, <1>2, <2>1, <2>3, Depth DEF Labelled
  <2> QED BY <2>2, <2>3
<1>4. ASSUME NEW t \in Labelled, t >= time PROVE LabelAt(t)' = before[t]
  BY <1>1, <1>2, <1>4, Depth DEF Labelled
<1>5. before' = [t \in Labelled' |-> LabelAt(t)']
  OBVIOUS
<1>6. before' = [t \in {j \in Labelled : j >= time} |-> before[t]]
  BY <1>3, <1>4, <1>5
<1>7. DOMAIN before = Labelled
  OBVIOUS
<1>8. before' = Promise!move_timeline(before, start_time')
  BY <1>1, <1>6, <1>7 DEF Promise!move_timeline
<1> QED BY <1>1, <1>8 DEF Promise!Move

\* For every depth of the ring and length of time: the array used as a ring keeps
\* what a timeline promises (get_value_at, label_sector, move_timeline).
THEOREM RingImplements == Spec => RingKeepsLabels
<1>1. Init => Promise!TimelineInit
  <2> SUFFICES ASSUME Init PROVE Promise!TimelineInit
    OBVIOUS
  <2>1. TypeOK /\ start_time = 0
    BY Depth, RingAssumption DEF Init, TypeOK, RingAssumption
  <2>2. ASSUME NEW t \in start_time .. start_time + timeline_depth - 1
        PROVE  LabelAt(t) = "tll_empty"
    <3>1. t - start_time \in Indices
      BY <2>1, Depth DEF Indices
    <3>2. Slot(t - start_time) \in 0 .. timeline_depth - 1
      BY <2>1, <3>1, SlotPlace DEF Indices
    <3> QED BY <3>2 DEF Init, LabelAt, get_value_at
  <2>3. Labelled = {}
    BY <2>2 DEF Labelled
  <2> QED BY <2>1, <2>3 DEF Promise!TimelineInit
<1>2. TypeOK /\ [Next]_vars => [Promise!TimelineNext]_<<[t \in Labelled |-> LabelAt(t)], start_time>>
  <2> SUFFICES ASSUME TypeOK, [Next]_vars
               PROVE  [Promise!TimelineNext]_<<[t \in Labelled |-> LabelAt(t)], start_time>>
    OBVIOUS
  <2>1. ASSUME NEW start \in Indices, NEW stop \in Indices, NEW label \in Lines!Labels,
               start <= stop, label_sector(start, stop, label)
        PROVE  Promise!TimelineNext
    <3>1. Promise!Label(start, stop, label)
      BY <2>1, LabelStep
    <3> QED BY <2>1, <3>1 DEF Promise!TimelineNext, Indices, Promise!Labels, Lines!Labels
  <2>2. ASSUME NEW time \in start_time .. last_time, move_timeline(time)
        PROVE  Promise!TimelineNext
    BY <2>2, MoveStep DEF Promise!TimelineNext
  <2>3. CASE UNCHANGED vars
    BY <2>3 DEF vars, Labelled, LabelAt, get_value_at, Slot
  <2> QED BY <2>1, <2>2, <2>3 DEF Next, Indices
<1> QED BY <1>1, <1>2, RingTypeCorrect, PTL DEF Spec, RingKeepsLabels, Promise!TimelinePromise

-----------------------------------------------------------------------------
(* build_scan_pair *)

\* The unit of frequency, in ns, divides a tenth of a microsecond, as the code's does.
UnitDivides == frequency_factor \in {1, 2, 4, 5, 10, 20, 25, 50, 100}

\* Signals are whole numbers of such tenths: rounding leaves them.
LEMMA WholeTenths == ASSUME UnitDivides, NEW n \in Nat PROVE multiples_of(100 * n, frequency_factor) = 100 * n
<1>1. ASSUME NEW u \in {1, 2, 4, 5, 10, 20, 25, 50, 100}  PROVE multiples_of(100 * n, u) = 100 * n
  <2>1. CASE u = 1
    BY <2>1 DEF multiples_of
  <2>2. CASE u = 2
    BY <2>2 DEF multiples_of
  <2>3. CASE u = 4
    BY <2>3 DEF multiples_of
  <2>4. CASE u = 5
    BY <2>4 DEF multiples_of
  <2>5. CASE u = 10
    BY <2>5 DEF multiples_of
  <2>6. CASE u = 20
    BY <2>6 DEF multiples_of
  <2>7. CASE u = 25
    BY <2>7 DEF multiples_of
  <2>8. CASE u = 50
    BY <2>8 DEF multiples_of
  <2>9. CASE u = 100
    BY <2>9 DEF multiples_of
  <2> QED  BY <1>1, <2>1, <2>2, <2>3, <2>4, <2>5, <2>6, <2>7, <2>8, <2>9
<1> QED  BY <1>1 DEF UnitDivides

\* The constructor of ScanPair rounds up by less than a factor of two.
LEMMA PulsesSuffice ==
  ASSUME NEW n \in 1 .. 16
  PROVE  /\ PulsesFor(n) \in {1, 2, 4, 8, 16} /\ PulsesFor(n) >= n
         /\ PulsesFor(n) > 1 => PulsesFor(n) \div 2 <= n - 1
<1> DEFINE Least(size) == size >= n /\ \A m \in {1, 2, 4, 8, 16} : m >= n => size <= m
<1>1. \E size \in {1, 2, 4, 8, 16} : Least(size)
  <2>1. CASE n = 1
    BY <2>1
  <2>2. CASE n = 2
    BY <2>2
  <2>3. CASE n \in 3 .. 4
    BY <2>3
  <2>4. CASE n \in 5 .. 8
    BY <2>4
  <2>5. CASE n \in 9 .. 16
    BY <2>5
  <2> QED  BY <2>1, <2>2, <2>3, <2>4, <2>5
<1>2. PulsesFor(n) \in {1, 2, 4, 8, 16} /\ Least(PulsesFor(n))
  BY <1>1 DEF PulsesFor
<1> HIDE DEF Least
<1>3. ASSUME NEW size \in {1, 2, 4, 8, 16}, Least(size), size > 1  PROVE size \div 2 <= n - 1
  <2> USE DEF Least
  <2>1. CASE size = 2
    BY <1>3, <2>1
  <2>2. CASE size = 4
    BY <1>3, <2>2
  <2>3. CASE size = 8
    BY <1>3, <2>3
  <2>4. CASE size = 16
    BY <1>3, <2>4
  <2> QED  BY <1>3, <2>1, <2>2, <2>3, <2>4
<1>4. PulsesFor(n) >= n
  BY <1>2 DEF Least
<1> QED  BY <1>2, <1>3, <1>4

\* The class of a sounding time, by the bounds it exceeds.
LEMMA ClassOf ==
  ASSUME NEW tau \in Nat
  PROVE  \/ Class(tau) = 1 /\ tau <= 100
         \/ Class(tau) = 2 /\ tau > 100 /\ tau <= 1000
         \/ Class(tau) = 3 /\ tau > 1000 /\ tau <= 8000
         \/ Class(tau) = 4 /\ tau > 8000 /\ tau <= 15000
         \/ Class(tau) = 5 /\ tau > 15000 /\ tau <= 30000
         \/ Class(tau) = 6 /\ tau > 30000 /\ tau <= 60000
         \/ Class(tau) = 7 /\ tau > 60000 /\ tau <= 120000
         \/ Class(tau) = 8 /\ tau > 120000
<1> DEFINE Exceeded == {n \in DOMAIN Bounds : tau > Bounds[n]}
<1>1. DOMAIN Bounds = 1 .. 7 /\ Bounds[1] = 100 /\ Bounds[2] = 1000 /\ Bounds[3] = 8000 /\ Bounds[4] = 15000
      /\ Bounds[5] = 30000 /\ Bounds[6] = 60000 /\ Bounds[7] = 120000
  BY DEF Bounds
<1>2. Class(tau) = Cardinality(Exceeded) + 1
  BY DEF Class
<1> HIDE DEF Exceeded
<1>3. ASSUME NEW k \in 0 .. 7, Exceeded = 1 .. k  PROVE Class(tau) = k + 1
  <2>1. Cardinality(1 .. k) = IF 1 > k THEN 0 ELSE k - 1 + 1
    <3>1. 1 \in Int /\ k \in Int
      OBVIOUS
    <3> QED  BY <3>1, FS_Interval
  <2> QED  BY <1>2, <1>3, <2>1
<1>4. CASE tau <= 100
  <2>1. Exceeded = 1 .. 0
    BY <1>1, <1>4 DEF Exceeded
  <2> QED  BY <1>3, <1>4, <2>1
<1>5. CASE tau > 100 /\ tau <= 1000
  <2>1. Exceeded = 1 .. 1
    BY <1>1, <1>5 DEF Exceeded
  <2> QED  BY <1>3, <1>5, <2>1
<1>6. CASE tau > 1000 /\ tau <= 8000
  <2>1. Exceeded = 1 .. 2
    BY <1>1, <1>6 DEF Exceeded
  <2> QED  BY <1>3, <1>6, <2>1
<1>7. CASE tau > 8000 /\ tau <= 15000
  <2>1. Exceeded = 1 .. 3
    BY <1>1, <1>7 DEF Exceeded
  <2> QED  BY <1>3, <1>7, <2>1
<1>8. CASE tau > 15000 /\ tau <= 30000
  <2>1. Exceeded = 1 .. 4
    BY <1>1, <1>8 DEF Exceeded
  <2> QED  BY <1>3, <1>8, <2>1
<1>9. CASE tau > 30000 /\ tau <= 60000
  <2>1. Exceeded = 1 .. 5
    BY <1>1, <1>9 DEF Exceeded
  <2> QED  BY <1>3, <1>9, <2>1
<1>10. CASE tau > 60000 /\ tau <= 120000
  <2>1. Exceeded = 1 .. 6
    BY <1>1, <1>10 DEF Exceeded
  <2> QED  BY <1>3, <1>10, <2>1
<1>11. CASE tau > 120000
  <2>1. Exceeded = 1 .. 7
    BY <1>1, <1>11 DEF Exceeded
  <2> QED  BY <1>3, <1>11, <2>1
<1> QED  BY <1>4, <1>5, <1>6, <1>7, <1>8, <1>9, <1>10, <1>11

\* The two lists name signals of the same durations: each lasts a class's bound.
LEMMA SignalOf ==
  ASSUME NEW c \in 1 .. 8
  PROVE  LET signal == signal_tbl[DetectionSignals[c]] IN
           /\ signal_tbl[TrackingSignals[c]] = signal
           /\ signal.pulses \subseteq 1 .. 16
           /\ signal.duration = IF c = 8 THEN 240000 ELSE Bounds[c]
<1> USE DEF signal_tbl, DetectionSignals, TrackingSignals, Bounds, Signal
<1>1. CASE c = 1
  BY <1>1
<1>2. CASE c = 2
  BY <1>2
<1>3. CASE c = 3
  BY <1>3
<1>4. CASE c = 4
  BY <1>4
<1>5. CASE c = 5
  BY <1>5
<1>6. CASE c = 6
  BY <1>6
<1>7. CASE c = 7
  BY <1>7
<1>8. CASE c = 8
  BY <1>8
<1> QED  BY <1>1, <1>2, <1>3, <1>4, <1>5, <1>6, <1>7, <1>8

\* Whatever the scan, the pair is built from the signal detection uses.
LEMMA BuiltFrom ==
  ASSUME NEW q \in SoundingQueries
  PROVE  /\ Class(q.tau) \in 1 .. 8
         /\ build_scan_pair(q) = create_scan_pair(signal_tbl[DetectionSignals[Class(q.tau)]], q.tau, q.delay)
<1>1. q.tau \in Nat
  BY SoundingAssumption DEF SoundingQueries
<1>2. Class(q.tau) \in 1 .. 8
  BY <1>1, ClassOf
<1> QED  BY <1>2, SignalOf DEF build_scan_pair, get_signal_code

\* The pulses of a pair last the sounding time at least; half of them do so only
\* when they last it exactly, at a border where the code takes a pulse more.
LEMMA LongEnough ==
  ASSUME UnitDivides, NEW q \in SoundingQueries, build_scan_pair(q) # ScanPair
  PROVE  LET p == build_scan_pair(q) IN
           /\ p.size * p.length >= q.tau
           /\ p.size > 1 => \/ (p.size \div 2) * p.length < q.tau
                            \/ (p.size \div 2) * p.length = q.tau /\ q.tau % 240000 = 0
<1>1. PICK c \in 1 .. 8 : c = Class(q.tau)
  BY BuiltFrom
<1>2. PICK tau \in Nat : tau = q.tau
  BY SoundingAssumption DEF SoundingQueries
<1>3. PICK signal : signal = signal_tbl[DetectionSignals[c]]
  OBVIOUS
<1>4. PICK n \in Nat : n = tau \div 240000 + 1
  OBVIOUS
<1>5. n \in signal.pulses
      /\ build_scan_pair(q).size = PulsesFor(n)
      /\ build_scan_pair(q).length = multiples_of(signal.duration, frequency_factor)
  BY <1>1, <1>2, <1>3, <1>4, BuiltFrom DEF create_scan_pair
<1>6. PICK d \in Nat : d = signal.duration
  BY <1>1, <1>3, SignalOf DEF Bounds
<1>7. /\ c = 8 => d = 240000
      /\ d \in {100, 1000, 8000, 15000, 30000, 60000, 120000, 240000}
      /\ c # 8 => tau <= d /\ d <= 120000
  <2>1. d = IF c = 8 THEN 240000 ELSE Bounds[c]
    BY <1>3, <1>6, SignalOf
  <2>2. \/ c = 1 /\ tau <= 100
        \/ c = 2 /\ tau <= 1000
        \/ c = 3 /\ tau <= 8000
        \/ c = 4 /\ tau <= 15000
        \/ c = 5 /\ tau <= 30000
        \/ c = 6 /\ tau <= 60000
        \/ c = 7 /\ tau <= 120000
        \/ c = 8
    BY <1>1, <1>2, ClassOf
  <2> QED  BY <2>1, <2>2 DEF Bounds
<1>8. multiples_of(d, frequency_factor) = d
  <2>1. ASSUME NEW m \in {1, 10, 80, 150, 300, 600, 1200, 2400}, d = 100 * m
        PROVE  multiples_of(d, frequency_factor) = d
    BY <2>1, WholeTenths
  <2> QED  BY <1>7, <2>1
<1>9. n \in 1 .. 16 /\ PulsesFor(n) \in {1, 2, 4, 8, 16} /\ PulsesFor(n) >= n
      /\ (PulsesFor(n) > 1 => PulsesFor(n) \div 2 <= n - 1)
  BY <1>1, <1>3, <1>5, SignalOf, PulsesSuffice
<1>10. PICK size \in {1, 2, 4, 8, 16} : size = PulsesFor(n)
  BY <1>9
<1>11. c # 8 => n = 1
  <2>1. c # 8 => tau < 240000
    BY <1>7
  <2> QED  BY <1>4, <2>1
<1>12. CASE n = 1
  <2>1. size = 1
    BY <1>9, <1>10, <1>12
  <2>2. tau <= d
    BY <1>4, <1>7, <1>12
  <2> QED  BY <1>2, <1>5, <1>6, <1>8, <1>10, <2>1, <2>2
<1>13. CASE n # 1
  <2>1. d = 240000 /\ 240000 * (n - 1) <= tau /\ tau < 240000 * n
    BY <1>4, <1>7, <1>11, <1>13
  <2>2. size >= n /\ (size > 1 => size \div 2 <= n - 1)
    BY <1>9, <1>10
  <2>3. size * d >= tau /\ (size > 1 => (size \div 2) * d <= tau)
    BY <2>1, <2>2
  <2>4. \A half \in 0 .. 8 : half * 240000 = tau => tau % 240000 = 0
    OBVIOUS
  <2>5. size > 1 => (size \div 2) * d < tau \/ ((size \div 2) * d = tau /\ tau % 240000 = 0)
    BY <2>1, <2>3, <2>4
  <2> QED  BY <1>2, <1>5, <1>6, <1>8, <1>10, <2>3, <2>5
<1> QED  BY <1>12, <1>13

\* The pair is always that of the last query.
LEMMA PairOfQuery == SoundingSpec => [](query \in SoundingQueries /\ pair = build_scan_pair(query))
<1> DEFINE Inv == query \in SoundingQueries /\ pair = build_scan_pair(query)
<1>1. SoundingInit => Inv
  BY DEF SoundingInit
<1>2. Inv /\ [Build]_soundingVars => Inv'
  <2>1. Inv /\ Build => Inv'
    BY DEF Build
  <2>2. Inv /\ UNCHANGED soundingVars => Inv'
    BY DEF soundingVars
  <2> QED  BY <2>1, <2>2
<1> QED  BY <1>1, <1>2, PTL DEF SoundingSpec

\* For every sounding time and delay, the pair build_scan_pair returns, unless it
\* gives up, sounds for the time asked for, and half as many pulses would not, but
\* where that time is a whole multiple of 240 us (the division by 240000 ns of
\* create_scan_pair, the rounding to a power of two of the constructor of ScanPair,
\* and the classes of get_signal_code).
THEOREM SoundedLongEnough == ASSUME UnitDivides PROVE SoundingSpec => []SoundingTimeReached
<1>1. query \in SoundingQueries /\ pair = build_scan_pair(query) => SoundingTimeReached
  BY LongEnough DEF SoundingTimeReached
<1> QED  BY <1>1, PairOfQuery, PTL

\* For every sounding time, delay and setting: a target is given the same signal
\* while it is captured and while it is tracked, though get_signal_code has a list
\* of signals for each.
THEOREM TrackedLikeCaptured == SoundingSpec => []TrackedAsCaptured
<1>1. query \in SoundingQueries /\ pair = build_scan_pair(query) => TrackedAsCaptured
  <2> SUFFICES ASSUME query \in SoundingQueries, pair = build_scan_pair(query)  PROVE TrackedAsCaptured
    OBVIOUS
  <2>1. PICK q : q = [query EXCEPT !.type = IF @ = "tracking" THEN "capture" ELSE "tracking"]
    OBVIOUS
  <2>2. q \in SoundingQueries /\ q.tau = query.tau /\ q.delay = query.delay
    BY <2>1 DEF SoundingQueries, Scanned
  <2>3. build_scan_pair(q) = build_scan_pair(query)
    BY <2>2, BuiltFrom
  <2> QED  BY <2>1, <2>3 DEF TrackedAsCaptured
<1> QED  BY <1>1, PairOfQuery, PTL
=============================================================================
