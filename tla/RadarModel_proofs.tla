-------------------------- MODULE RadarModel_proofs --------------------------
(***************************************************************************)
(* Proofs about RadarModel for any settings, scenarios and scans that      *)
(* satisfy the assumptions: transmissions are planned apart, what is       *)
(* planned stays reserved and is executed on time, the antenna is prepared *)
(* for it, and a target is followed until it is dropped.                   *)
(***************************************************************************)
EXTENDS RadarModel, FiniteSetTheorems, WellFoundedInduction, TLAPS

-----------------------------------------------------------------------------
(* Numbers: the least and the greatest, ranks, division *)

\* A set of natural numbers that is not empty has a least member.
LEMMA LeastOf == ASSUME NEW S \in SUBSET Nat, S # {} PROVE \E x \in S : \A y \in S : x <= y
<1> DEFINE R == OpToRel(<, Nat)
<1>1. IsWellFoundedOn(R, Nat)
  BY NatLessThanWellFounded
<1>2. \E x \in S : \A y \in S : ~(<<y, x>> \in R)
  <2> HIDE DEF R
  <2> QED  BY <1>1, WFMin
<1>3. \A x, y \in Nat : <<y, x>> \in R <=> y < x
  BY DEF OpToRel
<1> HIDE DEF R
<1>4. PICK x \in S : \A y \in S : ~(<<y, x>> \in R)
  BY <1>2
<1>5. \A y \in S : ~(y < x)
  BY <1>3, <1>4
<1> QED  BY <1>4, <1>5

\* One with a bound has a greatest.
LEMMA GreatestOf ==
  ASSUME NEW k \in Nat, NEW S \in SUBSET (0 .. k), S # {}
  PROVE  \E x \in S : \A y \in S : y <= x
<1>1. PICK y \in S : TRUE
  OBVIOUS
<1>2. {d \in 0 .. k : k - d \in S} \in SUBSET Nat /\ k - y \in {d \in 0 .. k : k - d \in S}
  OBVIOUS
<1>3. PICK d \in {e \in 0 .. k : k - e \in S} : \A e \in {b \in 0 .. k : k - b \in S} : d <= e
  BY <1>2, LeastOf
<1>4. ASSUME NEW z \in S  PROVE z <= k - d
  <2>1. k - z \in 0 .. k /\ k - (k - z) \in S
    OBVIOUS
  <2>2. d <= k - z
    BY <1>3, <2>1
  <2> QED  BY <2>1, <2>2, <1>3
<1> QED  BY <1>3, <1>4

\* A strict order of a finite set gives its members the ranks from 1 on, each to one.
LEMMA EveryRankTaken ==
  ASSUME NEW S, IsFiniteSet(S), NEW before,
         \A m \in S : <<m, m>> \notin before,
         \A l, m, n \in S : <<l, m>> \in before /\ <<m, n>> \in before => <<l, n>> \in before,
         \A m, n \in S : m # n => <<m, n>> \in before \/ <<n, m>> \in before
  PROVE  /\ Cardinality(S) \in Nat
         /\ \A r \in 1 .. Cardinality(S) :
              \E n \in S : Cardinality({m \in S : <<m, n>> \in before}) = r - 1
<1> DEFINE k == Cardinality(S)
           Below(n) == {m \in S : <<m, n>> \in before}
           rank == [n \in S |-> Cardinality(Below(n)) + 1]
<1>1. k \in Nat
  BY FS_CardinalityType
<1>2. ASSUME NEW n \in S
      PROVE  /\ IsFiniteSet(Below(n)) /\ Cardinality(Below(n)) \in Nat
             /\ Cardinality(Below(n)) < k
  <2>1. Below(n) \in SUBSET S /\ n \notin Below(n)
    OBVIOUS
  <2>2. IsFiniteSet(Below(n)) /\ Cardinality(Below(n)) \in Nat /\ Cardinality(Below(n)) <= k
    BY <2>1, FS_Subset, FS_CardinalityType
  <2>3. Cardinality(Below(n)) # k
    BY <2>1, FS_Subset
  <2> QED  BY <1>1, <2>2, <2>3
<1>3. ASSUME NEW m \in S, NEW n \in S, <<m, n>> \in before
      PROVE  Cardinality(Below(m)) < Cardinality(Below(n))
  <2>1. Below(m) \in SUBSET Below(n)
    BY <1>3
  <2>2. m \in Below(n) /\ m \notin Below(m)
    BY <1>3
  <2>3. IsFiniteSet(Below(n)) /\ Cardinality(Below(n)) \in Nat /\ Cardinality(Below(m)) \in Nat
    BY <1>1, <1>2
  <2> HIDE DEF Below
  <2>4. Cardinality(Below(m)) <= Cardinality(Below(n)) /\ Cardinality(Below(m)) # Cardinality(Below(n))
    BY <2>1, <2>2, <2>3, FS_Subset
  <2> QED  BY <2>3, <2>4
<1>4. \A n \in S : Cardinality(Below(n)) + 1 \in 1 .. k
  BY <1>1, <1>2
<1>5. \A m, n \in S : m # n => Cardinality(Below(m)) # Cardinality(Below(n))
  <2> SUFFICES ASSUME NEW m \in S, NEW n \in S, m # n
               PROVE  Cardinality(Below(m)) # Cardinality(Below(n))
    OBVIOUS
  <2>1. <<m, n>> \in before \/ <<n, m>> \in before
    OBVIOUS
  <2>2. Cardinality(Below(m)) \in Nat /\ Cardinality(Below(n)) \in Nat
    BY <1>2
  <2>3. Cardinality(Below(m)) < Cardinality(Below(n)) \/ Cardinality(Below(n)) < Cardinality(Below(m))
    BY <1>3, <2>1
  <2> HIDE DEF Below
  <2> QED  BY <2>2, <2>3
<1> HIDE DEF Below, k
<1>6. rank \in [S -> 1 .. k]
  BY <1>4
<1>7. \A m, n \in S : rank[m] = rank[n] => m = n
  <2> SUFFICES ASSUME NEW m \in S, NEW n \in S, rank[m] = rank[n]  PROVE m = n
    OBVIOUS
  <2>1. Cardinality(Below(m)) + 1 = Cardinality(Below(n)) + 1
    OBVIOUS
  <2>2. Cardinality(Below(m)) + 1 \in 1 .. k /\ Cardinality(Below(n)) + 1 \in 1 .. k
    BY <1>4
  <2>3. Cardinality(Below(m)) \in Nat /\ Cardinality(Below(n)) \in Nat
    BY <1>2
  <2>4. Cardinality(Below(m)) = Cardinality(Below(n))
    BY <2>1, <2>3
  <2> QED  BY <1>5, <2>4
<1> HIDE DEF rank
<1>8. rank \in Injection(S, 1 .. k)
  BY <1>6, <1>7 DEF Injection, IsInjective
<1>9. IsFiniteSet(1 .. k) /\ Cardinality(1 .. k) = k
  BY <1>1, FS_Interval
<1>10. rank \in Surjection(S, 1 .. k)
  <2>1. k = Cardinality(S)
    BY DEF k
  <2> QED  BY <1>8, <1>9, <2>1, FS_Injection
<1>11. ASSUME NEW r \in 1 .. k  PROVE \E n \in S : Cardinality(Below(n)) = r - 1
  <2>1. PICK n \in S : rank[n] = r
    BY <1>10 DEF Surjection
  <2>2. rank[n] = Cardinality(Below(n)) + 1
    BY DEF rank
  <2>3. Cardinality(Below(n)) \in Nat
    BY <1>2
  <2> QED  BY <2>1, <2>2, <2>3
<1> QED  BY <1>1, <1>11 DEF Below, k

\* Division by a positive number: the facts the provers do not find inside a larger goal.
LEMMA DivMonotone ==
  ASSUME NEW k \in Nat, k > 0, NEW x \in Int, NEW y \in Int, x <= y
  PROVE  x \div k <= y \div k
OBVIOUS

LEMMA DivFacts ==
  ASSUME NEW k \in Nat, k > 0, NEW x \in Int
  PROVE  /\ x \div k \in Int /\ x % k \in 0 .. k - 1
         /\ x = k * (x \div k) + (x % k)
<1>1. x \div k \in Int /\ x % k \in 0 .. k - 1
  OBVIOUS
<1>3. x = k * (x \div k) + (x % k)
  OBVIOUS
<1> QED  BY <1>1, <1>3

LEMMA DivOfNat ==
  ASSUME NEW k \in Nat, k > 0, NEW x \in Nat
  PROVE  x \div k \in Nat
<1>1. 0 \div k <= x \div k
  BY DivMonotone
<1>2. 0 \div k = 0
  OBVIOUS
<1> QED  BY <1>1, <1>2

LEMMA DivShift ==
  ASSUME NEW k \in Nat, k > 0, NEW q \in Int, NEW x \in Int
  PROVE  (q * k + x) \div k = q + x \div k
  OBVIOUS

LEMMA DivExact ==
  ASSUME NEW k \in Nat, k > 0, NEW q \in Int
  PROVE  (q * k) \div k = q /\ (q * k) % k = 0
<1>1. (q * k + 0) \div k = q /\ (q * k + 0) % k = 0
  OBVIOUS
<1>2. q * k + 0 = q * k
  OBVIOUS
<1> QED  BY <1>1, <1>2

-----------------------------------------------------------------------------
(* The settings, rounding and the discretes of a timeline *)

\* Which settings are numbers.
Settled ==
  /\ time_chunk_length \in Nat \ {0} /\ timeline_depth \in Nat \ {0} /\ planning_step \in Nat \ {0}
  /\ pulse_planning_depth \in Nat \ {0} /\ pulse_train_planning_depth \in Nat \ {0}
  /\ phase_delay \in Nat \ {0} /\ au_command_delay \in Nat \ {0} /\ blank_delay \in Nat \ {0}
  /\ frequency_delay \in Nat \ {0} /\ channel_switch_delay \in Nat \ {0} /\ reserve_time \in Nat \ {0}
  /\ duty_factor \in Nat \ {0} /\ frequency_factor \in Nat \ {0} /\ second \in Nat \ {0}

LEMMA SettledHolds == Settled
BY SettingsAssumption DEF SettingsAssumption, Settled

\* multiples_of rounds up by less than the frequency factor.
LEMMA RoundedUp ==
  ASSUME NEW v \in Int
  PROVE  /\ multiples_of(v, frequency_factor) \in Int
         /\ multiples_of(v, frequency_factor) >= v
         /\ multiples_of(v, frequency_factor) <= v + frequency_factor - 1
<1>1. frequency_factor \in Nat /\ frequency_factor > 0
  BY SettledHolds DEF Settled
<1> QED  BY <1>1, DivFacts DEF multiples_of

LEMMA DiscretesCover ==
  ASSUME NEW v \in Nat
  PROVE  /\ Discretes(v) \in Nat
         /\ time_chunk_length * Discretes(v) >= v
<1>1. time_chunk_length \in Nat /\ time_chunk_length > 0
  BY SettledHolds DEF Settled
<1> QED  BY <1>1, DivFacts DEF Discretes

LEMMA DiscretesAtMost ==
  ASSUME NEW v \in Nat
  PROVE  Discretes(v) <= v \div time_chunk_length + 1
<1> DEFINE L == time_chunk_length
<1>1. L \in Nat /\ L > 0
  BY SettledHolds DEF Settled
<1>2. (v + L - 1) \div L <= (1 * L + v) \div L
  BY <1>1, DivMonotone
<1>3. (1 * L + v) \div L = 1 + v \div L
  BY <1>1, DivShift
<1>4. v \div L \in Int
  BY <1>1, DivFacts
<1> QED  BY <1>2, <1>3, <1>4 DEF Discretes

\* get_idx_for counts a time on the border of two discretes to the second one.
LEMMA IndexFacts ==
  ASSUME NEW time \in Int
  PROVE  /\ get_idx_for(time) \in Int
         /\ time \in 0 .. timeline_depth * time_chunk_length =>
              /\ get_idx_for(time) \in Nat
              /\ get_idx_for(time) >= time \div time_chunk_length
              /\ get_idx_for(time) <= time \div time_chunk_length + 1
<1>1. time_chunk_length \in Nat /\ time_chunk_length > 0 /\ timeline_depth \in Nat \ {0}
  BY SettledHolds DEF Settled
<1>2. time \div time_chunk_length \in Int
  BY <1>1, DivFacts
<1>3. time \in Nat => time \div time_chunk_length \in Nat
  BY <1>1, DivOfNat
<1> QED  BY <1>1, <1>2, <1>3 DEF get_idx_for

LEMMA IndexOfDiscrete ==
  ASSUME NEW idx \in Nat, idx * time_chunk_length \in 0 .. timeline_depth * time_chunk_length
  PROVE  get_idx_for(idx * time_chunk_length) = idx + 1
<1>1. time_chunk_length \in Nat /\ time_chunk_length > 0
  BY SettledHolds DEF Settled
<1>4. (idx * time_chunk_length) \div time_chunk_length = idx /\ (idx * time_chunk_length) % time_chunk_length = 0
  BY <1>1, DivExact
<1> QED  BY <1>4 DEF get_idx_for

\* So it is monotonous up to one discrete, and a sector that starts where another
\* ends leaves none between them.
LEMMA IndexSteps ==
  ASSUME NEW from \in Int, NEW to \in Int,
         from \in 0 .. timeline_depth * time_chunk_length,
         to \in 0 .. timeline_depth * time_chunk_length, from <= to
  PROVE  get_idx_for(from) <= get_idx_for(to) + 1
<1>1. time_chunk_length \in Nat /\ time_chunk_length > 0
  BY SettledHolds DEF Settled
<1>2. from \div time_chunk_length <= to \div time_chunk_length
      /\ from \div time_chunk_length \in Int /\ to \div time_chunk_length \in Int
  BY <1>1, DivMonotone, DivFacts
<1>3. /\ get_idx_for(from) \in Nat /\ get_idx_for(from) <= from \div time_chunk_length + 1
      /\ get_idx_for(to) \in Nat /\ get_idx_for(to) >= to \div time_chunk_length
  BY IndexFacts
<1> QED  BY <1>2, <1>3

-----------------------------------------------------------------------------
(* Timelines: what label_sector and move_timeline leave *)

\* A timeline holds labels, none of them tll_empty.
Labelled(t) == \A i \in DOMAIN t : t[i] \in Labels

Sectors == [first : Int, last : Int, label : Labels]

LEMMA SectorType ==
  ASSUME NEW from \in Int, NEW to \in Int, NEW label \in Labels
  PROVE  Sector(from, to, label) \in Sectors
BY IndexFacts DEF Sector, Sectors

\* label_sector keeps what is labelled and labels every discrete of the sectors.
LEMMA LabelSectorsFacts ==
  ASSUME NEW t, Labelled(t), NEW base \in Int, NEW sectors \in Seq(Sectors)
  PROVE  /\ Labelled(LabelSectors(t, base, sectors))
         /\ DOMAIN t \subseteq DOMAIN LabelSectors(t, base, sectors)
         /\ \A i \in Int, n \in DOMAIN sectors :
              Covers(sectors[n], base, i) => i \in DOMAIN LabelSectors(t, base, sectors)
<1> DEFINE labelled == UNION {base + sectors[n].first .. base + sectors[n].last : n \in DOMAIN sectors}
           Last(i) == CHOOSE n \in DOMAIN sectors :
                        /\ Covers(sectors[n], base, i)
                        /\ \A m \in DOMAIN sectors : Covers(sectors[m], base, i) => m <= n
           new == LabelSectors(t, base, sectors)
<1>1. new = [i \in DOMAIN t \cup labelled |-> IF i \in labelled THEN sectors[Last(i)].label ELSE t[i]]
  BY DEF LabelSectors
<1>2. \A n \in DOMAIN sectors : sectors[n] \in Sectors
  OBVIOUS
<1>3. \A n \in DOMAIN sectors : sectors[n].first \in Int /\ sectors[n].last \in Int /\ sectors[n].label \in Labels
  BY <1>2 DEF Sectors
<1>4. ASSUME NEW i \in labelled  PROVE sectors[Last(i)].label \in Labels
  <2>1. PICK n \in DOMAIN sectors : i \in base + sectors[n].first .. base + sectors[n].last
    OBVIOUS
  <2>2. Covers(sectors[n], base, i)
    BY <1>3, <2>1 DEF Covers
  <2> DEFINE C == {m \in DOMAIN sectors : Covers(sectors[m], base, i)}
  <2>3. n \in C /\ C \in SUBSET (0 .. Len(sectors)) /\ Len(sectors) \in Nat
    BY <2>2
  <2> HIDE DEF C
  <2>4. PICK g \in C : \A m \in C : m <= g
    BY <2>3, GreatestOf
  <2> USE DEF C
  <2>5. g \in DOMAIN sectors /\ Covers(sectors[g], base, i)
        /\ \A m \in DOMAIN sectors : Covers(sectors[m], base, i) => m <= g
    BY <2>4
  <2> HIDE DEF C
  <2>6. Last(i) \in DOMAIN sectors
    BY <2>5
  <2> HIDE DEF Last
  <2> QED  BY <1>3, <2>6
<1>5. ASSUME NEW i \in Int, NEW n \in DOMAIN sectors, Covers(sectors[n], base, i)
      PROVE  i \in labelled
  <2>1. i \in base + sectors[n].first .. base + sectors[n].last
    BY <1>3, <1>5 DEF Covers
  <2> QED  BY <2>1
<1> HIDE DEF labelled, Last, new
<1>6. DOMAIN new = DOMAIN t \cup labelled
  BY <1>1
<1>7. ASSUME NEW i \in DOMAIN new  PROVE new[i] \in Labels
  <2>1. CASE i \in labelled
    BY <1>1, <1>4, <1>6, <2>1
  <2>2. CASE i \notin labelled
    BY <1>1, <1>6, <2>2 DEF Labelled
  <2> QED  BY <2>1, <2>2
<1> QED  BY <1>5, <1>6, <1>7 DEF Labelled, new

\* move_timeline keeps the labels of the present and the future.
LEMMA MoveFacts ==
  ASSUME NEW t, Labelled(t), NEW base \in Int
  PROVE  /\ Labelled(move_timeline(t, base))
         /\ \A i \in DOMAIN t : i >= base => i \in DOMAIN move_timeline(t, base)
BY DEF move_timeline, Labelled

\* Where get_value_at answers tll_empty nothing is labelled.
LEMMA EmptyIsUnlabelled ==
  ASSUME NEW t, Labelled(t), NEW base, NEW idx, get_value_at(t, base, idx) = "tll_empty"
  PROVE  base + idx \notin DOMAIN t
BY DEF get_value_at, Labelled, Labels

\* Lists of sectors, and what is in a list.
SectorSeq(s) == s \in Seq(Sectors)
Among(x, s) == \E n \in DOMAIN s : s[n] = x

LEMMA ConcatFacts ==
  ASSUME NEW s, NEW t, SectorSeq(s), SectorSeq(t)
  PROVE  SectorSeq(s \o t) /\ \A x : Among(x, s) \/ Among(x, t) => Among(x, s \o t)
<1>0. s \in Seq(Sectors) /\ t \in Seq(Sectors)
  BY DEF SectorSeq
<1>1. s \o t \in Seq(Sectors) /\ Len(s \o t) = Len(s) + Len(t)
  BY <1>0
<1>2. DOMAIN s = 1 .. Len(s) /\ DOMAIN t = 1 .. Len(t) /\ DOMAIN (s \o t) = 1 .. Len(s) + Len(t)
      /\ Len(s) \in Nat /\ Len(t) \in Nat
  BY <1>0, <1>1
<1>3. \A n \in DOMAIN s : n \in DOMAIN (s \o t) /\ (s \o t)[n] = s[n]
  BY <1>0, <1>2
<1>4. \A n \in DOMAIN t : n + Len(s) \in DOMAIN (s \o t) /\ (s \o t)[n + Len(s)] = t[n]
  BY <1>0, <1>2
<1>5. ASSUME NEW x, Among(x, s) \/ Among(x, t)  PROVE Among(x, s \o t)
  BY <1>3, <1>4, <1>5 DEF Among
<1> QED  BY <1>1, <1>5 DEF SectorSeq

LEMMA FunctionIsSeq ==
  ASSUME NEW S, NEW k \in Nat, NEW f, f = [n \in 1 .. k |-> f[n]], \A n \in 1 .. k : f[n] \in S
  PROVE  f \in Seq(S) /\ DOMAIN f = 1 .. k
OBVIOUS

-----------------------------------------------------------------------------
(* The times of a scan: what place_scan computes from the scan pair *)

LEMMA ScanTyped ==
  ASSUME NEW s, ScanAssumption(s)
  PROVE  /\ s.size \in 1 .. 16 /\ s.length \in Nat /\ s.period \in Nat /\ s.receive_time \in Nat
         /\ depth(s) \in Nat /\ period_time(s) \in Nat /\ range_offset_len(s) \in Int
         /\ transmit_len(s) \in Nat /\ receive_len(s) \in Int
<1>1. s.size \in {1, 2, 4, 8, 16} /\ s.length \in Nat /\ s.period \in Nat /\ s.receive_time \in Nat
  BY DEF ScanAssumption, ScanPairs
<1>2. period_time(s) \in Nat
  BY <1>1 DEF period_time
<1>3. depth(s) \in Nat
  BY SettledHolds DEF Settled, depth
<1>4. range_offset_len(s) \in Int
  BY <1>1, SettledHolds, RoundedUp DEF Settled, range_offset_len
<1>5. s.period * s.size \in Nat /\ s.length * duty_factor \in Nat
  BY <1>1, SettledHolds DEF Settled
<1>6. transmit_len(s) \in Nat
  <2> DEFINE pulses == IF s.size = 1 THEN s.length * duty_factor ELSE s.period * s.size
             sum == pulses + 2 * frequency_delay + blank_delay + reserve_time
  <2>1. pulses \in Nat
    BY <1>5
  <2> HIDE DEF pulses
  <2>2. sum \in Nat
    BY <2>1, SettledHolds DEF Settled
  <2>3. transmit_len(s) = multiples_of(sum, frequency_factor)
    BY DEF transmit_len, pulses
  <2> HIDE DEF sum
  <2> QED  BY <2>2, <2>3, RoundedUp
<1>7. receive_len(s) \in Int
  <2> DEFINE sum == (IF s.size = 1 THEN s.length ELSE s.period * s.size) + reserve_time
  <2>1. sum \in Int
    BY <1>1, <1>5, SettledHolds DEF Settled
  <2>2. receive_len(s) = multiples_of(sum, frequency_factor)
    BY DEF receive_len
  <2> HIDE DEF sum
  <2> QED  BY <2>1, <2>2, RoundedUp
<1>8. s.size \in 1 .. 16
  BY <1>1
<1> QED  BY <1>1, <1>2, <1>3, <1>4, <1>6, <1>7, <1>8

\* From the start of a transmission to the end of its last restoration.
EndOf(s) ==
  blank_delay + frequency_delay + reserve_time + blank_delay
    + (s.size - 1) * period_time(s) + duty_factor * s.length

\* The labels of a transmission reach at least to its end, since the blanking after a
\* pulse makes up for the second switch of frequencies, and a pulse is restored before
\* the next one starts, up to a blanking.
LEMMA TransmissionTimes ==
  ASSUME NEW s, ScanAssumption(s)
  PROVE  /\ EndOf(s) \in Nat
         /\ transmit_len(s) >= time_chunk_length
         /\ EndOf(s) >= transmit_len(s)
         /\ EndOf(s) <= transmit_len(s) + blank_delay
         /\ period_time(s) <= duty_factor * s.length + blank_delay
<1> DEFINE pulses == IF s.size = 1 THEN s.length * duty_factor ELSE s.period * s.size
           sum == pulses + 2 * frequency_delay + blank_delay + reserve_time
           D == duty_factor * s.length
           P == (s.size - 1) * period_time(s)
<1>0. Settled /\ blank_delay + frequency_delay + reserve_time >= time_chunk_length
      /\ frequency_delay <= blank_delay
  BY SettledHolds, SettingsAssumption DEF SettingsAssumption
<1>1. s.size \in 1 .. 16 /\ s.length \in Nat /\ s.period \in Nat /\ period_time(s) \in Nat
      /\ transmit_len(s) \in Nat
  BY ScanTyped
<1>2. pulses \in Nat /\ D \in Nat /\ P \in Nat
  BY <1>0, <1>1 DEF Settled
<1>3. s.length * duty_factor = D /\ D = duty_factor * s.length
  BY <1>0, <1>1 DEF Settled
<1>4. P + D = pulses /\ pulses = s.size * D /\ period_time(s) <= D
  <2>1. CASE s.size = 1
    <3>1. period_time(s) = 0 /\ P = 0 /\ pulses = D /\ s.size * D = D
      BY <2>1, <1>0, <1>1, <1>2 DEF period_time, Settled
    <3> HIDE DEF P, pulses, D
    <3> QED  BY <3>1, <1>2
  <2>2. CASE s.size > 1
    <3>1. period_time(s) = s.period /\ pulses = s.period * s.size
      BY <2>2, <1>1 DEF period_time
    <3>2. s.period = D
      BY <2>2, <1>3 DEF ScanAssumption
    <3>3. P + s.period = s.period * s.size /\ s.period * s.size = s.size * s.period
      BY <3>1, <1>1
    <3> HIDE DEF P, pulses, D
    <3> QED  BY <3>1, <3>2, <3>3, <1>1, <1>2
  <2> QED  BY <1>1, <2>1, <2>2
<1>5. transmit_len(s) = sum
  <2>1. transmit_len(s) = multiples_of(sum, frequency_factor)
    BY DEF transmit_len
  <2>2. sum = s.size * (s.length * duty_factor) + 2 * frequency_delay + blank_delay + reserve_time
    BY <1>3, <1>4
  <2> HIDE DEF sum, pulses, D
  <2> QED  BY <2>1, <2>2 DEF ScanAssumption
<1>6. EndOf(s) = blank_delay + frequency_delay + reserve_time + blank_delay + P + D
  BY DEF EndOf
<1>7. D = duty_factor * s.length
  OBVIOUS
<1> HIDE DEF P, D, pulses
<1> QED  BY <1>0, <1>1, <1>2, <1>4, <1>5, <1>6, <1>7 DEF Settled

LEMMA TimesMonotone ==
  ASSUME NEW k \in Nat, NEW p \in Int, NEW q \in Int, p <= q
  PROVE  p * k <= q * k /\ p * k \in Int /\ q * k \in Int
OBVIOUS

LEMMA Distribute ==
  ASSUME NEW k \in Int, NEW p \in Int, NEW q \in Int
  PROVE  (p + q) * k = p * k + q * k /\ p * k = k * p /\ p * k \in Int /\ q * k \in Int
OBVIOUS

\* A scan that is placed within the planning depth ends within the timeline.
LEMMA ScanInTimeline ==
  ASSUME NEW s, ScanAssumption(s), NEW idx \in Nat,
         idx + Discretes(transmit_len(s)) <= depth(s) - 1
  PROVE  idx * time_chunk_length + EndOf(s) <= timeline_depth * time_chunk_length
<1> DEFINE L == time_chunk_length
           X == s.receive_time + s.size * s.period + 2 * au_command_delay
           tl == transmit_len(s)
<1>0. Settled /\ phase_delay <= au_command_delay
      /\ blank_delay + frequency_delay + reserve_time <= phase_delay
  BY SettledHolds, SettingsAssumption DEF SettingsAssumption
<1>1. X \in Nat /\ X >= blank_delay
  <2>1. s.size * s.period \in Nat /\ s.receive_time \in Nat
    BY ScanTyped
  <2> QED  BY <1>0, <2>1 DEF Settled
<1>2. depth(s) + Discretes(X) < timeline_depth
  BY DEF ScanAssumption
<1>3. Discretes(X) \in Nat /\ L * Discretes(X) >= X
  <2> HIDE DEF X
  <2> QED  BY <1>1, DiscretesCover
<1>4. tl \in Nat /\ depth(s) \in Nat
  BY ScanTyped
<1>5. Discretes(tl) \in Nat /\ L * Discretes(tl) >= tl
  <2> HIDE DEF tl
  <2> QED  BY <1>4, DiscretesCover
<1>6. EndOf(s) \in Nat /\ EndOf(s) <= tl + blank_delay
  BY TransmissionTimes
<1> HIDE DEF X, tl
<1>7. idx + Discretes(tl) <= depth(s) - 1
  BY DEF tl
<1>8. L \in Nat /\ timeline_depth \in Nat /\ blank_delay \in Nat
  BY <1>0 DEF Settled
<1> HIDE DEF L
<1>9. (idx + Discretes(tl)) * L = idx * L + Discretes(tl) * L
  BY <1>5, <1>8, Distribute
<1>10. (idx + Discretes(tl)) * L <= (timeline_depth - Discretes(X)) * L
  <2>1. idx + Discretes(tl) \in Int /\ timeline_depth - Discretes(X) \in Int
        /\ idx + Discretes(tl) <= timeline_depth - Discretes(X)
    BY <1>2, <1>3, <1>4, <1>5, <1>7, <1>8
  <2> QED  BY <2>1, <1>8, TimesMonotone
<1>11. (timeline_depth - Discretes(X)) * L + Discretes(X) * L = timeline_depth * L
  <2>1. ((timeline_depth - Discretes(X)) + Discretes(X)) * L
        = (timeline_depth - Discretes(X)) * L + Discretes(X) * L
    BY <1>3, <1>8, Distribute
  <2>2. (timeline_depth - Discretes(X)) + Discretes(X) = timeline_depth
    BY <1>3, <1>8
  <2> QED  BY <2>1, <2>2
<1>12. /\ idx * L \in Int /\ Discretes(tl) * L = L * Discretes(tl) /\ Discretes(tl) * L \in Int
       /\ Discretes(X) * L = L * Discretes(X) /\ Discretes(X) * L \in Int
       /\ (timeline_depth - Discretes(X)) * L \in Int
  BY <1>3, <1>5, <1>8
<1>13. idx * L + EndOf(s) <= timeline_depth * L
  BY <1>1, <1>3, <1>4, <1>5, <1>6, <1>8, <1>9, <1>10, <1>11, <1>12
<1> QED  BY <1>13 DEF L

\* The times of the pulses, counted from the start of the transmission.
PulseStart(s, m) == blank_delay + frequency_delay + reserve_time + m * period_time(s)
PulseStop(s, m)  == PulseStart(s, m) + s.length + blank_delay
Restored(s, m)   == PulseStop(s, m) + (duty_factor - 1) * s.length

LEMMA PulseTimes ==
  ASSUME NEW s, ScanAssumption(s), NEW m \in 0 .. s.size - 1
  PROVE  /\ PulseStart(s, m) \in Nat /\ PulseStop(s, m) \in Nat /\ Restored(s, m) \in Nat
         /\ PulseStart(s, m) <= PulseStop(s, m) /\ PulseStop(s, m) <= Restored(s, m)
         /\ Restored(s, m) <= EndOf(s)
         /\ m = s.size - 1 => Restored(s, m) = EndOf(s)
         /\ m < s.size - 1 => PulseStart(s, m + 1) <= Restored(s, m) /\ PulseStart(s, m + 1) \in Nat
<1>0. Settled
  BY SettledHolds
<1>1. s.size \in 1 .. 16 /\ s.length \in Nat /\ period_time(s) \in Nat
      /\ period_time(s) <= duty_factor * s.length + blank_delay
  BY ScanTyped, TransmissionTimes
<1> DEFINE D == duty_factor * s.length
           R == (duty_factor - 1) * s.length
           M == m * period_time(s)
           N == (m + 1) * period_time(s)
           E == (s.size - 1) * period_time(s)
<1>2. D \in Nat /\ R \in Nat /\ R + s.length = D
  BY <1>0, <1>1 DEF Settled
<1>3. M \in Nat /\ N = M + period_time(s) /\ E \in Nat
  BY <1>1
<1>4. M <= E
  <2>1. m \in Int /\ s.size - 1 \in Int /\ m <= s.size - 1
    BY <1>1
  <2> QED  BY <2>1, <1>1, TimesMonotone
<1>5. m = s.size - 1 => M = E
  OBVIOUS
<1>6. /\ PulseStart(s, m) = blank_delay + frequency_delay + reserve_time + M
      /\ PulseStart(s, m + 1) = blank_delay + frequency_delay + reserve_time + N
      /\ PulseStop(s, m) = PulseStart(s, m) + s.length + blank_delay
      /\ Restored(s, m) = PulseStop(s, m) + R
      /\ EndOf(s) = blank_delay + frequency_delay + reserve_time + blank_delay + E + D
  BY DEF PulseStart, PulseStop, Restored, EndOf
<1>7. period_time(s) <= D + blank_delay
  BY <1>1
<1> DEFINE g == blank_delay + frequency_delay + reserve_time
<1>8. g \in Nat /\ blank_delay \in Nat
  BY <1>0 DEF Settled
<1> HIDE DEF D, R, M, N, E
<1>9. PulseStart(s, m) = g + M /\ PulseStart(s, m + 1) = g + N /\ EndOf(s) = g + blank_delay + E + D
  BY <1>6
<1> HIDE DEF g
<1>10. PulseStart(s, m) \in Nat /\ PulseStop(s, m) \in Nat /\ Restored(s, m) \in Nat
  BY <1>1, <1>2, <1>3, <1>6, <1>8, <1>9
<1>11. PulseStart(s, m) <= PulseStop(s, m) /\ PulseStop(s, m) <= Restored(s, m)
  BY <1>1, <1>2, <1>6, <1>8, <1>10
<1>12. Restored(s, m) = g + blank_delay + M + D
  BY <1>1, <1>2, <1>3, <1>6, <1>8, <1>9, <1>10
<1>13. Restored(s, m) <= EndOf(s) /\ (m = s.size - 1 => Restored(s, m) = EndOf(s))
  BY <1>2, <1>3, <1>4, <1>5, <1>8, <1>9, <1>12
<1>14. PulseStart(s, m + 1) <= Restored(s, m) /\ PulseStart(s, m + 1) \in Nat
  BY <1>1, <1>2, <1>3, <1>7, <1>8, <1>9, <1>12
<1> QED  BY <1>10, <1>11, <1>13, <1>14

-----------------------------------------------------------------------------
(* What place_scan labels: every discrete the transmission takes *)

\* The list of sectors place_scan labels on the converter has one for the time before
\* the pulses, and two for each pulse.
LEMMA ConverterSectors ==
  ASSUME NEW s, ScanAssumption(s), NEW T \in Int
  PROVE  /\ SectorSeq(dcu_sectors(T, s))
         /\ Among(Sector(T, T + PulseStart(s, 0), "tll_dcu_transmit"), dcu_sectors(T, s))
         /\ \A m \in 0 .. s.size - 1 :
              /\ Among(Sector(T + PulseStart(s, m), T + PulseStop(s, m), "tll_dcu_transmit"), dcu_sectors(T, s))
              /\ Among(Sector(T + PulseStop(s, m), T + Restored(s, m), "tll_dcu_energy_restore"), dcu_sectors(T, s))
<1> DEFINE guard == blank_delay + frequency_delay + reserve_time
           Start(n) == T + guard + ((n - 1) \div 2) * period_time(s)
           Stop(n)  == Start(n) + s.length + blank_delay
           reception == T + range_offset_len(s) + phase_delay
           Received(n) == reception + reserve_time + (n - 1) * period_time(s)
           first == << Sector(T, T + guard, "tll_dcu_transmit") >>
           pulses == [n \in 1 .. 2 * s.size |->
             IF n % 2 = 1
             THEN Sector(Start(n), Stop(n), "tll_dcu_transmit")
             ELSE Sector(Stop(n), Stop(n) + (duty_factor - 1) * s.length, "tll_dcu_energy_restore")]
           guarded == << Sector(reception, reception + reserve_time, "tll_dcu_receive") >>
           echoes == [n \in 1 .. s.size |-> Sector(Received(n), Received(n) + s.length, "tll_dcu_receive")]
<1>0. Settled
  BY SettledHolds
<1>1. s.size \in 1 .. 16 /\ s.length \in Nat /\ period_time(s) \in Nat /\ range_offset_len(s) \in Int
  BY ScanTyped
<1>2. dcu_sectors(T, s) = ((first \o pulses) \o guarded) \o echoes
  BY DEF dcu_sectors
<1>3. "tll_dcu_transmit" \in Labels /\ "tll_dcu_energy_restore" \in Labels /\ "tll_dcu_receive" \in Labels
  BY DEF Labels
<1>4. ASSUME NEW n \in 1 .. 2 * s.size  PROVE Start(n) \in Int /\ Stop(n) \in Int
  <2>1. (n - 1) \div 2 \in Int
    BY <1>1
  <2>2. ((n - 1) \div 2) * period_time(s) \in Int
    BY <1>1, <2>1
  <2> QED  BY <1>0, <1>1, <2>2 DEF Settled
<1>5. guard \in Int /\ reception \in Int /\ (duty_factor - 1) * s.length \in Int
  BY <1>0, <1>1 DEF Settled
<1>6. ASSUME NEW n \in 1 .. s.size  PROVE Received(n) \in Int
  <2>1. (n - 1) * period_time(s) \in Int
    BY <1>1
  <2> HIDE DEF reception
  <2> QED  BY <1>0, <1>5, <2>1 DEF Settled
<1>7. first \in Seq(Sectors) /\ DOMAIN first = {1} /\ first[1] = Sector(T, T + guard, "tll_dcu_transmit")
  <2>1. T + guard \in Int
    BY <1>5
  <2>2. Sector(T, T + guard, "tll_dcu_transmit") \in Sectors
    BY <2>1, <1>3, SectorType
  <2> QED  BY <2>2
<1>8. guarded \in Seq(Sectors)
  <2>1. reception + reserve_time \in Int
    BY <1>0, <1>5 DEF Settled
  <2> HIDE DEF reception
  <2>2. Sector(reception, reception + reserve_time, "tll_dcu_receive") \in Sectors
    BY <2>1, <1>5, <1>3, SectorType
  <2> QED  BY <2>2
<1>9. pulses \in Seq(Sectors) /\ DOMAIN pulses = 1 .. 2 * s.size
  <2> HIDE DEF Start, Stop
  <2>1. ASSUME NEW n \in 1 .. 2 * s.size  PROVE pulses[n] \in Sectors
    <3>1. Stop(n) + (duty_factor - 1) * s.length \in Int
      BY <1>4, <1>5
    <3>2. Sector(Start(n), Stop(n), "tll_dcu_transmit") \in Sectors
      BY <1>3, <1>4, SectorType
    <3>3. Sector(Stop(n), Stop(n) + (duty_factor - 1) * s.length, "tll_dcu_energy_restore") \in Sectors
      BY <1>3, <1>4, <3>1, SectorType
    <3> QED  BY <3>2, <3>3
  <2>2. 2 * s.size \in Nat /\ pulses = [n \in 1 .. 2 * s.size |-> pulses[n]]
    BY <1>1
  <2> HIDE DEF pulses
  <2> QED  BY <2>1, <2>2, FunctionIsSeq
<1>10. echoes \in Seq(Sectors)
  <2> HIDE DEF Received
  <2>1. ASSUME NEW n \in 1 .. s.size  PROVE echoes[n] \in Sectors
    <3>1. Received(n) + s.length \in Int
      BY <1>1, <1>6
    <3>2. Sector(Received(n), Received(n) + s.length, "tll_dcu_receive") \in Sectors
      BY <1>3, <1>6, <3>1, SectorType
    <3> QED  BY <3>2
  <2>2. s.size \in Nat /\ echoes = [n \in 1 .. s.size |-> echoes[n]]
    BY <1>1
  <2> HIDE DEF echoes
  <2> QED  BY <2>1, <2>2, FunctionIsSeq
<1>11. ASSUME NEW m \in 0 .. s.size - 1
       PROVE  /\ 2 * m + 1 \in DOMAIN pulses /\ 2 * m + 2 \in DOMAIN pulses
              /\ pulses[2 * m + 1] = Sector(T + PulseStart(s, m), T + PulseStop(s, m), "tll_dcu_transmit")
              /\ pulses[2 * m + 2] = Sector(T + PulseStop(s, m), T + Restored(s, m), "tll_dcu_energy_restore")
  <2>1. /\ 2 * m + 1 \in 1 .. 2 * s.size /\ 2 * m + 2 \in 1 .. 2 * s.size
        /\ (2 * m + 1) % 2 = 1 /\ (2 * m + 2) % 2 # 1
        /\ ((2 * m + 1) - 1) \div 2 = m /\ ((2 * m + 2) - 1) \div 2 = m
    BY <1>1
  <2>2. m * period_time(s) \in Int
    BY <1>1
  <2>3. Start(2 * m + 1) = T + PulseStart(s, m) /\ Start(2 * m + 2) = T + PulseStart(s, m)
    BY <1>0, <2>1, <2>2 DEF PulseStart, Settled
  <2>4. PulseStart(s, m) \in Int /\ PulseStop(s, m) \in Int
    BY PulseTimes
  <2>5. Stop(2 * m + 1) = T + PulseStop(s, m) /\ Stop(2 * m + 2) = T + PulseStop(s, m)
    <3> HIDE DEF Start
    <3> QED  BY <1>0, <1>1, <2>3, <2>4 DEF PulseStop, Settled
  <2>6. Stop(2 * m + 2) + (duty_factor - 1) * s.length = T + Restored(s, m)
    <3> HIDE DEF Stop
    <3> QED  BY <1>5, <2>4, <2>5 DEF Restored
  <2> HIDE DEF Start, Stop
  <2> QED  BY <1>9, <2>1, <2>3, <2>5, <2>6
<1>12. PulseStart(s, 0) = guard
  BY <1>0, <1>1 DEF PulseStart, Settled
<1> HIDE DEF first, pulses, guarded, echoes, guard
<1>13. SectorSeq(first) /\ SectorSeq(pulses) /\ SectorSeq(guarded) /\ SectorSeq(echoes)
  BY <1>7, <1>8, <1>9, <1>10 DEF SectorSeq
<1> DEFINE sent == first \o pulses
           all == (sent \o guarded) \o echoes
<1>14. SectorSeq(sent) /\ \A x : Among(x, first) \/ Among(x, pulses) => Among(x, sent)
  BY <1>13, ConcatFacts
<1>15. dcu_sectors(T, s) = all
  BY <1>2
<1> HIDE DEF sent
<1>16. SectorSeq(sent \o guarded) /\ \A x : Among(x, sent) => Among(x, sent \o guarded)
  BY <1>13, <1>14, ConcatFacts
<1>17. SectorSeq(all) /\ \A x : Among(x, sent \o guarded) => Among(x, all)
  BY <1>13, <1>16, ConcatFacts
<1> HIDE DEF all
<1>18. \A x : Among(x, first) \/ Among(x, pulses) => Among(x, all)
  BY <1>14, <1>16, <1>17
<1>19. Among(Sector(T, T + PulseStart(s, 0), "tll_dcu_transmit"), first)
  BY <1>7, <1>12 DEF Among
<1>20. ASSUME NEW m \in 0 .. s.size - 1
       PROVE  /\ Among(Sector(T + PulseStart(s, m), T + PulseStop(s, m), "tll_dcu_transmit"), pulses)
              /\ Among(Sector(T + PulseStop(s, m), T + Restored(s, m), "tll_dcu_energy_restore"), pulses)
  BY <1>11 DEF Among
<1> QED  BY <1>15, <1>17, <1>18, <1>19, <1>20

\* A sector covers the discretes from its first time to its last.
LEMMA SectorCovers ==
  ASSUME NEW from \in Nat, NEW to \in Nat, to <= timeline_depth * time_chunk_length, from <= to,
         NEW label, NEW i \in Int, NEW base \in Int,
         base + get_idx_for(from) <= i, i <= base + get_idx_for(to)
  PROVE  Covers(Sector(from, to, label), base, i)
BY DEF Covers, Sector

\* The last pulse begun by a discrete, or the time before the pulses, covers it.
LEMMA TransmissionLabelled ==
  ASSUME NEW s, ScanAssumption(s), NEW base \in Nat, NEW idx \in Nat,
         idx + Discretes(transmit_len(s)) <= depth(s) - 1,
         NEW i \in base + idx + 1 .. base + idx + transmit_len(s) \div time_chunk_length
  PROVE  \E x : Among(x, dcu_sectors(idx * time_chunk_length, s)) /\ Covers(x, base, i)
<1> DEFINE L == time_chunk_length
           T == idx * time_chunk_length
           top == timeline_depth * time_chunk_length
           sectors == dcu_sectors(T, s)
           gi(t) == get_idx_for(T + t)
           First(m) == gi(PulseStart(s, m))
<1>0. L \in Nat /\ L > 0 /\ timeline_depth \in Nat /\ frequency_delay \in Nat
  BY SettledHolds DEF Settled
<1>1. s.size \in 1 .. 16 /\ s.length \in Nat /\ transmit_len(s) \in Nat
  BY ScanTyped
<1>2. T \in Nat /\ top \in Nat
  BY <1>0
<1>3. EndOf(s) \in Nat /\ T + EndOf(s) <= top /\ EndOf(s) >= transmit_len(s)
      /\ transmit_len(s) >= L
  BY ScanInTimeline, TransmissionTimes, <1>0, <1>1
<1>4. /\ Among(Sector(T, T + PulseStart(s, 0), "tll_dcu_transmit"), sectors)
      /\ \A m \in 0 .. s.size - 1 :
           /\ Among(Sector(T + PulseStart(s, m), T + PulseStop(s, m), "tll_dcu_transmit"), sectors)
           /\ Among(Sector(T + PulseStop(s, m), T + Restored(s, m), "tll_dcu_energy_restore"), sectors)
  BY <1>2, ConverterSectors
<1>5. \A m \in 0 .. s.size - 1 :
         /\ PulseStart(s, m) \in Nat /\ PulseStop(s, m) \in Nat /\ Restored(s, m) \in Nat
         /\ PulseStart(s, m) <= PulseStop(s, m) /\ PulseStop(s, m) <= Restored(s, m)
         /\ Restored(s, m) <= EndOf(s)
         /\ m = s.size - 1 => Restored(s, m) = EndOf(s)
         /\ m < s.size - 1 => PulseStart(s, m + 1) <= Restored(s, m) /\ PulseStart(s, m + 1) \in Nat
  BY PulseTimes
<1>6. \A t \in Nat : t <= EndOf(s) => T + t \in 0 .. top /\ gi(t) \in Nat
  <2> SUFFICES ASSUME NEW t \in Nat, t <= EndOf(s)  PROVE T + t \in 0 .. top /\ gi(t) \in Nat
    OBVIOUS
  <2>1. T + t \in 0 .. top
    BY <1>2, <1>3
  <2> HIDE DEF T
  <2> QED  BY <2>1, IndexFacts
<1>7. gi(EndOf(s)) >= idx + transmit_len(s) \div L
  <2> DEFINE x == transmit_len(s)
  <2>1. x \in Int /\ T + x <= T + EndOf(s)
    BY <1>0, <1>1, <1>2, <1>3
  <2> HIDE DEF x
  <2>2. (idx * L + x) \div L = idx + x \div L
    BY <1>0, <2>1, DivShift
  <2>3. (T + x) \div L <= (T + EndOf(s)) \div L
    BY <1>0, <1>2, <1>3, <2>1, DivMonotone
  <2>4. T + EndOf(s) \in 0 .. top
    BY <1>2, <1>3
  <2>5. gi(EndOf(s)) >= (T + EndOf(s)) \div L
    <3> HIDE DEF T
    <3> QED  BY <2>4, IndexFacts
  <2>6. gi(EndOf(s)) \in Int /\ (T + EndOf(s)) \div L \in Int /\ (T + x) \div L \in Int /\ x \div L \in Int
    BY <1>0, <1>2, <1>3, <1>6, <2>1, DivFacts
  <2>7. (T + x) \div L = idx + x \div L
    BY <2>2
  <2> HIDE DEF T, gi
  <2>8. gi(EndOf(s)) >= idx + x \div L
    BY <2>3, <2>5, <2>6, <2>7
  <2> QED  BY <2>8 DEF x
<1>8. get_idx_for(T) = idx + 1
  BY <1>0, <1>2, <1>3, IndexOfDiscrete
<1>9. i \in Int /\ base + idx + 1 <= i /\ i <= base + gi(EndOf(s))
  <2>1. transmit_len(s) \div L \in Int
    BY <1>0, <1>1, DivFacts
  <2>2. gi(EndOf(s)) \in Nat
    BY <1>3, <1>6
  <2> HIDE DEF gi
  <2> QED  BY <1>7, <2>1, <2>2
<1> DEFINE Begun == {m \in 0 .. s.size - 1 : base + First(m) <= i}
<1>10. \A m \in 0 .. s.size - 1 : PulseStart(s, m) <= EndOf(s) /\ PulseStop(s, m) <= EndOf(s)
  BY <1>3, <1>5
<1>11. CASE Begun = {}
  <2>1. 0 \in 0 .. s.size - 1
    BY <1>1
  <2>2. i < base + gi(PulseStart(s, 0))
    <3>1. gi(PulseStart(s, 0)) \in Nat
      BY <1>5, <1>6, <1>10, <2>1
    <3>2. ~(base + First(0) <= i)
      BY <1>11, <2>1
    <3> HIDE DEF gi
    <3> QED  BY <1>9, <3>1, <3>2
  <2>3. PulseStart(s, 0) \in Nat /\ T + PulseStart(s, 0) \in 0 .. top
    BY <1>5, <1>6, <1>10, <2>1
  <2>4. gi(PulseStart(s, 0)) \in Nat
    BY <1>6, <1>10, <1>5, <2>1
  <2>5. base + get_idx_for(T) <= i /\ i <= base + get_idx_for(T + PulseStart(s, 0))
    <3> HIDE DEF T
    <3> QED  BY <1>8, <1>9, <2>2, <2>4
  <2>6. T + PulseStart(s, 0) \in Nat /\ T + PulseStart(s, 0) <= top /\ T <= T + PulseStart(s, 0)
    BY <1>2, <2>3
  <2>7. Covers(Sector(T, T + PulseStart(s, 0), "tll_dcu_transmit"), base, i)
    <3> HIDE DEF T
    <3> QED  BY <1>2, <1>9, <2>5, <2>6, SectorCovers
  <2> QED  BY <1>4, <2>7
<1>12. CASE Begun # {}
  <2>1. Begun \in SUBSET (0 .. s.size - 1) /\ s.size - 1 \in Nat
    BY <1>1
  <2>2. PICK m \in Begun : \A n \in Begun : n <= m
    <3> HIDE DEF Begun
    <3> QED  BY <1>12, <2>1, GreatestOf
  <2>3. m \in 0 .. s.size - 1 /\ base + First(m) <= i
    BY <2>2
  <2>4. /\ PulseStart(s, m) \in Nat /\ PulseStop(s, m) \in Nat /\ Restored(s, m) \in Nat
        /\ PulseStart(s, m) <= PulseStop(s, m) /\ PulseStop(s, m) <= Restored(s, m)
        /\ Restored(s, m) <= EndOf(s)
    BY <1>5, <2>3
  <2>5. gi(PulseStop(s, m)) \in Nat /\ gi(Restored(s, m)) \in Nat /\ gi(PulseStart(s, m)) \in Nat
        /\ T + PulseStop(s, m) \in 0 .. top /\ T + Restored(s, m) \in 0 .. top
        /\ T + PulseStart(s, m) \in 0 .. top
    BY <1>6, <1>10, <2>3, <2>4
  <2>6. i <= base + gi(Restored(s, m))
    <3>1. CASE m = s.size - 1
      <4>1. Restored(s, m) = EndOf(s)
        BY <1>5, <2>3, <3>1
      <4> HIDE DEF gi
      <4> QED  BY <1>9, <4>1
    <3>2. CASE m < s.size - 1
      <4>1. m + 1 \in 0 .. s.size - 1 /\ m + 1 > m
        BY <1>1, <2>3, <3>2
      <4>2. m + 1 \notin Begun
        <5> HIDE DEF Begun
        <5>1. m \in Int
          BY <2>3
        <5> QED  BY <2>2, <4>1, <5>1
      <4>3. ~(base + First(m + 1) <= i)
        BY <4>1, <4>2
      <4>4. PulseStart(s, m + 1) <= Restored(s, m) /\ PulseStart(s, m + 1) \in Nat
        BY <1>5, <2>3, <3>2
      <4>5. T + PulseStart(s, m + 1) \in 0 .. top /\ gi(PulseStart(s, m + 1)) \in Nat
        BY <1>6, <1>10, <4>1, <4>4
      <4>6. T + PulseStart(s, m + 1) <= T + Restored(s, m)
            /\ T + PulseStart(s, m + 1) \in Int /\ T + Restored(s, m) \in Int
        BY <1>2, <2>4, <4>4
      <4>7. gi(PulseStart(s, m + 1)) <= gi(Restored(s, m)) + 1
        <5> HIDE DEF T
        <5> QED  BY <2>5, <4>5, <4>6, IndexSteps
      <4> HIDE DEF gi
      <4> QED  BY <1>9, <2>5, <4>3, <4>5, <4>7
    <3> QED  BY <1>1, <2>3, <3>1, <3>2
  <2>7. CASE i <= base + gi(PulseStop(s, m))
    <3>1. T + PulseStart(s, m) \in Nat /\ T + PulseStop(s, m) \in Nat
          /\ T + PulseStop(s, m) <= top /\ T + PulseStart(s, m) <= T + PulseStop(s, m)
      BY <1>2, <2>4, <2>5
    <3>2. Covers(Sector(T + PulseStart(s, m), T + PulseStop(s, m), "tll_dcu_transmit"), base, i)
      <4> HIDE DEF T
      <4> QED  BY <1>9, <2>3, <2>7, <3>1, SectorCovers
    <3> QED  BY <1>4, <2>3, <3>2
  <2>8. CASE ~(i <= base + gi(PulseStop(s, m)))
    <3>1. T + PulseStop(s, m) \in Nat /\ T + Restored(s, m) \in Nat
          /\ T + Restored(s, m) <= top /\ T + PulseStop(s, m) <= T + Restored(s, m)
      BY <1>2, <2>4, <2>5
    <3>2. base + gi(PulseStop(s, m)) <= i
      <4> HIDE DEF gi
      <4> QED  BY <1>9, <2>5, <2>8
    <3>3. Covers(Sector(T + PulseStop(s, m), T + Restored(s, m), "tll_dcu_energy_restore"), base, i)
      <4> HIDE DEF T
      <4> QED  BY <1>9, <2>6, <3>1, <3>2, SectorCovers
    <3> QED  BY <1>4, <2>3, <3>3
  <2> QED  BY <2>7, <2>8
<1> QED  BY <1>11, <1>12

-----------------------------------------------------------------------------
(* Queries: sorting, removing and adding keep them queries *)

\* The queries of the scheduler.
Queries == {q \in [type : QueryTypes, id : Nat, t_prev : Nat, scan : ScanPairs] : ScanAssumption(q.scan)}

QueriesTyped(qs) == qs \in Seq(Queries)

LEMMA QueryFacts ==
  ASSUME QueriesTyped(queries), NEW n \in DOMAIN queries
  PROVE  /\ queries[n] \in Queries
         /\ queries[n].type \in QueryTypes /\ queries[n].id \in Nat /\ queries[n].t_prev \in Nat
         /\ ScanAssumption(queries[n].scan)
<1>1. queries[n] \in Queries
  BY DEF QueriesTyped
<1> QED  BY <1>1 DEF Queries

\* The places S in a strict order: the list that before puts them in has each of them once.
InSomeOrder(qs, S) ==
  \E k \in Nat : \E place \in Bijection(1 .. k, S) : qs = [r \in 1 .. k |-> queries[place[r]]]

LEMMA InOrderPlaces ==
  ASSUME QueriesTyped(queries), NEW S \in SUBSET DOMAIN queries, NEW before,
         \A m \in S : <<m, m>> \notin before,
         \A l, m, n \in S : <<l, m>> \in before /\ <<m, n>> \in before => <<l, n>> \in before,
         \A m, n \in S : m # n => <<m, n>> \in before \/ <<n, m>> \in before
  PROVE  InSomeOrder(InOrder(S, before), S)
<1>1. DOMAIN queries = 1 .. Len(queries) /\ Len(queries) \in Nat
  BY DEF QueriesTyped
<1>2. IsFiniteSet(S)
  <2>1. IsFiniteSet(DOMAIN queries)
    BY <1>1, FS_Interval
  <2> QED  BY <2>1, FS_Subset
<1> DEFINE k == Cardinality(S)
           Below(n) == Cardinality({m \in S : <<m, n>> \in before})
           place == [r \in 1 .. k |-> CHOOSE n \in S : Below(n) = r - 1]
<1>3. k \in Nat /\ \A r \in 1 .. k : \E n \in S : Below(n) = r - 1
  BY <1>2, EveryRankTaken
<1>4. InOrder(S, before) = [r \in 1 .. k |-> queries[place[r]]]
  BY DEF InOrder
<1> HIDE DEF Below, k
<1>5. \A r \in 1 .. k : place[r] \in S /\ Below(place[r]) = r - 1
  BY <1>3
<1>6. place \in [1 .. k -> S]
  BY <1>5
<1> HIDE DEF place
<1>7. \A q, r \in 1 .. k : place[q] = place[r] => q = r
  <2> SUFFICES ASSUME NEW q \in 1 .. k, NEW r \in 1 .. k, place[q] = place[r]  PROVE q = r
    OBVIOUS
  <2>1. q - 1 = r - 1
    BY <1>5
  <2> QED  BY <1>3, <2>1
<1>8. place \in Injection(1 .. k, S)
  BY <1>6, <1>7 DEF Injection, IsInjective
<1>9. Cardinality(1 .. k) = Cardinality(S)
  BY <1>3, FS_Interval DEF k
<1>10. place \in Bijection(1 .. k, S)
  BY <1>2, <1>8, <1>9, FS_Injection DEF Bijection
<1> QED  BY <1>3, <1>4, <1>10 DEF InSomeOrder

\* Queries that are picked are queries.
LEMMA PickedTyped ==
  ASSUME QueriesTyped(queries), NEW S \in SUBSET DOMAIN queries, NEW qs, InSomeOrder(qs, S)
  PROVE  QueriesTyped(qs)
<1>0. PICK k \in Nat : \E place \in Bijection(1 .. k, S) : qs = [r \in 1 .. k |-> queries[place[r]]]
  BY DEF InSomeOrder
<1>1. PICK place \in Bijection(1 .. k, S) : qs = [r \in 1 .. k |-> queries[place[r]]]
  BY <1>0
<1>2. \A r \in 1 .. k : place[r] \in S
  BY DEF Bijection, Injection
<1>3. \A r \in 1 .. k : qs[r] \in Queries
  BY <1>1, <1>2, QueryFacts
<1>4. qs = [r \in 1 .. k |-> qs[r]]
  BY <1>1
<1>5. qs \in Seq(Queries)
  BY <1>3, <1>4, FunctionIsSeq
<1> QED  BY <1>5 DEF QueriesTyped

LEMMA SortedPlaces ==
  ASSUME QueriesTyped(queries), NEW time \in Nat
  PROVE  InSomeOrder(SortedQueries(time), DOMAIN queries)
<1> DEFINE p(n) == p_value(queries[n], time)
           before == {w \in Places \X Places :
                        p(w[1]) > p(w[2]) \/ (p(w[1]) = p(w[2]) /\ w[1] < w[2])}
<1>1. Places = 1 .. Len(queries) /\ Len(queries) \in Nat
  BY DEF QueriesTyped, Places
<1>2. ASSUME NEW n \in Places  PROVE p(n) \in Int
  <2>1. queries[n].type \in QueryTypes /\ queries[n].t_prev \in Nat
    BY QueryFacts DEF Places
  <2>2. speed[queries[n].type] \in Nat
    BY <2>1, SettingsAssumption DEF SettingsAssumption
  <2> QED  BY <2>1, <2>2 DEF p_value
<1> HIDE DEF p
<1>3. \A m, n \in Places : <<m, n>> \in before <=> p(m) > p(n) \/ (p(m) = p(n) /\ m < n)
  OBVIOUS
<1> HIDE DEF before
<1>4. \A m \in Places : <<m, m>> \notin before
  BY <1>1, <1>2, <1>3
<1>5. \A l, m, n \in Places : <<l, m>> \in before /\ <<m, n>> \in before => <<l, n>> \in before
  BY <1>1, <1>2, <1>3
<1>6. \A m, n \in Places : m # n => <<m, n>> \in before \/ <<n, m>> \in before
  BY <1>1, <1>2, <1>3
<1>7. InSomeOrder(InOrder(Places, before), DOMAIN queries)
  BY <1>4, <1>5, <1>6, InOrderPlaces DEF Places
<1>8. SortedQueries(time) = InOrder(Places, before)
  BY DEF SortedQueries, before, p
<1> QED  BY <1>7, <1>8

\* The places of the queries that stay.
Kept == {n \in DOMAIN queries : queries[n].id \notin removed_id}

LEMMA RemainingPlaces ==
  ASSUME QueriesTyped(queries)
  PROVE  InSomeOrder(Remaining, Kept)
<1> DEFINE before == {w \in Places \X Places : w[1] < w[2]}
<1>1. Places = 1 .. Len(queries) /\ Len(queries) \in Nat
  BY DEF QueriesTyped, Places
<1>2. \A m, n \in Places : <<m, n>> \in before <=> m < n
  OBVIOUS
<1>3. Kept \in SUBSET Places
  BY DEF Kept, Places
<1> HIDE DEF before
<1>4. \A m \in Kept : <<m, m>> \notin before
  BY <1>1, <1>2, <1>3
<1>5. \A l, m, n \in Kept : <<l, m>> \in before /\ <<m, n>> \in before => <<l, n>> \in before
  BY <1>1, <1>2, <1>3
<1>6. \A m, n \in Kept : m # n => <<m, n>> \in before \/ <<n, m>> \in before
  BY <1>1, <1>2, <1>3
<1>7. InSomeOrder(InOrder(Kept, before), Kept)
  BY <1>3, <1>4, <1>5, <1>6, InOrderPlaces DEF Places
<1> QED  BY <1>7 DEF Remaining, Kept, Places, before
LEMMA SortedTyped ==
  ASSUME QueriesTyped(queries), NEW time \in Nat
  PROVE  QueriesTyped(SortedQueries(time))
BY SortedPlaces, PickedTyped

LEMMA RemainingTyped ==
  ASSUME QueriesTyped(queries)
  PROVE  QueriesTyped(Remaining)
<1>1. Kept \in SUBSET DOMAIN queries
  BY DEF Kept
<1> QED  BY <1>1, RemainingPlaces, PickedTyped

LEMMA ConcatTyped ==
  ASSUME NEW s, NEW t, QueriesTyped(s), QueriesTyped(t)
  PROVE  QueriesTyped(s \o t)
BY DEF QueriesTyped

LEMMA ServedTyped ==
  ASSUME QueriesTyped(queries), NEW n \in DOMAIN queries, NEW time \in Nat
  PROVE  QueriesTyped([queries EXCEPT ![n].t_prev = time])
<1> DEFINE q == queries[n]
           r == [q EXCEPT !.t_prev = time]
<1>1. q \in [type : QueryTypes, id : Nat, t_prev : Nat, scan : ScanPairs] /\ ScanAssumption(q.scan)
  <2>1. q \in Queries
    BY QueryFacts
  <2> HIDE DEF q
  <2> QED  BY <2>1 DEF Queries
<1>2. r \in [type : QueryTypes, id : Nat, t_prev : Nat, scan : ScanPairs] /\ r.scan = q.scan
  <2> HIDE DEF q
  <2> QED  BY <1>1
<1>3. r \in Queries
  <2> HIDE DEF q, r
  <2> QED  BY <1>1, <1>2 DEF Queries
<1>4. [queries EXCEPT ![n].t_prev = time] = [queries EXCEPT ![n] = r]
  OBVIOUS
<1> HIDE DEF r
<1>5. [queries EXCEPT ![n] = r] \in Seq(Queries)
  BY <1>3 DEF QueriesTyped
<1> QED  BY <1>4, <1>5 DEF QueriesTyped

LEMMA OneTyped ==
  ASSUME NEW q \in Queries
  PROVE  QueriesTyped(<< q >>)
BY DEF QueriesTyped

LEMMA FollowUpTyped ==
  ASSUME QueriesTyped(queries), NEW n \in DOMAIN queries, NEW time \in Nat
  PROVE  QueriesTyped(FollowUp(queries[n], time))
<1> DEFINE q == queries[n]
           Shape == [type : QueryTypes, id : Nat, t_prev : Nat, scan : ScanPairs]
           as(type) == [q EXCEPT !.type = type, !.id = @ + 1, !.t_prev = time]
<1>1. q \in Shape /\ ScanAssumption(q.scan)
  <2>1. q \in Queries
    BY QueryFacts
  <2> HIDE DEF q
  <2> QED  BY <2>1 DEF Queries
<1>2. ASSUME NEW type \in QueryTypes  PROVE as(type) \in Queries
  <2> HIDE DEF q
  <2>1. q.id + 1 \in Nat
    BY <1>1
  <2>2. as(type) \in Shape
    <3>1. as(type) = [q EXCEPT !.type = type, !.id = q.id + 1, !.t_prev = time]
      BY <1>1
    <3> DEFINE i == q.id + 1
    <3> HIDE DEF i
    <3>2. [q EXCEPT !.type = type, !.id = i, !.t_prev = time] \in Shape
      BY <1>1, <2>1 DEF i
    <3> QED  BY <3>1, <3>2 DEF i
  <2>3. as(type).scan = q.scan
    BY <1>1
  <2> HIDE DEF as
  <2> QED  BY <1>1, <2>2, <2>3 DEF Queries
<1>3. "capture" \in QueryTypes /\ "tracking" \in QueryTypes
  BY DEF QueryTypes
<1>4. QueriesTyped(<< as("capture") >>) /\ QueriesTyped(<< as("tracking") >>)
  <2>1. as("capture") \in Queries /\ as("tracking") \in Queries
    BY <1>2, <1>3
  <2> HIDE DEF as
  <2> QED  BY <2>1, OneTyped
<1>5. QueriesTyped(<< >>)
  BY DEF QueriesTyped
<1>6. FollowUp(q, time) \in {<< as("capture") >>, << as("tracking") >>, << >>}
  BY DEF FollowUp
<1> HIDE DEF as, q
<1>7. QueriesTyped(FollowUp(q, time))
  BY <1>4, <1>5, <1>6
<1> QED  BY <1>7 DEF q

EventsTyped ==
  \A t \in DOMAIN ev_queue :
    /\ t \in Nat
    /\ ev_queue[t] \in Seq([type : QueryTypes, id : Nat, scan : ScanPairs])
    /\ \A n \in DOMAIN ev_queue[t] : ScanAssumption(ev_queue[t][n].scan)

LEMMA CreatedTyped ==
  ASSUME EventsTyped, NEW t \in DOMAIN ev_queue
  PROVE  QueriesTyped(Created(t))
<1> DEFINE e == ev_queue[t]
           f == Created(t)
<1>1. t \in Nat /\ e \in Seq([type : QueryTypes, id : Nat, scan : ScanPairs])
      /\ \A n \in DOMAIN e : ScanAssumption(e[n].scan)
  BY DEF EventsTyped
<1>2. f = [n \in DOMAIN e |-> [type |-> e[n].type, id |-> e[n].id, t_prev |-> t, scan |-> e[n].scan]]
  BY DEF Created
<1> HIDE DEF e, f
<1>3. DOMAIN e = 1 .. Len(e) /\ Len(e) \in Nat
      /\ \A n \in DOMAIN e : e[n] \in [type : QueryTypes, id : Nat, scan : ScanPairs]
  <2> DEFINE Made == [type : QueryTypes, id : Nat, scan : ScanPairs]
  <2>1. e \in Seq(Made)
    BY <1>1
  <2> HIDE DEF Made
  <2>2. DOMAIN e = 1 .. Len(e) /\ Len(e) \in Nat /\ \A n \in DOMAIN e : e[n] \in Made
    BY <2>1
  <2> QED  BY <2>2 DEF Made
<1>4. ASSUME NEW n \in 1 .. Len(e)  PROVE f[n] \in Queries
  <2>1. f[n] = [type |-> e[n].type, id |-> e[n].id, t_prev |-> t, scan |-> e[n].scan]
    BY <1>2, <1>3
  <2>2. f[n] \in [type : QueryTypes, id : Nat, t_prev : Nat, scan : ScanPairs] /\ f[n].scan = e[n].scan
    BY <1>1, <1>3, <2>1
  <2> QED  BY <1>1, <1>3, <2>2 DEF Queries
<1>5. f = [n \in 1 .. Len(e) |-> f[n]]
  BY <1>2, <1>3
<1>6. f \in Seq(Queries)
  BY <1>3, <1>4, <1>5, FunctionIsSeq
<1> QED  BY <1>6 DEF f, QueriesTyped

-----------------------------------------------------------------------------
(* The inductive invariant *)

\* The commands of the program.
CommandTypes == {"transmit", "tr_rephase", "protect", "rs_rephase", "receive", "tech"}
Commands == [type : CommandTypes, ref : Int, exec : Nat, len : Nat, id : Nat]

\* Types; the present is on a discrete.
TypeOK ==
  /\ model_time \in Nat /\ Base(model_time) \in Nat /\ model_time = Base(model_time) * time_chunk_length
  /\ stage \in {"events", "plan", "execute", "stopped"}
  /\ QueriesTyped(queries) /\ QueriesTyped(new_queries)
  /\ turn \in Nat \ {0}
  /\ AllCommands \subseteq Commands
  /\ Labelled(dcu_timeline) /\ Labelled(tr_au_timeline) /\ Labelled(rs_au_timeline)
  /\ EventsTyped

\* Outside of a run nothing is planned that is not in the queue.
NothingKeptBack == stage # "plan" => ret = {}

\* CommandsOnTime, and that in every stage.
OnTime ==
  /\ \A c \in ret : c.exec >= model_time /\ (c.type # "tech" => c.ref >= model_time)
  /\ \A c \in command_queue : c.exec >= model_time
  /\ \A c \in execed_commands : c.exec \in model_time - TimeStep .. model_time - 1

\* A transmission starts a rephasing after the start of a discrete, is takes at least
\* a discrete.
OnDiscretes(c) ==
  /\ Base(c.exec - phase_delay) \in Nat
  /\ c.exec = Base(c.exec - phase_delay) * time_chunk_length + phase_delay
  /\ c.len >= time_chunk_length

\* TransmissionsReserved, for the executed transmissions of the last step as well: one
\* may go on when the next scan is placed.
Reserved(c) ==
  \A i \in TakenBy(c) : i >= Base(model_time) => i \in DOMAIN dcu_timeline

Transmissions ==
  \A c \in OfType(AllCommands, "transmit") : OnDiscretes(c) /\ Reserved(c)

\* The command planned with c that prepares it: neither is executed without the other
\* being remembered, since a step is longer than a rephasing.
Companion(c, type, delay) ==
  \E p \in AllCommands : p.type = type /\ p.id = c.id /\ p.exec = c.exec - delay

Accompanied ==
  \A c \in Planned :
    /\ c.type = "receive" => Companion(c, "protect", channel_switch_delay) /\ Companion(c, "rs_rephase", phase_delay)
    /\ c.type = "transmit" => Companion(c, "tr_rephase", phase_delay)

\* How long before its execution a command is sent.
SentBefore(c) ==
  /\ c.type = "receive" => c.exec - c.ref = reserve_time
  /\ c.type = "transmit" => c.exec - c.ref = reserve_time + blank_delay + frequency_delay

SentInAdvance == \A c \in AllCommands : SentBefore(c)

\* What the validation said of the plan that is executed.
Judged == stage = "execute" => valid_state = validate(command_queue, execed_commands)

RadarInv ==
  /\ TypeOK /\ NothingKeptBack /\ OnTime /\ Transmissions /\ TransmitsSpaced /\ Accompanied
  /\ SentInAdvance /\ Judged

-----------------------------------------------------------------------------
(* Finding a place and labelling it (find_index, place_scan) *)

\* find_index gives an index that fits, inside the planning depth.
LEMMA FoundPlace ==
  ASSUME NEW s, ScanAssumption(s), NEW base \in Nat, find_index(s, base) # -1
  PROVE  /\ find_index(s, base) \in Nat
         /\ find_index(s, base) + Discretes(transmit_len(s)) <= depth(s) - 1
         /\ Fits(s, base, find_index(s, base))
<1> DEFINE range == Discretes(phase_delay) .. depth(s) - 1 - Discretes(transmit_len(s))
           Free == {j \in range : Fits(s, base, j)}
           place == CHOOSE idx \in range : Fits(s, base, idx) /\ \A j \in range : j < idx => ~Fits(s, base, j)
<1>1. Discretes(phase_delay) \in Nat /\ Discretes(transmit_len(s)) \in Nat /\ depth(s) \in Nat
  <2>1. phase_delay \in Nat /\ transmit_len(s) \in Nat /\ depth(s) \in Nat
    BY ScanTyped, SettledHolds DEF Settled
  <2> QED  BY <2>1, DiscretesCover
<1>2. find_index(s, base) = IF \E idx \in range : Fits(s, base, idx) THEN place ELSE -1
  BY DEF find_index
<1> HIDE DEF place
<1>3. Free # {} /\ Free \in SUBSET Nat
  <2>1. range \in SUBSET Nat
    BY <1>1
  <2> HIDE DEF range
  <2> QED  BY <1>2, <2>1
<1>4. PICK x \in Free : \A y \in Free : x <= y
  <2> HIDE DEF Free
  <2> QED  BY <1>3, LeastOf
<1>5. \E idx \in range : Fits(s, base, idx) /\ \A j \in range : j < idx => ~Fits(s, base, j)
  <2>1. x \in range /\ Fits(s, base, x)
    BY <1>4
  <2>2. ASSUME NEW j \in range, j < x  PROVE ~Fits(s, base, j)
    <3>1. j \in Int /\ x \in Int
      BY <1>1, <2>1
    <3>2. j \notin Free
      <4> HIDE DEF Free
      <4> QED  BY <1>4, <2>2, <3>1
    <3> QED  BY <3>2
  <2> HIDE DEF range
  <2> QED  BY <2>1, <2>2
<1>6. place \in range /\ Fits(s, base, place)
  <2> HIDE DEF range
  <2> QED  BY <1>5 DEF place
<1>7. find_index(s, base) = place
  BY <1>2, <1>5
<1> QED  BY <1>1, <1>6, <1>7

LEMMA AntennaSectors ==
  ASSUME NEW s, ScanAssumption(s), NEW T \in Int
  PROVE  SectorSeq(tr_au_sectors(T)) /\ SectorSeq(rs_au_sectors(T, s))
<1>1. "tll_au_rephase" \in Labels /\ "tll_au_command_delay" \in Labels
  BY DEF Labels
<1>2. /\ T - phase_delay \in Int /\ T + au_command_delay - phase_delay \in Int
      /\ T + range_offset_len(s) \in Int /\ T + range_offset_len(s) + phase_delay \in Int
      /\ T + range_offset_len(s) + au_command_delay \in Int
  BY SettledHolds, ScanTyped DEF Settled
<1> DEFINE x1 == Sector(T - phase_delay, T, "tll_au_rephase")
           x2 == Sector(T, T + au_command_delay - phase_delay, "tll_au_command_delay")
           y1 == Sector(T + range_offset_len(s), T + range_offset_len(s) + phase_delay, "tll_au_rephase")
           y2 == Sector(T + range_offset_len(s) + phase_delay, T + range_offset_len(s) + au_command_delay,
                        "tll_au_command_delay")
<1>3. x1 \in Sectors /\ x2 \in Sectors
  BY <1>1, <1>2, SectorType
<1>4. y1 \in Sectors /\ y2 \in Sectors
  BY <1>1, <1>2, SectorType
<1>5. tr_au_sectors(T) = << x1, x2 >> /\ rs_au_sectors(T, s) = << y1, y2 >>
  BY DEF tr_au_sectors, rs_au_sectors
<1> HIDE DEF x1, x2, y1, y2
<1> QED  BY <1>3, <1>4, <1>5 DEF SectorSeq

\* Once a scan is placed, every discrete its transmission takes is labelled.
LEMMA LabelScanFacts ==
  ASSUME Labelled(dcu_timeline), Labelled(tr_au_timeline), Labelled(rs_au_timeline),
         NEW s, ScanAssumption(s), NEW time \in Nat, Base(time) \in Nat, NEW idx \in Nat,
         idx + Discretes(transmit_len(s)) <= depth(s) - 1, LabelScan(s, time, idx)
  PROVE  /\ Labelled(dcu_timeline') /\ Labelled(tr_au_timeline') /\ Labelled(rs_au_timeline')
         /\ DOMAIN dcu_timeline \subseteq DOMAIN dcu_timeline'
         /\ \A i \in Base(time) + idx + 1 .. Base(time) + idx + transmit_len(s) \div time_chunk_length :
              i \in DOMAIN dcu_timeline'
<1> DEFINE T == idx * time_chunk_length
           base == Base(time)
<1>1. T \in Int /\ base \in Nat
  BY SettledHolds DEF Settled
<1>2. /\ dcu_timeline' = LabelSectors(dcu_timeline, base, dcu_sectors(T, s))
      /\ tr_au_timeline' = LabelSectors(tr_au_timeline, base, tr_au_sectors(T))
      /\ rs_au_timeline' = LabelSectors(rs_au_timeline, base, rs_au_sectors(T, s))
  BY DEF LabelScan
<1>3. \A i \in base + idx + 1 .. base + idx + transmit_len(s) \div time_chunk_length :
        \E x : Among(x, dcu_sectors(T, s)) /\ Covers(x, base, i)
  BY TransmissionLabelled
<1> HIDE DEF T, base
<1>4. SectorSeq(dcu_sectors(T, s)) /\ SectorSeq(tr_au_sectors(T)) /\ SectorSeq(rs_au_sectors(T, s))
  BY <1>1, ConverterSectors, AntennaSectors
<1>5. /\ Labelled(dcu_timeline') /\ DOMAIN dcu_timeline \subseteq DOMAIN dcu_timeline'
      /\ \A i \in Int, n \in DOMAIN dcu_sectors(T, s) :
           Covers(dcu_sectors(T, s)[n], base, i) => i \in DOMAIN dcu_timeline'
  <2> DEFINE sectors == dcu_sectors(T, s)
             new == LabelSectors(dcu_timeline, base, sectors)
  <2>1. sectors \in Seq(Sectors) /\ base \in Int /\ dcu_timeline' = new
    BY <1>1, <1>2, <1>4 DEF SectorSeq
  <2> HIDE DEF sectors
  <2>2. /\ Labelled(new) /\ DOMAIN dcu_timeline \subseteq DOMAIN new
        /\ \A i \in Int, n \in DOMAIN sectors : Covers(sectors[n], base, i) => i \in DOMAIN new
    BY <2>1, LabelSectorsFacts
  <2> HIDE DEF new
  <2> QED  BY <2>1, <2>2 DEF sectors
<1>6. Labelled(tr_au_timeline')
  BY <1>1, <1>2, <1>4, LabelSectorsFacts DEF SectorSeq
<1>7. Labelled(rs_au_timeline')
  BY <1>1, <1>2, <1>4, LabelSectorsFacts DEF SectorSeq
<1>8. \A i \in base + idx + 1 .. base + idx + transmit_len(s) \div time_chunk_length :
        i \in DOMAIN dcu_timeline'
  <2> SUFFICES ASSUME NEW i \in base + idx + 1 .. base + idx + transmit_len(s) \div time_chunk_length
               PROVE  i \in DOMAIN dcu_timeline'
    OBVIOUS
  <2>1. PICK x : Among(x, dcu_sectors(T, s)) /\ Covers(x, base, i)
    BY <1>3
  <2>2. PICK n \in DOMAIN dcu_sectors(T, s) : dcu_sectors(T, s)[n] = x
    BY <2>1 DEF Among
  <2>3. i \in Int
    BY <1>1
  <2> QED  BY <1>5, <2>1, <2>2, <2>3
<1> QED  BY <1>5, <1>6, <1>7, <1>8 DEF base

-----------------------------------------------------------------------------
(* The commands of a scan *)

\* The commands of a scan, as far as the invariants are about them.
PlanOf(S, s, b) ==
  /\ S \subseteq Commands
  /\ \A c \in S : c.type # "tech" /\ c.exec >= b * time_chunk_length /\ c.ref >= b * time_chunk_length
  /\ \A c \in S : SentBefore(c)
  /\ \A c \in S : c.type = "transmit" =>
       c.exec = b * time_chunk_length + phase_delay /\ c.len = transmit_len(s)
  /\ \A c, d \in S : c.type = "transmit" /\ d.type = "transmit" => c = d
  /\ \A c \in S :
       /\ c.type = "receive" =>
            /\ \E p \in S : p.type = "protect" /\ p.id = c.id /\ p.exec = c.exec - channel_switch_delay
            /\ \E p \in S : p.type = "rs_rephase" /\ p.id = c.id /\ p.exec = c.exec - phase_delay
       /\ c.type = "transmit" =>
            \E p \in S : p.type = "tr_rephase" /\ p.id = c.id /\ p.exec = c.exec - phase_delay

\* The five commands of a scan are those.
LEMMA ScanCommands ==
  ASSUME NEW s, ScanAssumption(s), RangeCorrect(s), NEW id \in Nat, NEW b \in Nat
  PROVE  PlanOf(scan_commands(s, id, b * time_chunk_length), s, b)
<1> DEFINE rephase == b * time_chunk_length
           transmit == rephase + phase_delay
           receive == transmit + range_offset_len(s) + reserve_time + phase_delay
           protect == receive - channel_switch_delay
           c1 == Command("transmit", transmit - reserve_time - blank_delay - frequency_delay, transmit,
                         transmit_len(s), id)
           c2 == Command("tr_rephase", rephase, rephase, phase_delay, id)
           c3 == Command("protect", protect, protect, channel_switch_delay, id)
           c4 == Command("rs_rephase", receive - phase_delay, receive - phase_delay, phase_delay, id)
           c5 == Command("receive", receive - reserve_time, receive, receive_len(s), id)
           S == scan_commands(s, id, rephase)
<1>0. /\ Settled /\ blank_delay + frequency_delay + reserve_time <= phase_delay
      /\ channel_switch_delay <= phase_delay
  BY SettledHolds, SettingsAssumption DEF SettingsAssumption
<1>1. transmit_len(s) \in Nat /\ receive_len(s) \in Nat /\ range_offset_len(s) \in Nat
  <2>1. transmit_len(s) \in Nat /\ range_offset_len(s) \in Nat
    BY ScanTyped DEF RangeCorrect
  <2>2. receive_len(s) \in Nat
    <3> DEFINE sum == (IF s.size = 1 THEN s.length ELSE s.period * s.size) + reserve_time
    <3>1. sum \in Nat
      <4>1. s.size \in Nat /\ s.length \in Nat /\ s.period \in Nat
        BY ScanTyped
      <4>2. s.period * s.size \in Nat
        BY <4>1
      <4> QED  BY <1>0, <4>1, <4>2 DEF Settled
    <3>2. receive_len(s) = multiples_of(sum, frequency_factor)
      BY DEF receive_len
    <3> HIDE DEF sum
    <3> QED  BY <3>1, <3>2, RoundedUp
  <2> QED  BY <2>1, <2>2
<1>2. rephase \in Nat
  BY <1>0 DEF Settled
<1>3. S = {c1, c2, c3, c4, c5}
  BY DEF scan_commands, transmit_exec_time, receive_exec_time
<1> HIDE DEF rephase, S
<1>4. /\ transmit \in Nat /\ receive \in Nat /\ protect \in Nat /\ receive - phase_delay \in Nat
      /\ transmit - reserve_time - blank_delay - frequency_delay \in Nat /\ receive - reserve_time \in Nat
      /\ transmit >= rephase /\ receive >= rephase /\ protect >= rephase /\ receive - phase_delay >= rephase
      /\ transmit - reserve_time - blank_delay - frequency_delay >= rephase
      /\ receive - reserve_time >= rephase
  BY <1>0, <1>1, <1>2 DEF Settled
<1>5. phase_delay \in Nat /\ channel_switch_delay \in Nat
  BY <1>0 DEF Settled
<1>6. protect = receive - channel_switch_delay /\ transmit = rephase + phase_delay /\ rephase = transmit - phase_delay
  BY <1>2, <1>5
<1> HIDE DEF transmit, receive, protect
<1>7. c1 \in Commands /\ c2 \in Commands /\ c3 \in Commands /\ c4 \in Commands /\ c5 \in Commands
  BY <1>1, <1>2, <1>4, <1>5 DEF Commands, CommandTypes, Command
<1>8. /\ c1.type = "transmit" /\ c1.exec = transmit /\ c1.len = transmit_len(s) /\ c1.id = id
      /\ c1.ref = transmit - reserve_time - blank_delay - frequency_delay
      /\ c2.type = "tr_rephase" /\ c2.exec = rephase /\ c2.ref = rephase /\ c2.id = id
      /\ c3.type = "protect" /\ c3.exec = protect /\ c3.ref = protect /\ c3.id = id
      /\ c4.type = "rs_rephase" /\ c4.exec = receive - phase_delay /\ c4.ref = receive - phase_delay /\ c4.id = id
      /\ c5.type = "receive" /\ c5.exec = receive /\ c5.ref = receive - reserve_time /\ c5.id = id
  BY DEF Command
<1> HIDE DEF c1, c2, c3, c4, c5
<1>9. S \subseteq Commands
  BY <1>3, <1>7
<1>10. \A c \in S : c.type # "tech" /\ c.exec >= rephase /\ c.ref >= rephase
  BY <1>2, <1>3, <1>4, <1>8
<1>11. \A c \in S : c.type = "transmit" => c = c1
  BY <1>3, <1>8
<1>12. \A c \in S : c.type = "receive" => c = c5
  BY <1>3, <1>8
<1>13. c2 \in S /\ c3 \in S /\ c4 \in S
  BY <1>3
<1>14. \A c \in S : c.type = "transmit" => c.exec = rephase + phase_delay /\ c.len = transmit_len(s)
  BY <1>6, <1>8, <1>11
<1>15. \A c, d \in S : c.type = "transmit" /\ d.type = "transmit" => c = d
  BY <1>11
<1>16. \A c \in S : c.type = "receive" =>
         /\ \E p \in S : p.type = "protect" /\ p.id = c.id /\ p.exec = c.exec - channel_switch_delay
         /\ \E p \in S : p.type = "rs_rephase" /\ p.id = c.id /\ p.exec = c.exec - phase_delay
  BY <1>6, <1>8, <1>12, <1>13
<1>17. \A c \in S : c.type = "transmit" =>
         \E p \in S : p.type = "tr_rephase" /\ p.id = c.id /\ p.exec = c.exec - phase_delay
  BY <1>6, <1>8, <1>11, <1>13
<1>18. \A c \in S : SentBefore(c)
  <2>1. c5.exec - c5.ref = reserve_time
    BY <1>0, <1>4, <1>8 DEF Settled
  <2>2. c1.exec - c1.ref = reserve_time + blank_delay + frequency_delay
    BY <1>0, <1>4, <1>8 DEF Settled
  <2> QED  BY <1>11, <1>12, <2>1, <2>2 DEF SentBefore
<1> QED  BY <1>18, <1>9, <1>10, <1>14, <1>15, <1>16, <1>17 DEF PlanOf, rephase, S

\* A place of the converter found for a scan, and what planning it there plans.
Placed(s, b, S) ==
  /\ ScanAssumption(s)
  /\ b \in Nat /\ b >= Base(model_time)
  /\ \A i \in b .. b + Discretes(transmit_len(s)) : i \notin DOMAIN dcu_timeline
  /\ \A i \in b + 1 .. b + transmit_len(s) \div time_chunk_length : i \in DOMAIN dcu_timeline'
  /\ DOMAIN dcu_timeline \subseteq DOMAIN dcu_timeline'
  /\ ret' = ret \cup S
  /\ PlanOf(S, s, b)

LEMMA NoPlan == ASSUME NEW s, NEW b  PROVE PlanOf({}, s, b)
BY DEF PlanOf

\* Serving a scan finds a place for it and plans its commands there, or nothing.
LEMMA ScanServed ==
  ASSUME TypeOK, ServeScan(model_time)
  PROVE  /\ QueriesTyped(queries') /\ QueriesTyped(new_queries') /\ turn' \in Nat \ {0}
         /\ Labelled(dcu_timeline') /\ Labelled(tr_au_timeline') /\ Labelled(rs_au_timeline')
         /\ \E s, b, S : Placed(s, b, S)
<1> DEFINE q == queries[turn]
           s == q.scan
           B == Base(model_time)
           idx == find_index(s, B)
           b == B + idx
           L == time_chunk_length
<1>0. /\ model_time \in Nat /\ B \in Nat /\ model_time = B * L /\ turn \in Nat \ {0} /\ L \in Nat
      /\ QueriesTyped(queries) /\ QueriesTyped(new_queries)
      /\ Labelled(dcu_timeline) /\ Labelled(tr_au_timeline) /\ Labelled(rs_au_timeline)
  BY SettledHolds DEF TypeOK, Settled
<1>1. /\ turn <= Len(queries) /\ idx # -1 /\ LabelScan(s, model_time, idx) /\ turn' = turn + 1
      /\ IF RangeCorrect(s)
         THEN /\ ret' = ret \cup scan_commands(s, q.id, model_time + idx * L)
              /\ queries' = [queries EXCEPT ![turn].t_prev = model_time]
              /\ new_queries' = new_queries \o FollowUp(q, model_time)
         ELSE UNCHANGED <<queries, ret, removed_id, new_queries>>
  BY DEF ServeScan
<1>2. turn \in DOMAIN queries
  BY <1>0, <1>1 DEF QueriesTyped
<1>3. q.id \in Nat /\ ScanAssumption(s)
  BY <1>0, <1>2, QueryFacts
<1>4. QueriesTyped(queries') /\ QueriesTyped(new_queries')
  <2>1. CASE RangeCorrect(s)
    <3>1. QueriesTyped([queries EXCEPT ![turn].t_prev = model_time])
      BY <1>0, <1>2, ServedTyped
    <3>2. QueriesTyped(FollowUp(q, model_time))
      BY <1>0, <1>2, FollowUpTyped
    <3>3. QueriesTyped(new_queries \o FollowUp(q, model_time))
      BY <1>0, <3>2, ConcatTyped
    <3>4. /\ queries' = [queries EXCEPT ![turn].t_prev = model_time]
          /\ new_queries' = new_queries \o FollowUp(q, model_time)
      BY <1>1, <2>1
    <3> QED  BY <3>1, <3>3, <3>4
  <2>2. CASE ~RangeCorrect(s)
    BY <1>0, <1>1, <2>2
  <2> QED  BY <2>1, <2>2
<1> HIDE DEF s
<1>5. idx \in Nat /\ idx + Discretes(transmit_len(s)) <= depth(s) - 1 /\ Fits(s, B, idx)
  BY <1>0, <1>1, <1>3, FoundPlace
<1> HIDE DEF idx
<1>6. /\ Labelled(dcu_timeline') /\ Labelled(tr_au_timeline') /\ Labelled(rs_au_timeline')
      /\ DOMAIN dcu_timeline \subseteq DOMAIN dcu_timeline'
      /\ \A i \in b + 1 .. b + transmit_len(s) \div time_chunk_length :
           i \in DOMAIN dcu_timeline'
  BY <1>0, <1>1, <1>3, <1>5, LabelScanFacts
<1> HIDE DEF B
<1>7. b \in Nat /\ b >= B
  BY <1>0, <1>5
<1>8. \A i \in b .. b + Discretes(transmit_len(s)) : i \notin DOMAIN dcu_timeline
  <2>1. transmit_len(s) \in Nat
    BY <1>3, ScanTyped
  <2>2. Discretes(transmit_len(s)) \in Nat
    BY <2>1, DiscretesCover
  <2> SUFFICES ASSUME NEW i \in b .. b + Discretes(transmit_len(s))  PROVE i \notin DOMAIN dcu_timeline
    OBVIOUS
  <2>3. i - B \in idx .. idx + Discretes(transmit_len(s)) /\ B + (i - B) = i
    BY <1>0, <1>5, <2>2
  <2>4. get_value_at(dcu_timeline, B, i - B) = "tll_empty"
    BY <1>5, <2>3 DEF Fits
  <2>5. B + (i - B) \notin DOMAIN dcu_timeline
    BY <1>0, <2>4, EmptyIsUnlabelled
  <2> QED  BY <2>3, <2>5
<1>9. model_time + idx * L = b * L
  BY <1>0, <1>5, Distribute
<1>10. \E S : ret' = ret \cup S /\ PlanOf(S, s, b)
  <2>1. CASE RangeCorrect(s)
    <3>1. ret' = ret \cup scan_commands(s, q.id, b * L)
      BY <1>1, <1>9, <2>1
    <3>2. PlanOf(scan_commands(s, q.id, b * L), s, b)
      BY <1>3, <1>7, <2>1, ScanCommands
    <3> QED  BY <3>1, <3>2
  <2>2. CASE ~RangeCorrect(s)
    <3>1. ret' = ret \cup {}
      BY <1>1, <2>2
    <3>2. PlanOf({}, s, b)
      BY NoPlan
    <3> QED  BY <3>1, <3>2
  <2> QED  BY <2>1, <2>2
<1>11. PICK S : ret' = ret \cup S /\ PlanOf(S, s, b)
  BY <1>10
<1>12. Placed(s, b, S)
  <2> HIDE DEF b
  <2> QED  BY <1>3, <1>6, <1>7, <1>8, <1>11 DEF Placed, B
<1>13. turn' \in Nat \ {0}
  BY <1>0, <1>1
<1> QED  BY <1>4, <1>6, <1>12, <1>13

-----------------------------------------------------------------------------
(* What planning a scan keeps *)

\* A transmission planned before and one whose place was found free.
LEMMA PlacesApart ==
  ASSUME TypeOK, OnTime, NEW c \in AllCommands, c.type = "transmit", OnDiscretes(c), Reserved(c),
         NEW s, NEW b, NEW S, Placed(s, b, S), NEW d \in S, d.type = "transmit"
  PROVE  c.exec + c.len <= d.exec \/ d.exec + d.len <= c.exec
<1> DEFINE L == time_chunk_length
           B == Base(model_time)
           a == Base(c.exec - phase_delay)
           n == c.len \div L
           m == Discretes(transmit_len(s))
<1>0. /\ L \in Nat /\ L > 0 /\ frequency_delay \in Nat /\ phase_delay \in Nat
      /\ model_time \in Nat /\ B \in Nat /\ model_time = B * L
      /\ c.exec \in Nat /\ c.len \in Nat
  <2>1. c \in Commands
    BY DEF TypeOK
  <2> QED  BY <2>1, SettledHolds DEF Settled, TypeOK, Commands
<1>1. /\ ScanAssumption(s) /\ b \in Nat /\ b >= B
      /\ \A i \in b .. b + m : i \notin DOMAIN dcu_timeline
      /\ d.exec = b * L + phase_delay /\ d.len = transmit_len(s)
  BY DEF Placed, PlanOf
<1>2. transmit_len(s) \in Nat
  BY <1>1, ScanTyped
<1>3. m \in Nat /\ L * m >= transmit_len(s)
  BY <1>2, DiscretesCover
<1>4. Discretes(c.len) \in Nat /\ L * Discretes(c.len) >= c.len
  BY <1>0, DiscretesCover
<1>5. a \in Nat /\ c.exec = a * L + phase_delay /\ c.len >= L
  BY DEF OnDiscretes
<1>10. Discretes(c.len) <= n + 1
  BY <1>0, DiscretesAtMost
<1>6. n \in Nat /\ n >= 1
  <2>1. c.len \in Int /\ L <= c.len
    <3>1. c.len >= L
      BY <1>5
    <3> QED  BY <1>0, <3>1
  <2>2. L \div L <= n
    BY <1>0, <2>1, DivMonotone
  <2>3. (1 * L) \div L = 1
    BY <1>0, DivExact
  <2>4. L = 1 * L
    BY <1>0
  <2>5. n \in Int
    BY <1>0, <2>1, DivFacts
  <2> QED  BY <2>2, <2>3, <2>4, <2>5
<1>7. \A i \in a + 1 .. a + n : i >= B => i \in DOMAIN dcu_timeline
  BY DEF Reserved, TakenBy
<1> HIDE DEF B, a, n, m
<1>8. CASE b <= a
  <2>1. a + 1 \in a + 1 .. a + n /\ a + 1 >= B
    BY <1>0, <1>1, <1>5, <1>6, <1>8
  <2>2. a + 1 \in DOMAIN dcu_timeline
    BY <1>7, <2>1
  <2>3. a + 1 \notin b .. b + m
    BY <1>1, <2>2
  <2>4. b + m <= a
    BY <1>1, <1>3, <1>5, <1>8, <2>3
  <2>5. (b + m) * L <= a * L
    BY <1>0, <1>1, <1>3, <1>5, <2>4, TimesMonotone
  <2>6. (b + m) * L = b * L + m * L /\ m * L = L * m /\ b * L \in Int /\ m * L \in Int /\ a * L \in Int
    BY <1>0, <1>1, <1>3, <1>5, Distribute
  <2>7. d.exec + d.len <= c.exec
    BY <1>0, <1>1, <1>2, <1>3, <1>5, <2>5, <2>6
  <2> QED  BY <2>7
<1>9. CASE b > a
  <2>1. b \notin DOMAIN dcu_timeline
    <3>1. b \in b .. b + m
      BY <1>1, <1>3
    <3> QED  BY <1>1, <3>1
  <2>2. b >= a + n + 1
    <3>1. b \notin a + 1 .. a + n
      BY <1>1, <1>7, <2>1
    <3> QED  BY <1>1, <1>5, <1>6, <1>9, <3>1
  <2>3. a + Discretes(c.len) <= b
    BY <1>1, <1>4, <1>5, <1>6, <1>10, <2>2
  <2>4. (a + Discretes(c.len)) * L <= b * L
    BY <1>0, <1>1, <1>4, <1>5, <2>3, TimesMonotone
  <2>5. /\ (a + Discretes(c.len)) * L = a * L + Discretes(c.len) * L
        /\ Discretes(c.len) * L = L * Discretes(c.len)
        /\ a * L \in Int /\ Discretes(c.len) * L \in Int /\ b * L \in Int
    BY <1>0, <1>1, <1>4, <1>5, Distribute
  <2>6. c.exec + c.len <= d.exec
    BY <1>0, <1>1, <1>4, <1>5, <2>4, <2>5
  <2> QED  BY <2>6
<1> QED  BY <1>1, <1>5, <1>8, <1>9

\* What a scan plans: the invariants about commands.
LEMMA PlacedKeeps ==
  ASSUME RadarInv, stage = "plan", NEW s, NEW b, NEW S, Placed(s, b, S), UNCHANGED <<commandVars, engineVars>>
  PROVE  /\ AllCommands' \subseteq Commands /\ NothingKeptBack' /\ OnTime' /\ Transmissions'
         /\ TransmitsSpaced' /\ Accompanied' /\ SentInAdvance'
<1> DEFINE L == time_chunk_length
           B == Base(model_time)
<1>0. /\ L \in Nat /\ L > 0 /\ phase_delay \in Nat /\ frequency_delay \in Nat
      /\ model_time \in Nat /\ B \in Nat /\ model_time = B * L
      /\ AllCommands \subseteq Commands /\ TypeOK /\ OnTime
  BY SettledHolds DEF Settled, RadarInv, TypeOK
<1>1. /\ model_time' = model_time /\ stage' = stage /\ command_queue' = command_queue
      /\ execed_commands' = execed_commands
  BY DEF commandVars, engineVars
<1>2. ret' = ret \cup S
  BY DEF Placed
<1>3. /\ ScanAssumption(s) /\ b \in Nat /\ b >= B /\ S \subseteq Commands
      /\ \A c \in S : c.type # "tech" /\ c.exec >= b * L /\ c.ref >= b * L
      /\ \A c \in S : c.type = "transmit" => c.exec = b * L + phase_delay /\ c.len = transmit_len(s)
      /\ \A c, d \in S : c.type = "transmit" /\ d.type = "transmit" => c = d
  BY DEF Placed, PlanOf
<1>4. Planned' = Planned \cup S /\ AllCommands' = AllCommands \cup S
  BY <1>1, <1>2 DEF Planned, AllCommands
<1>5. AllCommands' \subseteq Commands
  BY <1>0, <1>3, <1>4
<1>6. NothingKeptBack'
  BY <1>1 DEF NothingKeptBack
<1>7. \A c \in S : c.exec \in Nat /\ c.len \in Nat /\ c.ref \in Int
  BY <1>3 DEF Commands
<1>8. OnTime'
  <2>1. b * L >= model_time /\ b * L \in Nat
    BY <1>0, <1>3, TimesMonotone
  <2>2. \A c \in S : c.exec >= model_time /\ c.ref >= model_time
    BY <1>0, <1>3, <1>7, <2>1
  <2> QED  BY <1>1, <1>2, <2>2 DEF OnTime, RadarInv
<1>9. ASSUME NEW d \in S, d.type = "transmit"  PROVE (OnDiscretes(d) /\ Reserved(d))'
  <2>1. d.exec - phase_delay = b * L /\ Base(d.exec - phase_delay) = b
    <3>1. d.exec - phase_delay = b * L
      BY <1>0, <1>3, <1>9
    <3>2. (b * L) \div L = b
      BY <1>0, <1>3, DivExact
    <3> QED  BY <3>1, <3>2 DEF Base
  <2>2. d.len >= L
    BY <1>3, <1>9, TransmissionTimes
  <2>4. OnDiscretes(d)
    BY <1>3, <1>9, <2>1, <2>2 DEF OnDiscretes
  <2>5. Reserved(d)'
    <3>1. TakenBy(d) = b + 1 .. b + transmit_len(s) \div L
      BY <1>3, <1>9, <2>1 DEF TakenBy
    <3>2. TakenBy(d)' = TakenBy(d)
      BY DEF TakenBy, Base
    <3> QED  BY <3>1, <3>2 DEF Reserved, Placed
  <2> QED  BY <2>4, <2>5 DEF OnDiscretes, Base, Discretes
<1>10. ASSUME NEW c \in AllCommands, c.type = "transmit"  PROVE (OnDiscretes(c) /\ Reserved(c))'
  <2>1. OnDiscretes(c) /\ Reserved(c)
    BY <1>10 DEF RadarInv, Transmissions, OfType
  <2>2. OnDiscretes(c)'
    BY <2>1 DEF OnDiscretes, Base, Discretes
  <2>3. Reserved(c)'
    <3>1. TakenBy(c)' = TakenBy(c) /\ Base(model_time)' = Base(model_time)
      BY <1>1 DEF TakenBy, Base
    <3>2. DOMAIN dcu_timeline \subseteq DOMAIN dcu_timeline'
      BY DEF Placed
    <3> QED  BY <2>1, <3>1, <3>2 DEF Reserved
  <2> QED  BY <2>2, <2>3
<1>11. Transmissions'
  BY <1>4, <1>9, <1>10 DEF Transmissions, OfType
<1>12. TransmitsSpaced'
  <2> SUFFICES ASSUME NEW c \in AllCommands', NEW d \in AllCommands', c.type = "transmit", d.type = "transmit",
                      c # d, c.exec <= d.exec
               PROVE  c.exec + c.len <= d.exec
    BY DEF TransmitsSpaced, OfType
  <2>1. c.exec \in Nat /\ d.exec \in Nat /\ c.len \in Nat /\ d.len \in Nat
    BY <1>5 DEF Commands
  <2>2. ASSUME NEW x \in AllCommands, x.type = "transmit", NEW y \in S, y.type = "transmit"
        PROVE  x.exec + x.len <= y.exec \/ y.exec + y.len <= x.exec
    <3>1. OnDiscretes(x) /\ Reserved(x)
      BY <2>2 DEF RadarInv, Transmissions, OfType
    <3> QED  BY <1>0, <2>2, <3>1, PlacesApart
  <2>3. c.len > 0 /\ d.len > 0
    <3>1. \A x \in AllCommands' : x.type = "transmit" => (OnDiscretes(x))'
      BY <1>4, <1>9, <1>10
    <3>2. c.len >= L /\ d.len >= L
      BY <3>1 DEF OnDiscretes
    <3> QED  BY <1>0, <2>1, <3>2
  <2>4. CASE c \in AllCommands /\ d \in AllCommands
    BY <2>4 DEF RadarInv, TransmitsSpaced, OfType
  <2>5. CASE c \in AllCommands /\ d \in S
    <3>1. c.exec + c.len <= d.exec \/ d.exec + d.len <= c.exec
      BY <2>2, <2>5
    <3> QED  BY <2>1, <2>3, <3>1
  <2>6. CASE c \in S /\ d \in AllCommands
    <3>1. d.exec + d.len <= c.exec \/ c.exec + c.len <= d.exec
      BY <2>2, <2>6
    <3> QED  BY <2>1, <2>3, <3>1
  <2>7. CASE c \in S /\ d \in S
    BY <1>3, <2>7
  <2> QED  BY <1>4, <2>4, <2>5, <2>6, <2>7
<1>13. Accompanied'
  <2>1. ASSUME NEW c, NEW type, NEW delay, Companion(c, type, delay)
        PROVE  Companion(c, type, delay)'
    BY <1>4, <2>1 DEF Companion
  <2>2. ASSUME NEW c \in Planned
        PROVE  /\ c.type = "receive" => Companion(c, "protect", channel_switch_delay)'
                                        /\ Companion(c, "rs_rephase", phase_delay)'
               /\ c.type = "transmit" => Companion(c, "tr_rephase", phase_delay)'
    BY <2>1 DEF RadarInv, Accompanied
  <2>3. ASSUME NEW c \in S
        PROVE  /\ c.type = "receive" => Companion(c, "protect", channel_switch_delay)'
                                        /\ Companion(c, "rs_rephase", phase_delay)'
               /\ c.type = "transmit" => Companion(c, "tr_rephase", phase_delay)'
    <3>1. PlanOf(S, s, b) /\ S \subseteq AllCommands'
      BY <1>4 DEF Placed
    <3> QED  BY <3>1 DEF PlanOf, Companion
  <2> QED  BY <1>4, <2>2, <2>3 DEF Accompanied
<1>14. SentInAdvance'
  <2>1. \A c \in S : SentBefore(c)
    BY DEF Placed, PlanOf
  <2>2. \A c \in AllCommands : SentBefore(c)
    BY DEF RadarInv, SentInAdvance
  <2>3. \A c : SentBefore(c)' <=> SentBefore(c)
    BY DEF SentBefore
  <2> QED  BY <1>4, <2>1, <2>2, <2>3 DEF SentInAdvance
<1> QED  BY <1>5, <1>6, <1>8, <1>11, <1>12, <1>13, <1>14

-----------------------------------------------------------------------------
(* The steps: one lemma for each action *)

\* A step that plans nothing that is transmitted or received.
LEMMA OthersKeep ==
  ASSUME RadarInv, NEW S \in SUBSET Commands, \A c \in S : c.type = "tech",
         Planned' = Planned \cup S, AllCommands' = AllCommands \cup S, model_time' = model_time,
         \A i \in DOMAIN dcu_timeline : i >= Base(model_time) => i \in DOMAIN dcu_timeline'
  PROVE  AllCommands' \subseteq Commands /\ Transmissions' /\ TransmitsSpaced' /\ Accompanied' /\ SentInAdvance'
<1>1. AllCommands' \subseteq Commands
  BY DEF RadarInv, TypeOK
<1>2. OfType(AllCommands, "transmit")' = OfType(AllCommands, "transmit")
  BY DEF OfType
<1>3. ASSUME NEW c \in OfType(AllCommands, "transmit")  PROVE (OnDiscretes(c) /\ Reserved(c))'
  <2>1. OnDiscretes(c) /\ Reserved(c)
    BY DEF RadarInv, Transmissions
  <2>2. OnDiscretes(c)' /\ TakenBy(c)' = TakenBy(c) /\ Base(model_time)' = Base(model_time)
    BY <2>1 DEF OnDiscretes, TakenBy, Base, Discretes
  <2> QED  BY <2>1, <2>2 DEF Reserved
<1>4. Transmissions'
  BY <1>2, <1>3 DEF Transmissions
<1>5. TransmitsSpaced'
  BY <1>2 DEF TransmitsSpaced, RadarInv
<1>6. Accompanied'
  <2>1. ASSUME NEW c, NEW type, NEW delay, Companion(c, type, delay)
        PROVE  Companion(c, type, delay)'
    BY <2>1 DEF Companion
  <2>2. ASSUME NEW c \in Planned
        PROVE  /\ c.type = "receive" => Companion(c, "protect", channel_switch_delay)'
                                        /\ Companion(c, "rs_rephase", phase_delay)'
               /\ c.type = "transmit" => Companion(c, "tr_rephase", phase_delay)'
    BY <2>1 DEF RadarInv, Accompanied
  <2> QED  BY <2>2 DEF Accompanied
<1>7. SentInAdvance'
  <2>1. \A c \in S : SentBefore(c)
    BY DEF SentBefore
  <2>2. \A c \in AllCommands : SentBefore(c)
    BY DEF RadarInv, SentInAdvance
  <2>3. \A c : SentBefore(c)' <=> SentBefore(c)
    BY DEF SentBefore
  <2> QED  BY <2>1, <2>2, <2>3 DEF SentInAdvance
<1> QED  BY <1>1, <1>4, <1>5, <1>6, <1>7

LEMMA NothingPlannedKeeps ==
  ASSUME RadarInv, Planned' = Planned, AllCommands' = AllCommands, model_time' = model_time,
         \A i \in DOMAIN dcu_timeline : i >= Base(model_time) => i \in DOMAIN dcu_timeline'
  PROVE  AllCommands' \subseteq Commands /\ Transmissions' /\ TransmitsSpaced' /\ Accompanied' /\ SentInAdvance'
<1> DEFINE S == {}
<1>1. S \in SUBSET Commands /\ (\A c \in S : c.type = "tech")
      /\ Planned' = Planned \cup S /\ AllCommands' = AllCommands \cup S
  OBVIOUS
<1> HIDE DEF S
<1> QED  BY <1>1, OthersKeep

\* An event adds its queries.
LEMMA EventsStep ==
  ASSUME RadarInv, ExecuteEvents
  PROVE  RadarInv'
<1>1. PICK t \in get_events(model_time) : queries' = queries \o Created(t)
  BY DEF ExecuteEvents
<1>2. /\ ev_queue' = [u \in DOMAIN ev_queue \ {model_time} |-> ev_queue[u]]
      /\ UNCHANGED <<timelines, turn, ret, removed_id, new_queries, commandVars, model_time, stage>>
  BY DEF ExecuteEvents
<1>3. QueriesTyped(queries')
  <2>1. t \in DOMAIN ev_queue
    BY DEF get_events
  <2>2. QueriesTyped(queries) /\ EventsTyped
    BY DEF RadarInv, TypeOK
  <2>3. QueriesTyped(Created(t))
    BY <2>1, <2>2, CreatedTyped
  <2> QED  BY <1>1, <2>2, <2>3, ConcatTyped
<1>4. EventsTyped'
  <2>1. EventsTyped
    BY DEF RadarInv, TypeOK
  <2>2. DOMAIN ev_queue' \subseteq DOMAIN ev_queue /\ \A u \in DOMAIN ev_queue' : ev_queue'[u] = ev_queue[u]
    BY <1>2
  <2>3. \A x : ScanAssumption(x)' <=> ScanAssumption(x)
    BY DEF ScanAssumption
  <2> QED  BY <2>1, <2>2, <2>3 DEF EventsTyped
<1>5. /\ ret' = ret /\ command_queue' = command_queue /\ execed_commands' = execed_commands
      /\ model_time' = model_time /\ stage' = stage /\ turn' = turn /\ new_queries' = new_queries
      /\ dcu_timeline' = dcu_timeline /\ tr_au_timeline' = tr_au_timeline /\ rs_au_timeline' = rs_au_timeline
  BY <1>2 DEF timelines, commandVars
<1>6. Planned' = Planned /\ AllCommands' = AllCommands
  BY <1>5 DEF Planned, AllCommands
<1>7. AllCommands' \subseteq Commands /\ Transmissions' /\ TransmitsSpaced' /\ Accompanied' /\ SentInAdvance'
  BY <1>5, <1>6, NothingPlannedKeeps
<1>8. TypeOK'
  BY <1>3, <1>4, <1>5, <1>7 DEF TypeOK, RadarInv, Base
<1>9. OnTime' /\ NothingKeptBack'
  BY <1>5 DEF OnTime, NothingKeptBack, RadarInv, TimeStep
<1>10. Judged'
  BY <1>5 DEF ExecuteEvents, Judged
<1> QED  BY <1>7, <1>8, <1>9, <1>10 DEF RadarInv

LEMMA SameEvents ==
  ASSUME EventsTyped, ev_queue' = ev_queue  PROVE EventsTyped'
<1>1. \A x : ScanAssumption(x)' <=> ScanAssumption(x)
  BY DEF ScanAssumption
<1> QED  BY <1>1 DEF EventsTyped

\* A run starts: the past is given up, the queries are sorted.
LEMMA StartStep ==
  ASSUME RadarInv, StartPlanning
  PROVE  RadarInv'
<1>1. /\ stage = "events" /\ stage' = "plan" /\ model_time' = model_time /\ ev_queue' = ev_queue
      /\ command_queue' = command_queue /\ execed_commands' = execed_commands
      /\ dcu_timeline' = move_timeline(dcu_timeline, Base(model_time))
      /\ tr_au_timeline' = move_timeline(tr_au_timeline, Base(model_time))
      /\ rs_au_timeline' = move_timeline(rs_au_timeline, Base(model_time))
      /\ queries' = SortedQueries(model_time) /\ turn' = 1 /\ ret' = {} /\ new_queries' = << >>
  BY DEF StartPlanning, StartRun, commandVars
<1>2. ret = {}
  BY <1>1 DEF RadarInv, NothingKeptBack
<1>3. Planned' = Planned /\ AllCommands' = AllCommands
  BY <1>1, <1>2 DEF Planned, AllCommands
<1>4. /\ model_time \in Nat /\ Base(model_time) \in Nat /\ QueriesTyped(queries) /\ EventsTyped
      /\ Labelled(dcu_timeline) /\ Labelled(tr_au_timeline) /\ Labelled(rs_au_timeline)
  BY DEF RadarInv, TypeOK
<1>5. /\ Labelled(dcu_timeline') /\ Labelled(tr_au_timeline') /\ Labelled(rs_au_timeline')
      /\ \A i \in DOMAIN dcu_timeline : i >= Base(model_time) => i \in DOMAIN dcu_timeline'
  BY <1>1, <1>4, MoveFacts
<1>6. AllCommands' \subseteq Commands /\ Transmissions' /\ TransmitsSpaced' /\ Accompanied' /\ SentInAdvance'
  BY <1>1, <1>3, <1>5, NothingPlannedKeeps
<1>7. QueriesTyped(queries') /\ QueriesTyped(new_queries')
  <2>1. QueriesTyped(<< >>)
    BY DEF QueriesTyped
  <2> QED  BY <1>1, <1>4, <2>1, SortedTyped
<1>8. EventsTyped'
  BY <1>1, <1>4, SameEvents
<1>9. TypeOK'
  BY <1>1, <1>5, <1>6, <1>7, <1>8 DEF TypeOK, RadarInv, Base
<1>10. OnTime' /\ NothingKeptBack'
  BY <1>1, <1>2 DEF OnTime, NothingKeptBack, RadarInv, TimeStep
<1>11. Judged'
  BY <1>1 DEF Judged
<1> QED  BY <1>6, <1>9, <1>10, <1>11 DEF RadarInv

\* A query is served or waits.
LEMMA PlanStep ==
  ASSUME RadarInv, Plan
  PROVE  RadarInv'
<1>0. /\ stage = "plan" /\ UNCHANGED <<commandVars, engineVars>> /\ Serve(model_time)
  BY DEF Plan
<1>1. /\ model_time' = model_time /\ stage' = stage /\ command_queue' = command_queue
      /\ execed_commands' = execed_commands /\ ev_queue' = ev_queue
  BY <1>0 DEF commandVars, engineVars
<1>2. TypeOK /\ EventsTyped' /\ turn \in Nat \ {0} /\ model_time \in Nat
  BY <1>1, SameEvents DEF RadarInv, TypeOK
<1>7. Judged'
  BY <1>0, <1>1 DEF Judged
<1>3. CASE ServeScan(model_time)
  <2>1. PICK s, b, S : Placed(s, b, S)
    BY <1>2, <1>3, ScanServed
  <2>2. /\ AllCommands' \subseteq Commands /\ NothingKeptBack' /\ OnTime' /\ Transmissions'
        /\ TransmitsSpaced' /\ Accompanied' /\ SentInAdvance'
    BY <1>0, <2>1, PlacedKeeps
  <2>3. /\ QueriesTyped(queries') /\ QueriesTyped(new_queries') /\ turn' \in Nat \ {0}
        /\ Labelled(dcu_timeline') /\ Labelled(tr_au_timeline') /\ Labelled(rs_au_timeline')
    BY <1>2, <1>3, ScanServed
  <2>4. TypeOK'
    BY <1>1, <1>2, <2>2, <2>3 DEF TypeOK, Base
  <2> QED  BY <1>7, <2>2, <2>4 DEF RadarInv
<1>4. ASSUME UNCHANGED timelines, turn' = turn + 1, new_queries' = new_queries, QueriesTyped(queries'),
             NEW S \in SUBSET Commands, ret' = ret \cup S, \A c \in S : c.type = "tech" /\ c.exec >= model_time
      PROVE  RadarInv'
  <2>1. Planned' = Planned \cup S /\ AllCommands' = AllCommands \cup S
    BY <1>1, <1>4 DEF Planned, AllCommands
  <2>2. AllCommands' \subseteq Commands /\ Transmissions' /\ TransmitsSpaced' /\ Accompanied' /\ SentInAdvance'
    BY <1>1, <1>4, <2>1, OthersKeep DEF timelines
  <2>3. TypeOK'
    BY <1>1, <1>2, <1>4, <2>2 DEF TypeOK, Base, timelines
  <2>4. OnTime' /\ NothingKeptBack'
    BY <1>0, <1>1, <1>4 DEF OnTime, NothingKeptBack, RadarInv, TimeStep
  <2> QED  BY <1>7, <2>2, <2>3, <2>4 DEF RadarInv
<1>5. CASE Skip(model_time) \/ ServeDrop(model_time)
  <2>1. UNCHANGED timelines /\ turn' = turn + 1 /\ new_queries' = new_queries /\ queries' = queries /\ ret' = ret \cup {}
    BY <1>5 DEF Skip, ServeDrop
  <2>2. QueriesTyped(queries')
    BY <1>2, <2>1 DEF TypeOK
  <2> DEFINE S == {}
  <2>3. S \in SUBSET Commands /\ ret' = ret \cup S /\ \A c \in S : c.type = "tech" /\ c.exec >= model_time
    BY <2>1
  <2> HIDE DEF S
  <2> QED  BY <1>4, <2>1, <2>2, <2>3
<1>6. CASE ServeTechControl(model_time)
  <2> DEFINE c == Command("tech", model_time - reserve_time, model_time, 0, queries[turn].id)
  <2>1. /\ turn <= Len(queries) /\ turn' = turn + 1 /\ ret' = ret \cup {c}
        /\ queries' = [queries EXCEPT ![turn].t_prev = model_time]
        /\ UNCHANGED timelines /\ new_queries' = new_queries
    BY <1>6 DEF ServeTechControl
  <2>2. QueriesTyped(queries) /\ turn \in DOMAIN queries
    BY <1>2, <2>1 DEF TypeOK, QueriesTyped
  <2>3. QueriesTyped(queries')
    BY <1>2, <2>1, <2>2, ServedTyped
  <2>4. c \in Commands /\ c.type = "tech" /\ c.exec = model_time
    <3>1. queries[turn].id \in Nat /\ reserve_time \in Nat
      BY <2>2, QueryFacts, SettledHolds DEF Settled
    <3> QED  BY <1>2, <3>1 DEF Command, Commands, CommandTypes
  <2> HIDE DEF c
  <2>5. {c} \in SUBSET Commands /\ \A x \in {c} : x.type = "tech" /\ x.exec >= model_time
    BY <1>2, <2>4
  <2> QED  BY <1>4, <2>1, <2>3, <2>5
<1> QED  BY <1>0, <1>3, <1>5, <1>6 DEF Serve

\* The run ends: its commands go to the queue.
LEMMA FinishStep ==
  ASSUME RadarInv, FinishPlanning
  PROVE  RadarInv'
<1>1. /\ stage = "plan" /\ stage' = "execute" /\ model_time' = model_time /\ ev_queue' = ev_queue
      /\ command_queue' = command_queue \cup ret /\ execed_commands' = execed_commands
      /\ UNCHANGED timelines
      /\ queries' = Remaining \o new_queries /\ turn' = 1 /\ ret' = {} /\ new_queries' = << >>
  BY DEF FinishPlanning, EndRun, append
<1>2. Planned' = Planned /\ AllCommands' = AllCommands
  BY <1>1 DEF Planned, AllCommands
<1>3. AllCommands' \subseteq Commands /\ Transmissions' /\ TransmitsSpaced' /\ Accompanied' /\ SentInAdvance'
  BY <1>1, <1>2, NothingPlannedKeeps DEF timelines
<1>4. QueriesTyped(queries') /\ QueriesTyped(new_queries')
  <2>1. QueriesTyped(queries) /\ QueriesTyped(new_queries)
    BY DEF RadarInv, TypeOK
  <2>2. QueriesTyped(Remaining \o new_queries)
    BY <2>1, RemainingTyped, ConcatTyped
  <2>3. QueriesTyped(<< >>)
    BY DEF QueriesTyped
  <2> QED  BY <1>1, <2>2, <2>3
<1>5. EventsTyped'
  BY <1>1, SameEvents DEF RadarInv, TypeOK
<1>6. TypeOK'
  BY <1>1, <1>3, <1>4, <1>5 DEF TypeOK, RadarInv, Base, timelines
<1>7. OnTime' /\ NothingKeptBack'
  BY <1>1 DEF OnTime, NothingKeptBack, RadarInv, TimeStep
<1>8. Judged'
  <2>1. valid_state' = validate(command_queue', execed_commands)
    BY DEF FinishPlanning
  <2>2. validate(command_queue, execed_commands)' = validate(command_queue', execed_commands')
    BY DEF validate, RephasingsSpaced, AntennaReady, Prepared, IsFirst, EnergyRestored, SentInTime,
         OfType
  <2> QED  BY <1>1, <2>1, <2>2 DEF Judged
<1> QED  BY <1>3, <1>6, <1>7, <1>8 DEF RadarInv

\* The commands of the step are executed and time passes.
LEMMA ExecuteStep ==
  ASSUME RadarInv, Execute
  PROVE  RadarInv'
<1> DEFINE L == time_chunk_length
           B == Base(model_time)
<1>0. /\ Settled /\ phase_delay <= planning_step * time_chunk_length /\ channel_switch_delay <= phase_delay
  BY SettledHolds, SettingsAssumption DEF SettingsAssumption
<1>1. /\ stage = "execute" /\ stage' \in {"events", "stopped"} /\ ev_queue' = ev_queue
      /\ model_time' = model_time + TimeStep
      /\ execed_commands' = {c \in command_queue : c.exec < model_time + TimeStep}
      /\ command_queue' = command_queue \ execed_commands'
      /\ UNCHANGED timelines
      /\ queries' = queries /\ turn' = turn /\ ret' = ret /\ new_queries' = new_queries
  BY DEF Execute, run, schedulerVars
<1>2. ret = {} /\ ret' = {}
  BY <1>1 DEF RadarInv, NothingKeptBack
<1>3. /\ model_time \in Nat /\ B \in Nat /\ model_time = B * L /\ AllCommands \subseteq Commands
  BY DEF RadarInv, TypeOK
<1>4. TimeStep \in Nat /\ TimeStep = planning_step * L /\ L \in Nat /\ L > 0 /\ planning_step \in Nat
  BY <1>0 DEF Settled, TimeStep
<1>5. Base(model_time') = B + planning_step /\ model_time' = (B + planning_step) * L
  <2>1. (B + planning_step) * L = B * L + planning_step * L
    BY <1>3, <1>4, Distribute
  <2>2. model_time' = (B + planning_step) * L
    BY <1>1, <1>3, <1>4, <2>1
  <2>3. B + planning_step \in Int
    BY <1>3, <1>4
  <2>4. ((B + planning_step) * L) \div L = B + planning_step
    <3> HIDE DEF B
    <3> QED  BY <1>4, <2>3, DivExact
  <2> QED  BY <2>2, <2>4 DEF Base
<1>6. Planned' \subseteq Planned /\ AllCommands' \subseteq AllCommands /\ AllCommands' = Planned
  BY <1>1, <1>2 DEF Planned, AllCommands
<1>7. AllCommands' \subseteq Commands
  BY <1>3, <1>6
<1>8. TypeOK'
  <2>1. EventsTyped'
    BY <1>1, SameEvents DEF RadarInv, TypeOK
  <2>2. model_time' \in Nat /\ B + planning_step \in Nat
    BY <1>1, <1>3, <1>4
  <2>3. Base(model_time)' = B + planning_step
    BY <1>5 DEF Base
  <2> HIDE DEF B
  <2> QED  BY <1>1, <1>5, <1>7, <2>1, <2>2, <2>3 DEF TypeOK, RadarInv, timelines
<1>9. NothingKeptBack'
  BY <1>2 DEF NothingKeptBack
<1>10. OnTime'
  <2>1. \A c \in command_queue : c.exec \in Nat /\ c.exec >= model_time
    BY <1>3 DEF AllCommands, Planned, Commands, RadarInv, OnTime
  <2>2. \A c \in command_queue' : c.exec >= model_time'
    BY <1>1, <1>3, <1>4, <2>1
  <2>3. \A c \in execed_commands' : c.exec \in model_time' - TimeStep .. model_time' - 1
    BY <1>1, <1>3, <1>4, <2>1
  <2> QED  BY <1>2, <2>2, <2>3 DEF OnTime, TimeStep
<1>11. ASSUME NEW c \in AllCommands', c.type = "transmit"  PROVE (OnDiscretes(c) /\ Reserved(c))'
  <2>1. OnDiscretes(c) /\ Reserved(c)
    BY <1>6, <1>11 DEF RadarInv, Transmissions, OfType
  <2>2. OnDiscretes(c)' /\ TakenBy(c)' = TakenBy(c) /\ dcu_timeline' = dcu_timeline
    BY <1>1, <2>1 DEF OnDiscretes, TakenBy, Base, Discretes, timelines
  <2>3. \A i \in TakenBy(c) : i \in Int
    BY DEF TakenBy
  <2>4. \A i \in TakenBy(c) : i >= Base(model_time)' => i >= B
    <3>1. Base(model_time)' = B + planning_step
      BY <1>5 DEF Base
    <3> HIDE DEF B
    <3> QED  BY <1>3, <1>4, <2>3, <3>1
  <2> QED  BY <2>1, <2>2, <2>4 DEF Reserved
<1>12. Transmissions'
  BY <1>11 DEF Transmissions, OfType
<1>13. TransmitsSpaced'
  BY <1>6 DEF TransmitsSpaced, RadarInv, OfType
<1>14. Accompanied'
  <2>1. ASSUME NEW c \in Planned', NEW type, NEW delay, delay \in Nat, delay <= TimeStep,
               Companion(c, type, delay)
        PROVE  Companion(c, type, delay)'
    <3>1. PICK p \in AllCommands : p.type = type /\ p.id = c.id /\ p.exec = c.exec - delay
      BY <2>1 DEF Companion
    <3>2. c \in command_queue'
      BY <1>2 DEF Planned
    <3>3. c.exec >= model_time + TimeStep /\ c.exec \in Nat
      BY <1>1, <1>3, <1>6, <1>10, <3>2 DEF OnTime, Commands
    <3>4. p \notin execed_commands
      <4>1. p.exec >= model_time
        BY <1>3, <1>4, <2>1, <3>1, <3>3
      <4>2. p \in execed_commands => p.exec \in model_time - TimeStep .. model_time - 1
        BY DEF RadarInv, OnTime
      <4> QED  BY <1>3, <1>4, <4>1, <4>2
    <3>5. p \in AllCommands'
      BY <1>6, <3>4 DEF AllCommands
    <3> QED  BY <3>1, <3>5 DEF Companion
  <2>2. channel_switch_delay \in Nat /\ channel_switch_delay <= TimeStep /\ phase_delay \in Nat /\ phase_delay <= TimeStep
    BY <1>0, <1>4 DEF Settled
  <2>3. ASSUME NEW c \in Planned'
        PROVE  /\ c.type = "receive" => Companion(c, "protect", channel_switch_delay)
                                        /\ Companion(c, "rs_rephase", phase_delay)
               /\ c.type = "transmit" => Companion(c, "tr_rephase", phase_delay)
    BY <1>6 DEF RadarInv, Accompanied
  <2> QED  BY <2>1, <2>2, <2>3 DEF Accompanied
<1>15. Judged'
  BY <1>1 DEF Judged
<1>16. SentInAdvance'
  <2>1. \A c : SentBefore(c)' <=> SentBefore(c)
    BY DEF SentBefore
  <2> QED  BY <1>6, <2>1 DEF SentInAdvance, RadarInv
<1> QED  BY <1>8, <1>9, <1>10, <1>12, <1>13, <1>14, <1>15, <1>16 DEF RadarInv

-----------------------------------------------------------------------------
(* The theorems *)

LEMMA InvInit ==
  ASSUME Init
  PROVE  RadarInv
<1>1. /\ dcu_timeline = << >> /\ tr_au_timeline = << >> /\ rs_au_timeline = << >>
      /\ queries = << >> /\ turn = 1 /\ ret = {} /\ new_queries = << >>
      /\ command_queue = {} /\ execed_commands = {}
      /\ ev_queue \in Scenarios /\ model_time = 0 /\ stage = "events"
  BY DEF Init, SchedulerInit, CommandProcessorInit
<1>2. Planned = {} /\ AllCommands = {}
  BY <1>1 DEF Planned, AllCommands
<1>3. Base(model_time) = 0 /\ model_time = Base(model_time) * time_chunk_length
  <2>1. time_chunk_length \in Nat /\ time_chunk_length > 0
    BY SettledHolds DEF Settled
  <2>2. 0 \div time_chunk_length = 0
    BY <2>1
  <2> QED  BY <1>1, <2>1, <2>2 DEF Base
<1>4. EventsTyped
  BY <1>1, ScenarioAssumption DEF ScenarioAssumption, EventsTyped
<1>5. QueriesTyped(<< >>) /\ Labelled(<< >>)
  BY DEF QueriesTyped, Labelled
<1>6. TypeOK
  BY <1>1, <1>2, <1>3, <1>4, <1>5 DEF TypeOK
<1> QED  BY <1>1, <1>2, <1>6 DEF RadarInv, NothingKeptBack, OnTime, Transmissions, TransmitsSpaced,
     Accompanied, OfType,
         SentInAdvance, Judged

LEMMA InvStep ==
  ASSUME RadarInv, [Next]_vars
  PROVE  RadarInv'
<1>1. CASE Next
  BY <1>1, EventsStep, StartStep, PlanStep, FinishStep, ExecuteStep DEF Next
<1>2. CASE UNCHANGED vars
  <2>1. /\ ret' = ret /\ command_queue' = command_queue /\ execed_commands' = execed_commands
        /\ model_time' = model_time /\ stage' = stage /\ turn' = turn /\ queries' = queries
        /\ new_queries' = new_queries /\ ev_queue' = ev_queue
        /\ dcu_timeline' = dcu_timeline /\ tr_au_timeline' = tr_au_timeline /\ rs_au_timeline' = rs_au_timeline
    BY <1>2 DEF vars, schedulerVars, commandVars, engineVars, timelines
  <2>2. Planned' = Planned /\ AllCommands' = AllCommands
    BY <2>1 DEF Planned, AllCommands
  <2>3. AllCommands' \subseteq Commands /\ Transmissions' /\ TransmitsSpaced' /\ Accompanied' /\ SentInAdvance'
    BY <2>1, <2>2, NothingPlannedKeeps
  <2>4. EventsTyped'
    BY <2>1, SameEvents DEF RadarInv, TypeOK
  <2>5. TypeOK'
    BY <2>1, <2>3, <2>4 DEF TypeOK, RadarInv, Base
  <2>6. OnTime' /\ NothingKeptBack'
    BY <2>1 DEF OnTime, NothingKeptBack, RadarInv, TimeStep
  <2>7. Judged'
    BY <1>2 DEF Judged, vars, engineVars, commandVars, RadarInv, validate, RephasingsSpaced,
         AntennaReady,
                Prepared, IsFirst, EnergyRestored, SentInTime, OfType
  <2> QED  BY <2>3, <2>5, <2>6, <2>7 DEF RadarInv
<1> QED  BY <1>1, <1>2

\* In every reachable state the invariant holds (ModelEngine::run with Scheduler::run
\* and CommandProcessor).
THEOREM RadarInvariant == Spec => []RadarInv
<1>1. Init => RadarInv
  BY InvInit
<1>2. RadarInv /\ [Next]_vars => RadarInv'
  BY InvStep
<1> QED  BY <1>1, <1>2, PTL DEF Spec

\* No transmission starts before the energy of the one before it is restored, whichever
\* runs planned the two (Scheduler::place_scan).
THEOREM TransmissionsApart == Spec => []TransmitsSpaced
<1>1. RadarInv => TransmitsSpaced
  BY DEF RadarInv
<1> QED  BY <1>1, RadarInvariant, PTL

\* A planned transmission that is ahead is labelled on the timeline of the converter
\* (Scheduler::place_scan, Timeline::move_timeline).
THEOREM PlannedStayReserved == Spec => []TransmissionsReserved
<1>1. RadarInv => TransmissionsReserved
  BY DEF RadarInv, Transmissions, TransmissionsReserved, AllCommands, OfType, Reserved
<1> QED  BY <1>1, RadarInvariant, PTL

\* A command is planned while it can be sent, and is executed in its step
\* (CommandProcessor::run).
THEOREM ExecutedOnTime == Spec => []CommandsOnTime
<1>1. RadarInv => CommandsOnTime
  BY DEF RadarInv, OnTime, CommandsOnTime
<1> QED  BY <1>1, RadarInvariant, PTL

\* The earliest of the commands for a scan is no later than the one planned with it.
LEMMA CompanionPrepares ==
  ASSUME RadarInv, stage = "execute", NEW c \in command_queue, NEW type, NEW delay \in Nat,
         Companion(c, type, delay)
  PROVE  Prepared(c, type, delay, command_queue, execed_commands)
<1> DEFINE Mine(commands) == {d \in OfType(commands, type) : d.id = c.id}
<1>1. ret = {}
  BY DEF RadarInv, NothingKeptBack
<1>2. PICK q \in AllCommands : q.type = type /\ q.id = c.id /\ q.exec = c.exec - delay
  BY DEF Companion
<1>3. /\ command_queue \subseteq Commands /\ execed_commands \subseteq Commands
      /\ q \in command_queue \/ q \in execed_commands
  BY <1>1 DEF RadarInv, TypeOK, AllCommands, Planned
<1>4. /\ model_time \in Nat /\ TimeStep \in Nat
      /\ \A d \in command_queue : d.exec \in Nat /\ d.exec >= model_time
      /\ \A d \in execed_commands : d.exec \in Nat /\ d.exec < model_time
  <2>1. model_time \in Nat /\ TimeStep \in Nat
    BY SettledHolds DEF RadarInv, TypeOK, Settled, TimeStep
  <2>2. \A d \in execed_commands : d.exec \in model_time - TimeStep .. model_time - 1
    BY DEF RadarInv, OnTime
  <2>3. \A d \in execed_commands : d.exec < model_time
    BY <2>1, <2>2
  <2> QED  BY <1>3, <2>1, <2>3 DEF Commands, RadarInv, OnTime
<1>5. \A commands \in {command_queue, execed_commands} : Mine(commands) # {} =>
        \E p \in Mine(commands) : \A d \in Mine(commands) : p.exec <= d.exec
  <2> SUFFICES ASSUME NEW commands \in {command_queue, execed_commands}, Mine(commands) # {}
               PROVE  \E p \in Mine(commands) : \A d \in Mine(commands) : p.exec <= d.exec
    OBVIOUS
  <2> DEFINE Times == {d.exec : d \in Mine(commands)}
  <2>1. Times # {} /\ Times \in SUBSET Nat
    BY <1>4 DEF OfType
  <2>2. PICK t \in Times : \A u \in Times : t <= u
    <3> HIDE DEF Times
    <3> QED  BY <2>1, LeastOf
  <2>3. PICK p \in Mine(commands) : p.exec = t
    BY <2>2
  <2>4. \A d \in Mine(commands) : p.exec <= d.exec
    BY <2>2, <2>3
  <2> QED  BY <2>3, <2>4
<1>6. c.exec \in Nat
  BY <1>4
<1>7. CASE Mine(execed_commands) # {}
  <2>1. PICK p \in Mine(execed_commands) : \A d \in Mine(execed_commands) : p.exec <= d.exec
    BY <1>5, <1>7
  <2>2. p \in execed_commands /\ p.exec \in Nat
    BY <1>4, <2>1 DEF OfType
  <2>3. p.exec <= q.exec
    <3>1. CASE q \in execed_commands
      <4>1. q \in Mine(execed_commands)
        BY <1>2, <3>1 DEF OfType
      <4> QED  BY <2>1, <4>1
    <3>2. CASE q \in command_queue
      BY <1>4, <2>2, <3>2
    <3> QED  BY <1>3, <3>1, <3>2
  <2>4. c.exec - p.exec \notin 0 .. delay - 1
    BY <1>2, <1>6, <2>2, <2>3
  <2>5. IsFirst(p, c, type, command_queue, execed_commands)
    <3>1. CASE execed_commands = command_queue
      BY <1>3, <1>4, <2>2, <3>1
    <3>2. CASE execed_commands # command_queue
      BY <2>1, <3>2 DEF IsFirst
    <3> QED  BY <3>1, <3>2
  <2> QED  BY <2>2, <2>4, <2>5 DEF Prepared
<1>8. CASE Mine(execed_commands) = {}
  <2>1. q \in Mine(command_queue)
    BY <1>2, <1>3, <1>8 DEF OfType
  <2>2. PICK p \in Mine(command_queue) : \A d \in Mine(command_queue) : p.exec <= d.exec
    BY <1>5, <2>1
  <2>3. p \in command_queue /\ p.exec \in Nat /\ p.exec <= q.exec
    BY <1>4, <2>1, <2>2 DEF OfType
  <2>4. c.exec - p.exec \notin 0 .. delay - 1
    BY <1>2, <1>6, <2>3
  <2>5. IsFirst(p, c, type, command_queue, execed_commands)
    BY <1>8, <2>2 DEF IsFirst
  <2> QED  BY <2>3, <2>4, <2>5 DEF Prepared
<1> QED  BY <1>7, <1>8

LEMMA AntennaReadyWhenExecuted ==
  ASSUME RadarInv, stage = "execute"
  PROVE  AntennaReady(command_queue, execed_commands)
<1>1. channel_switch_delay \in Nat /\ phase_delay \in Nat
  BY SettledHolds DEF Settled
<1>2. ASSUME NEW c \in command_queue
      PROVE  /\ c.type = "receive" => Companion(c, "protect", channel_switch_delay)
                                      /\ Companion(c, "rs_rephase", phase_delay)
             /\ c.type = "transmit" => Companion(c, "tr_rephase", phase_delay)
  BY DEF RadarInv, Accompanied, Planned
<1>3. ASSUME NEW c \in command_queue
      PROVE  /\ c.type = "receive" =>
                  /\ Prepared(c, "protect", channel_switch_delay, command_queue, execed_commands)
                  /\ Prepared(c, "rs_rephase", phase_delay, command_queue, execed_commands)
             /\ c.type = "transmit" =>
                  Prepared(c, "tr_rephase", phase_delay, command_queue, execed_commands)
  BY <1>1, <1>2, CompanionPrepares
<1> QED  BY <1>3 DEF AntennaReady, OfType

\* When a step is executed, each transmission and reception in the queue has its antenna
\* rephased and the protection switched in time (Scheduler::place_scan, validate).
THEOREM AntennaAlwaysPrepared == Spec => []AntennaPrepared
<1>1. RadarInv => AntennaPrepared
  BY AntennaReadyWhenExecuted DEF AntennaPrepared
<1> QED  BY <1>1, RadarInvariant, PTL

\* What the validation of the plan can find wrong: the spacing of rephasings, nothing else.
OnlySpacingCanFail ==
  stage = "execute" =>
    valid_state = (/\ RephasingsSpaced(command_queue, "tr_rephase")
                   /\ RephasingsSpaced(command_queue, "rs_rephase"))

\* The validation of a plan answers what its check of the spacing of rephasings answers:
\* of the other requirements none can fail (CommandProcessor::validate).
THEOREM ValidButForSpacing == Spec => []OnlySpacingCanFail
<1>1. ASSUME RadarInv, stage = "execute"
      PROVE  EnergyRestored(command_queue) /\ SentInTime(command_queue)
  <2>1. command_queue \subseteq AllCommands
    BY DEF AllCommands, Planned
  <2>2. EnergyRestored(command_queue)
    BY <1>1, <2>1 DEF RadarInv, TransmitsSpaced, EnergyRestored, OfType
  <2>3. SentInTime(command_queue)
    <3>1. \A c \in command_queue : SentBefore(c)
      BY <1>1, <2>1 DEF RadarInv, SentInAdvance
    <3>2. reserve_time \in Nat /\ blank_delay \in Nat /\ frequency_delay \in Nat
      BY SettledHolds DEF Settled
    <3> QED  BY <3>1, <3>2 DEF SentInTime, SentBefore, OfType
  <2> QED  BY <2>2, <2>3
<1>2. RadarInv => OnlySpacingCanFail
  <2> SUFFICES ASSUME RadarInv, stage = "execute"
               PROVE  valid_state = (/\ RephasingsSpaced(command_queue, "tr_rephase")
                                     /\ RephasingsSpaced(command_queue, "rs_rephase"))
    BY DEF OnlySpacingCanFail
  <2>1. valid_state = validate(command_queue, execed_commands)
    BY DEF RadarInv, Judged
  <2> QED  BY <1>1, <2>1, AntennaReadyWhenExecuted DEF validate
<1> QED  BY <1>2, RadarInvariant, PTL

-----------------------------------------------------------------------------
(* The chain of a target: what the ids of the queries say *)

Chained(q) == q.type \in DOMAIN Chain

\* The same as far as ids are concerned.
Alike(p, q) == p.type = q.type /\ p.id = q.id

AllApart(qs) == \A m, n \in DOMAIN qs : m # n => IdsApart(qs[m], qs[n])
EachApart(ps, qs) == \A m \in DOMAIN ps, n \in DOMAIN qs : IdsApart(ps[m], qs[n])

LEMMA ApartSymmetric ==
  ASSUME NEW p, NEW q, IdsApart(p, q),
         Chained(p) => Followed(p) \in Int, Chained(q) => Followed(q) \in Int
  PROVE  IdsApart(q, p)
<1>1. ASSUME Chained(p), Chained(q)  PROVE Followed(q) - Followed(p) \notin -2 .. 2
  <2>1. Followed(p) - Followed(q) \notin -2 .. 2
    BY <1>1 DEF IdsApart, Chained
  <2> QED  BY <1>1, <2>1
<1> QED  BY <1>1 DEF IdsApart, Chained

LEMMA ApartAlike ==
  ASSUME NEW p, NEW q, NEW r, Alike(p, r), IdsApart(p, q)
  PROVE  IdsApart(r, q)
BY DEF Alike, IdsApart, DropSparesUntracked, Followed

\* What replaces a query of a target is as far from the others as it was.
LEMMA ApartInherited ==
  ASSUME NEW p, NEW q, NEW r, Chained(p), Chained(r), Followed(p) = Followed(r), IdsApart(p, q)
  PROVE  IdsApart(r, q)
<1>1. r.type # "drop"
  BY DEF Chained, Chain
<1> QED  BY <1>1 DEF IdsApart, DropSparesUntracked, Chained

LEMMA FollowedTyped ==
  ASSUME NEW q \in Queries
  PROVE  q.id \in Nat /\ (Chained(q) => Followed(q) \in Int /\ q.id - Followed(q) \in 0 .. 2)
<1>1. q.id \in Nat
  BY DEF Queries
<1>2. ASSUME Chained(q)  PROVE Chain[q.type] \in 0 .. 2
  BY <1>2 DEF Chained, Chain
<1> QED  BY <1>1, <1>2 DEF Followed

\* Two queries of targets that are apart have different ids.
LEMMA IdsDiffer ==
  ASSUME NEW p \in Queries, NEW q \in Queries, Chained(p), Chained(q), IdsApart(p, q)
  PROVE  p.id # q.id /\ Followed(p) # Followed(q)
<1>1. Followed(p) - Followed(q) \notin -2 .. 2
  BY DEF IdsApart, Chained
<1>2. /\ p.id \in Nat /\ q.id \in Nat /\ Followed(p) \in Int /\ Followed(q) \in Int
      /\ p.id - Followed(p) \in 0 .. 2 /\ q.id - Followed(q) \in 0 .. 2
  BY FollowedTyped
<1> QED  BY <1>1, <1>2

\* A drop with the id of a query of a target is one for its tracking.
LEMMA DropNamesTracking ==
  ASSUME NEW d \in Queries, NEW q \in Queries, d.type = "drop", Chained(q), IdsApart(d, q), d.id = q.id
  PROVE  d.id = Followed(q) + 2
<1>1. d.id - Followed(q) \notin {0, 1}
  BY DEF IdsApart, DropSparesUntracked, Chained
<1>2. q.id \in Nat /\ Followed(q) \in Int /\ q.id - Followed(q) \in 0 .. 2
  BY FollowedTyped
<1> QED  BY <1>1, <1>2

\* The query that replaces another follows its target.
LEMMA FollowUpChained ==
  ASSUME NEW q \in Queries, NEW time \in Nat, FollowUp(q, time) # << >>
  PROVE  /\ Chained(q)
         /\ \E r : FollowUp(q, time) = << r >> /\ Chained(r) /\ Followed(r) = Followed(q)
<1> DEFINE capture == [q EXCEPT !.type = "capture", !.id = q.id + 1, !.t_prev = time]
           tracking == [q EXCEPT !.type = "tracking", !.id = q.id + 1, !.t_prev = time]
<1>0. q \in [type : QueryTypes, id : Nat, t_prev : Nat, scan : ScanPairs]
  BY DEF Queries
<1>1. \/ q.type = "confirm" /\ FollowUp(q, time) = << capture >>
      \/ q.type = "capture" /\ FollowUp(q, time) = << tracking >>
  BY <1>0 DEF FollowUp
<1>2. /\ capture.type = "capture" /\ capture.id = q.id + 1
      /\ tracking.type = "tracking" /\ tracking.id = q.id + 1 /\ q.id \in Nat
  BY <1>0
<1> HIDE DEF capture, tracking
<1>3. CASE q.type = "confirm"
  <2>1. Chained(q) /\ Chained(capture)
    BY <1>2, <1>3 DEF Chained, Chain
  <2>2. Followed(q) = q.id - 0 /\ Followed(capture) = q.id + 1 - 1
    BY <1>2, <1>3 DEF Followed, Chain
  <2> QED  BY <1>1, <1>2, <1>3, <2>1, <2>2
<1>4. CASE q.type = "capture"
  <2>1. Chained(q) /\ Chained(tracking)
    BY <1>2, <1>4 DEF Chained, Chain
  <2>2. Followed(q) = q.id - 1 /\ Followed(tracking) = q.id + 1 - 2
    BY <1>2, <1>4 DEF Followed, Chain
  <2> QED  BY <1>1, <1>2, <1>4, <2>1, <2>2
<1> QED  BY <1>1, <1>3, <1>4

LEMMA QueriesSeq ==
  ASSUME NEW qs, QueriesTyped(qs)
  PROVE  /\ Len(qs) \in Nat /\ DOMAIN qs = 1 .. Len(qs)
         /\ \A n \in DOMAIN qs : qs[n] \in Queries
BY DEF QueriesTyped

\* The members of a list that is put together.
LEMMA ConcatMembers ==
  ASSUME NEW ps, NEW qs, QueriesTyped(ps), QueriesTyped(qs), NEW m \in DOMAIN (ps \o qs)
  PROVE  \/ m \in DOMAIN ps /\ (ps \o qs)[m] = ps[m]
         \/ m \notin DOMAIN ps /\ m - Len(ps) \in DOMAIN qs /\ (ps \o qs)[m] = qs[m - Len(ps)]
<1>0. ps \in Seq(Queries) /\ qs \in Seq(Queries)
  BY DEF QueriesTyped
<1>1. /\ Len(ps) \in Nat /\ Len(qs) \in Nat /\ DOMAIN ps = 1 .. Len(ps) /\ DOMAIN qs = 1 .. Len(qs)
      /\ DOMAIN (ps \o qs) = 1 .. Len(ps) + Len(qs)
  BY <1>0
<1>2. CASE m <= Len(ps)
  BY <1>0, <1>1, <1>2
<1>3. CASE m > Len(ps)
  <2>1. m - Len(ps) \in 1 .. Len(qs)
    BY <1>1, <1>3
  <2>2. (ps \o qs)[m] = qs[m - Len(ps)]
    BY <1>0, <1>1, <1>3
  <2> QED  BY <1>1, <1>3, <2>1, <2>2
<1> QED  BY <1>1, <1>2, <1>3

LEMMA ConcatApart ==
  ASSUME NEW ps, NEW qs, QueriesTyped(ps), QueriesTyped(qs),
         AllApart(ps), AllApart(qs), EachApart(ps, qs)
  PROVE  AllApart(ps \o qs)
<1>0. Len(ps) \in Nat /\ QueriesTyped(ps \o qs)
  BY QueriesSeq, ConcatTyped
<1> SUFFICES ASSUME NEW m \in DOMAIN (ps \o qs), NEW n \in DOMAIN (ps \o qs), m # n
             PROVE  IdsApart((ps \o qs)[m], (ps \o qs)[n])
  BY DEF AllApart
<1>1. m \in Nat /\ n \in Nat
  BY <1>0, QueriesSeq
<1>2. \/ m \in DOMAIN ps /\ (ps \o qs)[m] = ps[m]
      \/ m \notin DOMAIN ps /\ m - Len(ps) \in DOMAIN qs /\ (ps \o qs)[m] = qs[m - Len(ps)]
  BY ConcatMembers
<1>3. \/ n \in DOMAIN ps /\ (ps \o qs)[n] = ps[n]
      \/ n \notin DOMAIN ps /\ n - Len(ps) \in DOMAIN qs /\ (ps \o qs)[n] = qs[n - Len(ps)]
  BY ConcatMembers
<1>4. m - Len(ps) # n - Len(ps)
  BY <1>0, <1>1
<1>5. ASSUME NEW i \in DOMAIN ps, NEW j \in DOMAIN qs  PROVE IdsApart(qs[j], ps[i])
  <2>1. ps[i] \in Queries /\ qs[j] \in Queries
    BY QueriesSeq
  <2>2. IdsApart(ps[i], qs[j])
    BY DEF EachApart
  <2> QED  BY <2>1, <2>2, ApartSymmetric, FollowedTyped
<1> QED  BY <1>2, <1>3, <1>4, <1>5 DEF AllApart, EachApart

LEMMA ConcatEachApart ==
  ASSUME NEW es, NEW ps, NEW qs, QueriesTyped(ps), QueriesTyped(qs), EachApart(es, ps), EachApart(es, qs)
  PROVE  EachApart(es, ps \o qs)
BY ConcatMembers DEF EachApart

\* Picking queries leaves them apart, in whatever order.
LEMMA PickedApart ==
  ASSUME NEW S \in SUBSET DOMAIN queries, NEW qs, InSomeOrder(qs, S), AllApart(queries)
  PROVE  AllApart(qs) /\ \A r \in DOMAIN qs : \E n \in S : qs[r] = queries[n]
<1>0. PICK k \in Nat : \E place \in Bijection(1 .. k, S) : qs = [r \in 1 .. k |-> queries[place[r]]]
  BY DEF InSomeOrder
<1>1. PICK place \in Bijection(1 .. k, S) : qs = [r \in 1 .. k |-> queries[place[r]]]
  BY <1>0
<1>2. \A r \in 1 .. k : place[r] \in S
  BY DEF Bijection, Injection
<1>3. \A q, r \in 1 .. k : q # r => place[q] # place[r]
  BY DEF Bijection, Injection, IsInjective
<1> QED  BY <1>1, <1>2, <1>3 DEF AllApart

\* And all of them picks each.
LEMMA EachPicked ==
  ASSUME NEW S \in SUBSET DOMAIN queries, NEW qs, InSomeOrder(qs, S), NEW n \in S
  PROVE  \E r \in DOMAIN qs : qs[r] = queries[n]
<1>0. PICK k \in Nat : \E place \in Bijection(1 .. k, S) : qs = [r \in 1 .. k |-> queries[place[r]]]
  BY DEF InSomeOrder
<1>1. PICK place \in Bijection(1 .. k, S) : qs = [r \in 1 .. k |-> queries[place[r]]]
  BY <1>0
<1>2. PICK r \in 1 .. k : place[r] = n
  BY DEF Bijection, Surjection
<1> QED  BY <1>1, <1>2

\* The events to come are apart from each other and from the queries.
EventsApart ==
  /\ \A t, u \in DOMAIN ev_queue : \A m \in DOMAIN ev_queue[t], n \in DOMAIN ev_queue[u] :
       <<t, m>> # <<u, n>> => IdsApart(ev_queue[t][m], ev_queue[u][n])
  /\ \A t \in DOMAIN ev_queue : EachApart(ev_queue[t], queries)

\* A new query replaces one this run has served and removed.
Replaces(r) ==
  \E m \in DOMAIN queries :
    /\ m < turn /\ Chained(queries[m]) /\ queries[m].id \in removed_id
    /\ Followed(queries[m]) = Followed(r)

\* What is removed is dropped or replaced.
DroppedOrReplaced(id) ==
  \/ \E n \in DOMAIN queries : queries[n].type = "drop" /\ queries[n].id = id
  \/ \E m \in DOMAIN queries :
       /\ Chained(queries[m]) /\ queries[m].id = id
       /\ \E k \in DOMAIN new_queries : Followed(new_queries[k]) = Followed(queries[m])

Successions ==
  /\ AllApart(new_queries)
  /\ \A k \in DOMAIN new_queries : Chained(new_queries[k]) /\ Replaces(new_queries[k])
  /\ \A id \in removed_id : DroppedOrReplaced(id)

NoneBetweenRuns == stage # "plan" => removed_id = {} /\ new_queries = << >>

ChainInv == AllApart(queries) /\ EventsApart /\ Successions /\ NoneBetweenRuns

LEMMA BothAlike ==
  ASSUME NEW p, NEW q, NEW r, NEW s, Alike(p, r), Alike(q, s), IdsApart(p, q)
  PROVE  IdsApart(r, s)
BY DEF Alike, IdsApart, DropSparesUntracked, Followed

\* With nothing new and nothing removed there is nothing to replace.
LEMMA NothingSucceeds ==
  ASSUME removed_id' = {}, new_queries' = << >>
  PROVE  Successions' /\ NoneBetweenRuns'
<1>1. DOMAIN new_queries' = {}
  OBVIOUS
<1> QED  BY <1>1 DEF Successions, NoneBetweenRuns, AllApart

LEMMA ChainInit ==
  ASSUME Init
  PROVE  ChainInv
<1>1. queries = << >> /\ new_queries = << >> /\ removed_id = {} /\ ev_queue \in Scenarios
  BY DEF Init, SchedulerInit
<1>2. DOMAIN queries = {} /\ DOMAIN new_queries = {}
  BY <1>1
<1>3. EventsApart
  BY <1>1, <1>2, IdsAssumption DEF IdsAssumption, EventsApart, EachApart
<1> QED  BY <1>1, <1>2, <1>3 DEF ChainInv, AllApart, Successions, NoneBetweenRuns

\* An event's queries keep the distance the scenario gives them.
LEMMA ChainEvents ==
  ASSUME RadarInv, ChainInv, ExecuteEvents
  PROVE  ChainInv'
<1>1. PICK t \in get_events(model_time) : queries' = queries \o Created(t)
  BY DEF ExecuteEvents
<1>2. /\ stage = "events" /\ new_queries' = new_queries /\ removed_id' = removed_id
      /\ ev_queue' = [u \in DOMAIN ev_queue \ {model_time} |-> ev_queue[u]]
      /\ t \in DOMAIN ev_queue /\ t = model_time
  BY DEF ExecuteEvents, get_events
<1>3. QueriesTyped(queries) /\ EventsTyped
  BY DEF RadarInv, TypeOK
<1>4. QueriesTyped(Created(t))
  BY <1>2, <1>3, CreatedTyped
<1>5. DOMAIN Created(t) = DOMAIN ev_queue[t] /\ \A n \in DOMAIN ev_queue[t] : Alike(ev_queue[t][n], Created(t)[n])
  BY DEF Created, Alike
<1>6. AllApart(Created(t))
  <2> SUFFICES ASSUME NEW m \in DOMAIN ev_queue[t], NEW n \in DOMAIN ev_queue[t], m # n
               PROVE  IdsApart(Created(t)[m], Created(t)[n])
    BY <1>5 DEF AllApart
  <2>1. IdsApart(ev_queue[t][m], ev_queue[t][n])
    BY <1>2 DEF ChainInv, EventsApart
  <2> QED  BY <1>5, <2>1, BothAlike
<1>7. EachApart(queries, Created(t))
  <2> SUFFICES ASSUME NEW m \in DOMAIN queries, NEW n \in DOMAIN ev_queue[t]
               PROVE  IdsApart(queries[m], Created(t)[n])
    BY <1>5 DEF EachApart
  <2>1. IdsApart(ev_queue[t][n], queries[m])
    BY <1>2 DEF ChainInv, EventsApart, EachApart
  <2>2. IdsApart(Created(t)[n], queries[m])
    BY <1>5, <2>1, ApartAlike
  <2>3. Created(t)[n] \in Queries /\ queries[m] \in Queries
    BY <1>3, <1>4, <1>5, QueriesSeq
  <2> QED  BY <2>2, <2>3, ApartSymmetric, FollowedTyped
<1>8. AllApart(queries')
  BY <1>1, <1>3, <1>4, <1>6, <1>7, ConcatApart DEF ChainInv
<1>9. EventsApart'
  <2>1. ASSUME NEW u \in DOMAIN ev_queue, u # t  PROVE EachApart(ev_queue[u], queries')
    <3>1. EachApart(ev_queue[u], queries)
      BY DEF ChainInv, EventsApart
    <3>2. EachApart(ev_queue[u], Created(t))
      <4> SUFFICES ASSUME NEW m \in DOMAIN ev_queue[u], NEW n \in DOMAIN ev_queue[t]
                   PROVE  IdsApart(ev_queue[u][m], Created(t)[n])
        BY <1>5 DEF EachApart
      <4>1. IdsApart(ev_queue[u][m], ev_queue[t][n])
        BY <1>2, <2>1 DEF ChainInv, EventsApart
      <4>2. Alike(ev_queue[u][m], ev_queue[u][m])
        BY DEF Alike
      <4> QED  BY <1>5, <4>1, <4>2, BothAlike
    <3> QED  BY <1>1, <1>3, <1>4, <3>1, <3>2, ConcatEachApart
  <2>2. DOMAIN ev_queue' = DOMAIN ev_queue \ {t} /\ \A u \in DOMAIN ev_queue' : ev_queue'[u] = ev_queue[u]
    BY <1>2
  <2>3. \A u \in DOMAIN ev_queue' : EachApart(ev_queue'[u], queries')
    BY <2>1, <2>2
  <2>4. \A u, v \in DOMAIN ev_queue' : \A m \in DOMAIN ev_queue'[u], n \in DOMAIN ev_queue'[v] :
          <<u, m>> # <<v, n>> => IdsApart(ev_queue'[u][m], ev_queue'[v][n])
    BY <2>2 DEF ChainInv, EventsApart
  <2>5. /\ (\A u \in DOMAIN ev_queue : EachApart(ev_queue[u], queries))'
           <=> \A u \in DOMAIN ev_queue' : EachApart(ev_queue'[u], queries')
        /\ \A p, q : IdsApart(p, q)' <=> IdsApart(p, q)
    BY DEF EachApart, IdsApart, DropSparesUntracked, Followed, Chain
  <2> QED  BY <2>3, <2>4, <2>5 DEF EventsApart
<1>10. removed_id' = {} /\ new_queries' = << >>
  BY <1>2 DEF ChainInv, NoneBetweenRuns
<1>11. Successions' /\ NoneBetweenRuns'
  BY <1>10, NothingSucceeds
<1>12. AllApart(queries)'
  BY <1>8 DEF AllApart
<1> QED  BY <1>9, <1>11, <1>12 DEF ChainInv

\* Queries with the ids and types of the ones before are as far from the events.
LEMMA EventsStayApart ==
  ASSUME EventsApart, ev_queue' = ev_queue,
         \A r \in DOMAIN queries' : \E n \in DOMAIN queries : Alike(queries[n], queries'[r])
  PROVE  EventsApart'
<1>1. ASSUME NEW t \in DOMAIN ev_queue, NEW m \in DOMAIN ev_queue[t], NEW r \in DOMAIN queries'
      PROVE  IdsApart(ev_queue[t][m], queries'[r])
  <2>1. PICK n \in DOMAIN queries : Alike(queries[n], queries'[r])
    OBVIOUS
  <2>2. IdsApart(ev_queue[t][m], queries[n])
    BY DEF EventsApart, EachApart
  <2>3. Alike(ev_queue[t][m], ev_queue[t][m])
    BY DEF Alike
  <2> QED  BY <2>1, <2>2, <2>3, BothAlike
<1>2. \A t \in DOMAIN ev_queue' : EachApart(ev_queue[t], queries)'
  BY <1>1 DEF EachApart
<1> QED  BY <1>2 DEF EventsApart

\* Sorting changes nobody's distance.
LEMMA ChainStart ==
  ASSUME RadarInv, ChainInv, StartPlanning
  PROVE  ChainInv'
<1>1. queries' = SortedQueries(model_time) /\ new_queries' = << >> /\ removed_id' = {} /\ ev_queue' = ev_queue
  BY DEF StartPlanning, StartRun
<1>2. QueriesTyped(queries) /\ model_time \in Nat
  BY DEF RadarInv, TypeOK
<1>3. InSomeOrder(queries', DOMAIN queries)
  BY <1>1, <1>2, SortedPlaces
<1>4. AllApart(queries') /\ \A r \in DOMAIN queries' : \E n \in DOMAIN queries : queries'[r] = queries[n]
  BY <1>3, PickedApart DEF ChainInv
<1>5. EventsApart'
  BY <1>1, <1>4, EventsStayApart DEF ChainInv, Alike
<1>6. AllApart(queries)'
  BY <1>4 DEF AllApart
<1> QED  BY <1>1, <1>5, <1>6, NothingSucceeds DEF ChainInv

\* A turn of the run changes the times of queries, never their ids.
LEMMA TurnFacts ==
  ASSUME RadarInv, Plan
  PROVE  /\ turn \in DOMAIN queries /\ turn' = turn + 1 /\ ev_queue' = ev_queue /\ stage = "plan" /\ stage' = "plan"
         /\ DOMAIN queries' = DOMAIN queries /\ \A n \in DOMAIN queries : Alike(queries[n], queries'[n])
         /\ \/ new_queries' = new_queries /\ removed_id' = removed_id
            \/ /\ new_queries' = new_queries /\ removed_id' = removed_id \cup {queries[turn].id}
               /\ queries' = queries /\ queries[turn].type = "drop"
            \/ \E r : /\ new_queries' = new_queries \o << r >> /\ removed_id' = removed_id \cup {queries[turn].id}
                      /\ Chained(queries[turn]) /\ Chained(r) /\ Followed(r) = Followed(queries[turn])
<1>1. /\ stage = "plan" /\ stage' = "plan" /\ ev_queue' = ev_queue /\ Serve(model_time)
      /\ turn \in Nat \ {0} /\ model_time \in Nat /\ QueriesTyped(queries) /\ QueriesTyped(new_queries)
  BY DEF Plan, RadarInv, TypeOK, engineVars
<1>2. turn <= Len(queries) /\ turn' = turn + 1
  BY <1>1 DEF Serve, Skip, ServeScan, ServeDrop, ServeTechControl
<1>3. turn \in DOMAIN queries
  BY <1>1, <1>2, QueriesSeq
<1>4. queries[turn] \in Queries
  BY <1>1, <1>3, QueriesSeq
<1>5. ASSUME queries' = [queries EXCEPT ![turn].t_prev = model_time]
      PROVE  DOMAIN queries' = DOMAIN queries /\ \A n \in DOMAIN queries : Alike(queries[n], queries'[n])
  <2>1. queries[turn] \in [type : QueryTypes, id : Nat, t_prev : Nat, scan : ScanPairs]
    BY <1>4 DEF Queries
  <2>2. queries'[turn] = [queries[turn] EXCEPT !.t_prev = model_time]
    BY <1>3, <1>5
  <2>3. Alike(queries[turn], queries'[turn])
    BY <2>1, <2>2 DEF Alike
  <2>4. \A n \in DOMAIN queries : n # turn => queries'[n] = queries[n]
    BY <1>5
  <2> QED  BY <1>5, <2>3, <2>4 DEF Alike
<1>6. CASE Skip(model_time) \/ ServeTechControl(model_time)
  <2>1. /\ new_queries' = new_queries /\ removed_id' = removed_id
        /\ queries' = queries \/ queries' = [queries EXCEPT ![turn].t_prev = model_time]
    BY <1>6 DEF Skip, ServeTechControl
  <2> QED  BY <1>1, <1>2, <1>3, <1>5, <2>1 DEF Alike
<1>7. CASE ServeDrop(model_time)
  <2>1. /\ new_queries' = new_queries /\ removed_id' = removed_id \cup {queries[turn].id}
        /\ queries' = queries /\ queries[turn].type = "drop"
    BY <1>7 DEF ServeDrop
  <2> QED  BY <1>1, <1>2, <1>3, <2>1 DEF Alike
<1>8. CASE ServeScan(model_time)
  <2>1. CASE RangeCorrect(queries[turn].scan)
    <3>1. /\ queries' = [queries EXCEPT ![turn].t_prev = model_time]
          /\ removed_id' = removed_id \cup IF FollowUp(queries[turn], model_time) = << >> THEN {} ELSE {queries[turn].id}
          /\ new_queries' = new_queries \o FollowUp(queries[turn], model_time)
      BY <1>8, <2>1 DEF ServeScan
    <3>2. CASE FollowUp(queries[turn], model_time) = << >>
      <4>1. new_queries \o << >> = new_queries
        BY <1>1 DEF QueriesTyped
      <4>2. new_queries' = new_queries /\ removed_id' = removed_id
        BY <3>1, <3>2, <4>1
      <4> QED  BY <1>1, <1>2, <1>3, <1>5, <3>1, <4>2
    <3>3. CASE FollowUp(queries[turn], model_time) # << >>
      <4>1. PICK r : /\ FollowUp(queries[turn], model_time) = << r >> /\ Chained(r)
                     /\ Followed(r) = Followed(queries[turn]) /\ Chained(queries[turn])
        BY <1>1, <1>4, <3>3, FollowUpChained
      <4>2. new_queries' = new_queries \o << r >> /\ removed_id' = removed_id \cup {queries[turn].id}
        BY <3>1, <3>3, <4>1
      <4> QED  BY <1>1, <1>2, <1>3, <1>5, <3>1, <4>1, <4>2
    <3> QED  BY <3>2, <3>3
  <2>2. CASE ~RangeCorrect(queries[turn].scan)
    <3>1. new_queries' = new_queries /\ removed_id' = removed_id /\ queries' = queries
      BY <1>8, <2>2 DEF ServeScan
    <3> QED  BY <1>1, <1>2, <1>3, <3>1 DEF Alike
  <2> QED  BY <2>1, <2>2
<1> QED  BY <1>1, <1>6, <1>7, <1>8 DEF Serve

\* What was replaced or dropped stays so, and what replaced it.
LEMMA TurnKeeps ==
  ASSUME turn \in Nat, turn' = turn + 1, removed_id \subseteq removed_id',
         DOMAIN queries' = DOMAIN queries, \A n \in DOMAIN queries : Alike(queries[n], queries'[n]) /\ n \in Nat,
         DOMAIN new_queries \subseteq DOMAIN new_queries',
         \A k \in DOMAIN new_queries : new_queries'[k] = new_queries[k]
  PROVE  /\ \A k \in DOMAIN new_queries : Replaces(new_queries[k]) => Replaces(new_queries[k])'
         /\ \A id : DroppedOrReplaced(id) => DroppedOrReplaced(id)'
<1>1. \A n \in DOMAIN queries :
        /\ queries'[n].id = queries[n].id /\ queries'[n].type = queries[n].type
        /\ Chained(queries'[n]) <=> Chained(queries[n])
        /\ Followed(queries'[n]) = Followed(queries[n])
  BY DEF Alike, Chained, Followed
<1>2. ASSUME NEW k \in DOMAIN new_queries, Replaces(new_queries[k])
      PROVE  Replaces(new_queries[k])'
  <2>1. PICK m \in DOMAIN queries : /\ m < turn /\ Chained(queries[m]) /\ queries[m].id \in removed_id
                                    /\ Followed(queries[m]) = Followed(new_queries[k])
    BY <1>2 DEF Replaces
  <2>2. m < turn'
    <3>1. m \in Nat
      OBVIOUS
    <3> QED  BY <2>1, <3>1
  <2>3. /\ m \in DOMAIN queries' /\ Chained(queries'[m]) /\ queries'[m].id \in removed_id'
        /\ Followed(queries'[m]) = Followed(new_queries'[k])
    BY <1>1, <2>1
  <2> QED  BY <2>2, <2>3 DEF Replaces, Chained, Followed
<1>3. ASSUME NEW id, DroppedOrReplaced(id)
      PROVE  DroppedOrReplaced(id)'
  <2>1. CASE \E n \in DOMAIN queries : queries[n].type = "drop" /\ queries[n].id = id
    <3>1. \E n \in DOMAIN queries' : queries'[n].type = "drop" /\ queries'[n].id = id
      BY <1>1, <2>1
    <3> QED  BY <3>1 DEF DroppedOrReplaced
  <2>2. CASE ~\E n \in DOMAIN queries : queries[n].type = "drop" /\ queries[n].id = id
    <3>1. PICK m \in DOMAIN queries : Chained(queries[m]) /\ queries[m].id = id
                 /\ \E k \in DOMAIN new_queries : Followed(new_queries[k]) = Followed(queries[m])
      BY <1>3, <2>2 DEF DroppedOrReplaced
    <3>2. PICK k \in DOMAIN new_queries : Followed(new_queries[k]) = Followed(queries[m])
      BY <3>1
    <3>3. /\ m \in DOMAIN queries' /\ Chained(queries'[m]) /\ queries'[m].id = id
          /\ k \in DOMAIN new_queries' /\ Followed(new_queries'[k]) = Followed(queries'[m])
      BY <1>1, <3>1, <3>2
    <3> QED  BY <3>3 DEF DroppedOrReplaced, Chained, Followed
  <2> QED  BY <2>1, <2>2
<1> QED  BY <1>2, <1>3

\* A new query is as far from a query that is not removed as the one it replaces.
LEMMA ReplacementApart ==
  ASSUME QueriesTyped(queries), AllApart(queries), NEW r, Chained(r), Followed(r) \in Int, Replaces(r),
         NEW n \in DOMAIN queries, queries[n].id \notin removed_id \/ n >= turn, turn \in Nat
  PROVE  IdsApart(queries[n], r)
<1>1. PICK m \in DOMAIN queries :
        /\ m < turn /\ Chained(queries[m]) /\ queries[m].id \in removed_id
        /\ Followed(queries[m]) = Followed(r)
  BY DEF Replaces
<1>2. m # n
  <2>1. m \in Nat /\ n \in Nat
    BY QueriesSeq
  <2> QED  BY <1>1, <2>1
<1>3. IdsApart(queries[m], queries[n])
  BY <1>2 DEF AllApart
<1>4. IdsApart(r, queries[n])
  BY <1>1, <1>3, ApartInherited
<1>5. queries[n] \in Queries
  BY QueriesSeq
<1> QED  BY <1>4, <1>5, ApartSymmetric, FollowedTyped

LEMMA ChainPlan ==
  ASSUME RadarInv, ChainInv, Plan
  PROVE  ChainInv'
<1>1. QueriesTyped(queries) /\ QueriesTyped(new_queries) /\ turn \in Nat
  BY DEF RadarInv, TypeOK
<1>2. /\ turn \in DOMAIN queries /\ turn' = turn + 1 /\ ev_queue' = ev_queue /\ stage' = "plan"
      /\ DOMAIN queries' = DOMAIN queries /\ \A n \in DOMAIN queries : Alike(queries[n], queries'[n])
  BY TurnFacts
<1>3. AllApart(queries)'
  <2>1. \A m, n \in DOMAIN queries : m # n => IdsApart(queries'[m], queries'[n])
    BY <1>2, BothAlike DEF ChainInv, AllApart
  <2> QED  BY <1>2, <2>1 DEF AllApart
<1>4. EventsApart'
  BY <1>2, EventsStayApart DEF ChainInv
<1>5. NoneBetweenRuns'
  BY <1>2 DEF NoneBetweenRuns
<1>6. \A n \in DOMAIN queries : n \in Nat
  BY <1>1, QueriesSeq
<1>7. ASSUME new_queries' = new_queries, removed_id \subseteq removed_id',
             \A id \in removed_id' \ removed_id : DroppedOrReplaced(id)
      PROVE  Successions'
  <2>1. /\ \A k \in DOMAIN new_queries : Replaces(new_queries[k]) => Replaces(new_queries[k])'
        /\ \A id : DroppedOrReplaced(id) => DroppedOrReplaced(id)'
    BY <1>1, <1>2, <1>6, <1>7, TurnKeeps
  <2>2. \A id \in removed_id' : DroppedOrReplaced(id)'
    BY <1>7, <2>1 DEF ChainInv, Successions
  <2>3. AllApart(new_queries)'
    BY <1>7 DEF ChainInv, Successions, AllApart
  <2>4. \A k \in DOMAIN new_queries' : (Chained(new_queries[k]) /\ Replaces(new_queries[k]))'
    BY <1>7, <2>1 DEF ChainInv, Successions, Chained
  <2> QED  BY <2>2, <2>3, <2>4 DEF Successions
<1>8. ASSUME new_queries' = new_queries, removed_id' = removed_id
      PROVE  Successions'
  <2>1. removed_id \subseteq removed_id' /\ removed_id' \ removed_id = {}
    BY <1>8
  <2>2. \A id \in removed_id' \ removed_id : DroppedOrReplaced(id)
    BY <2>1
  <2> QED  BY <1>7, <1>8, <2>1, <2>2
<1>9. ASSUME new_queries' = new_queries, removed_id' = removed_id \cup {queries[turn].id},
             queries[turn].type = "drop"
      PROVE  Successions'
  <2>1. DroppedOrReplaced(queries[turn].id)
    BY <1>2, <1>9 DEF DroppedOrReplaced
  <2>2. removed_id \subseteq removed_id' /\ removed_id' \ removed_id \subseteq {queries[turn].id}
    BY <1>9
  <2>3. \A id \in removed_id' \ removed_id : DroppedOrReplaced(id)
    BY <2>1, <2>2
  <2> QED  BY <1>7, <1>9, <2>2, <2>3
<1>10. ASSUME NEW r, new_queries' = new_queries \o << r >>, removed_id' = removed_id \cup {queries[turn].id},
              Chained(queries[turn]), Chained(r), Followed(r) = Followed(queries[turn])
       PROVE  Successions'
  <2>1. PICK l \in Nat :
        /\ DOMAIN new_queries' = DOMAIN new_queries \cup {l} /\ l \notin DOMAIN new_queries
        /\ \A k \in DOMAIN new_queries : new_queries'[k] = new_queries[k]
        /\ new_queries'[l] = r
    <3> DEFINE l == Len(new_queries) + 1
    <3>1. /\ l \in Nat /\ DOMAIN new_queries' = DOMAIN new_queries \cup {l} /\ l \notin DOMAIN new_queries
          /\ \A k \in DOMAIN new_queries : new_queries'[k] = new_queries[k]
          /\ new_queries'[l] = r
      BY <1>1, <1>10 DEF QueriesTyped
    <3> HIDE DEF l
    <3> QED  BY <3>1
  <2>2. /\ \A k \in DOMAIN new_queries : Replaces(new_queries[k]) => Replaces(new_queries[k])'
        /\ \A id : DroppedOrReplaced(id) => DroppedOrReplaced(id)'
    BY <1>1, <1>2, <1>6, <1>10, <2>1, TurnKeeps
  <2>3. /\ queries'[turn].id = queries[turn].id /\ Chained(queries'[turn])
        /\ Followed(queries'[turn]) = Followed(r)
    BY <1>2, <1>10 DEF Alike, Chained, Followed
  <2>4. Replaces(new_queries[l])'
    <3>1. turn \in DOMAIN queries' /\ turn < turn' /\ queries'[turn].id \in removed_id'
      BY <1>1, <1>2, <1>10, <2>3
    <3> QED  BY <2>1, <2>3, <3>1 DEF Replaces, Chained, Followed
  <2>0. PICK i : i = queries[turn].id
    OBVIOUS
  <2>5. DroppedOrReplaced(i)'
    <3>1. l \in DOMAIN new_queries' /\ Followed(new_queries'[l]) = Followed(queries'[turn]) /\ turn \in DOMAIN queries'
      BY <1>2, <2>1, <2>3
    <3> QED  BY <2>0, <2>3, <3>1 DEF DroppedOrReplaced, Chained, Followed
  <2>6. \A id \in removed_id' : DroppedOrReplaced(id)'
    BY <1>10, <2>0, <2>2, <2>5 DEF ChainInv, Successions
  <2>7. \A k \in DOMAIN new_queries' : (Chained(new_queries[k]) /\ Replaces(new_queries[k]))'
    BY <1>10, <2>1, <2>2, <2>4 DEF ChainInv, Successions, Chained
  <2>8. ASSUME NEW k \in DOMAIN new_queries
        PROVE  IdsApart(new_queries[k], r) /\ IdsApart(r, new_queries[k])
    <3>0. Followed(new_queries[k]) \in Int /\ Followed(r) \in Int /\ queries[turn] \in Queries
      BY <1>1, <1>2, <1>10, QueriesSeq, FollowedTyped DEF ChainInv, Successions
    <3>1. Chained(new_queries[k]) /\ Replaces(new_queries[k])
      BY DEF ChainInv, Successions
    <3>2. IdsApart(queries[turn], new_queries[k])
      BY <1>1, <1>2, <3>0, <3>1, ReplacementApart DEF ChainInv
    <3>3. IdsApart(r, new_queries[k])
      BY <1>10, <3>2, ApartInherited
    <3> QED  BY <3>0, <3>3, ApartSymmetric
  <2>9. \A k, m \in DOMAIN new_queries : k # m => IdsApart(new_queries[k], new_queries[m])
    BY DEF ChainInv, Successions, AllApart
  <2>10. AllApart(new_queries')
    BY <2>1, <2>8, <2>9 DEF AllApart
  <2>11. AllApart(new_queries)'
    BY <2>10 DEF AllApart
  <2> QED  BY <2>6, <2>7, <2>11 DEF Successions
<1>11. Successions'
  BY <1>8, <1>9, <1>10, TurnFacts
<1> QED  BY <1>3, <1>4, <1>5, <1>11 DEF ChainInv

\* The end of a run puts the new queries in the places of those they replace.
LEMMA ChainFinish ==
  ASSUME RadarInv, ChainInv, FinishPlanning
  PROVE  ChainInv'
<1>1. /\ queries' = Remaining \o new_queries /\ removed_id' = {} /\ new_queries' = << >> /\ ev_queue' = ev_queue
  BY DEF FinishPlanning, EndRun
<1>2. QueriesTyped(queries) /\ QueriesTyped(new_queries) /\ turn \in Nat /\ QueriesTyped(Remaining)
  BY RemainingTyped DEF RadarInv, TypeOK
<1>3. Kept \in SUBSET DOMAIN queries /\ InSomeOrder(Remaining, Kept)
  BY <1>2, RemainingPlaces DEF Kept
<1>4. AllApart(Remaining) /\ \A r \in DOMAIN Remaining : \E n \in Kept : Remaining[r] = queries[n]
  BY <1>3, PickedApart DEF ChainInv
<1>5. \A k \in DOMAIN new_queries :
        Chained(new_queries[k]) /\ Replaces(new_queries[k]) /\ Followed(new_queries[k]) \in Int
  BY <1>2, QueriesSeq, FollowedTyped DEF ChainInv, Successions
<1>6. EachApart(Remaining, new_queries)
  <2> SUFFICES ASSUME NEW r \in DOMAIN Remaining, NEW k \in DOMAIN new_queries
               PROVE  IdsApart(Remaining[r], new_queries[k])
    BY DEF EachApart
  <2>1. PICK n \in Kept : Remaining[r] = queries[n]
    BY <1>4
  <2>2. n \in DOMAIN queries /\ queries[n].id \notin removed_id
    BY DEF Kept
  <2>3. IdsApart(queries[n], new_queries[k])
    BY <1>2, <1>5, <2>2, ReplacementApart DEF ChainInv
  <2> QED  BY <2>1, <2>3
<1>7. AllApart(queries')
  BY <1>1, <1>2, <1>4, <1>6, ConcatApart DEF ChainInv, Successions
<1>8. ASSUME NEW t \in DOMAIN ev_queue, NEW e \in DOMAIN ev_queue[t]  PROVE
        /\ \A r \in DOMAIN Remaining : IdsApart(ev_queue[t][e], Remaining[r])
        /\ \A k \in DOMAIN new_queries : IdsApart(ev_queue[t][e], new_queries[k])
  <2>1. \A n \in DOMAIN queries : IdsApart(ev_queue[t][e], queries[n])
    BY DEF ChainInv, EventsApart, EachApart
  <2>2. ASSUME NEW k \in DOMAIN new_queries  PROVE IdsApart(ev_queue[t][e], new_queries[k])
    <3>1. PICK m \in DOMAIN queries : Chained(queries[m]) /\ Followed(queries[m]) = Followed(new_queries[k])
      BY <1>5 DEF Replaces
    <3> QED  BY <1>5, <2>1, <3>1 DEF IdsApart, DropSparesUntracked, Chained, Chain
  <2> QED  BY <1>3, <1>4, <2>1, <2>2
<1>9. \A t \in DOMAIN ev_queue : EachApart(ev_queue[t], queries')
  BY <1>1, <1>2, <1>8, ConcatEachApart DEF EachApart
<1>10. EventsApart'
  <2>1. \A t \in DOMAIN ev_queue' : EachApart(ev_queue[t], queries)'
    BY <1>1, <1>9 DEF EachApart
  <2> QED  BY <1>1, <2>1 DEF ChainInv, EventsApart
<1>11. AllApart(queries)'
  BY <1>7 DEF AllApart
<1> QED  BY <1>1, <1>10, <1>11, NothingSucceeds DEF ChainInv

LEMMA ChainUnchanged ==
  ASSUME ChainInv, queries' = queries, turn' = turn, new_queries' = new_queries, removed_id' = removed_id,
         ev_queue' = ev_queue, stage = "plan" => stage' = "plan"
  PROVE  ChainInv'
<1>1. AllApart(queries)' /\ AllApart(new_queries)'
  BY DEF ChainInv, AllApart, Successions
<1>2. EventsApart'
  BY EventsStayApart DEF ChainInv, Alike
<1>3. Successions'
  BY <1>1 DEF ChainInv, Successions, Replaces, DroppedOrReplaced, Chained, Followed
<1>4. NoneBetweenRuns'
  BY DEF ChainInv, NoneBetweenRuns
<1> QED  BY <1>1, <1>2, <1>3, <1>4 DEF ChainInv

LEMMA ChainStep ==
  ASSUME RadarInv, ChainInv, [Next]_vars
  PROVE  ChainInv'
<1>1. CASE ExecuteEvents \/ StartPlanning \/ Plan \/ FinishPlanning
  BY <1>1, ChainEvents, ChainStart, ChainPlan, ChainFinish
<1>2. CASE Execute
  <2>1. /\ queries' = queries /\ turn' = turn /\ new_queries' = new_queries /\ removed_id' = removed_id
        /\ ev_queue' = ev_queue /\ stage = "execute"
    BY <1>2 DEF Execute, schedulerVars
  <2> QED  BY <2>1, ChainUnchanged
<1>3. CASE UNCHANGED vars
  <2>1. /\ queries' = queries /\ turn' = turn /\ new_queries' = new_queries /\ removed_id' = removed_id
        /\ ev_queue' = ev_queue /\ stage' = stage
    BY <1>3 DEF vars, schedulerVars, engineVars
  <2> QED  BY <2>1, ChainUnchanged
<1> QED  BY <1>1, <1>2, <1>3 DEF Next

\* In every reachable state the queries of different targets stay apart, and what a
\* run has removed is dropped or replaced by the next of its chain (Scheduler::run).
THEOREM ChainInvariant == Spec => []ChainInv
<1>1. Init => ChainInv
  BY ChainInit
<1>2. RadarInv /\ ChainInv /\ [Next]_vars => ChainInv'
  BY ChainStep
<1> QED  BY <1>1, <1>2, RadarInvariant, PTL DEF Spec

LEMMA TargetsOfMembers ==
  ASSUME NEW qs, NEW t
  PROVE  t \in TargetsOf(qs) <=> \E n \in DOMAIN qs : Chained(qs[n]) /\ Followed(qs[n]) = t
BY DEF TargetsOf, Chained

LEMMA TargetsOfConcat ==
  ASSUME NEW ps, NEW qs, QueriesTyped(ps), QueriesTyped(qs)
  PROVE  TargetsOf(ps \o qs) = TargetsOf(ps) \cup TargetsOf(qs)
<1>0. ps \in Seq(Queries) /\ qs \in Seq(Queries)
  BY DEF QueriesTyped
<1>1. ASSUME NEW t \in TargetsOf(ps \o qs)  PROVE t \in TargetsOf(ps) \cup TargetsOf(qs)
  <2>1. PICK m \in DOMAIN (ps \o qs) : Chained((ps \o qs)[m]) /\ Followed((ps \o qs)[m]) = t
    BY TargetsOfMembers
  <2>2. \/ m \in DOMAIN ps /\ (ps \o qs)[m] = ps[m]
        \/ m \notin DOMAIN ps /\ m - Len(ps) \in DOMAIN qs /\ (ps \o qs)[m] = qs[m - Len(ps)]
    BY ConcatMembers
  <2> QED  BY <2>1, <2>2, TargetsOfMembers
<1>2. ASSUME NEW t \in TargetsOf(ps)  PROVE t \in TargetsOf(ps \o qs)
  <2>1. PICK m \in DOMAIN ps : Chained(ps[m]) /\ Followed(ps[m]) = t
    BY TargetsOfMembers
  <2>2. m \in DOMAIN (ps \o qs) /\ (ps \o qs)[m] = ps[m]
    BY <1>0
  <2> QED  BY <2>1, <2>2, TargetsOfMembers
<1>3. ASSUME NEW t \in TargetsOf(qs)  PROVE t \in TargetsOf(ps \o qs)
  <2>1. PICK m \in DOMAIN qs : Chained(qs[m]) /\ Followed(qs[m]) = t
    BY TargetsOfMembers
  <2>2. m + Len(ps) \in DOMAIN (ps \o qs) /\ (ps \o qs)[m + Len(ps)] = qs[m]
    BY <1>0
  <2> QED  BY <2>1, <2>2, TargetsOfMembers
<1> QED  BY <1>1, <1>2, <1>3

\* Lists whose queries follow the same targets.
LEMMA TargetsAlike ==
  ASSUME NEW ps, NEW qs, \A m \in DOMAIN ps : \E n \in DOMAIN qs : Alike(ps[m], qs[n])
  PROVE  TargetsOf(ps) \subseteq TargetsOf(qs)
<1> SUFFICES ASSUME NEW t \in TargetsOf(ps)  PROVE t \in TargetsOf(qs)
  OBVIOUS
<1>1. PICK m \in DOMAIN ps : Chained(ps[m]) /\ Followed(ps[m]) = t
  BY TargetsOfMembers
<1>2. PICK n \in DOMAIN qs : Alike(ps[m], qs[n])
  OBVIOUS
<1>3. Chained(qs[n]) /\ Followed(qs[n]) = t
  BY <1>1, <1>2 DEF Alike, Chained, Followed
<1> QED  BY <1>3, TargetsOfMembers

LostToDrops ==
  \A t \in TargetsOf(queries \o new_queries) \ TargetsOf(queries' \o new_queries') :
    \E n \in DOMAIN queries : queries[n].type = "drop" /\ queries[n].id = t + 2

\* The end of a run loses no target but those dropped.
LEMMA FinishKeeps ==
  ASSUME RadarInv, ChainInv, FinishPlanning, NEW t \in TargetsOf(queries \o new_queries)
  PROVE  \/ t \in TargetsOf(queries' \o new_queries')
         \/ \E n \in DOMAIN queries : queries[n].type = "drop" /\ queries[n].id = t + 2
<1>1. queries' = Remaining \o new_queries /\ new_queries' = << >>
  BY DEF FinishPlanning, EndRun
<1>2. QueriesTyped(queries) /\ QueriesTyped(new_queries) /\ QueriesTyped(Remaining)
  BY RemainingTyped DEF RadarInv, TypeOK
<1>3. TargetsOf(queries' \o new_queries') = TargetsOf(Remaining) \cup TargetsOf(new_queries)
  <2>1. queries' \o << >> = queries'
    BY <1>1, <1>2, ConcatTyped DEF QueriesTyped
  <2> QED  BY <1>1, <1>2, <2>1, TargetsOfConcat
<1>4. CASE t \in TargetsOf(new_queries)
  BY <1>3, <1>4
<1>5. CASE t \in TargetsOf(queries)
  <2>1. PICK m \in DOMAIN queries : Chained(queries[m]) /\ Followed(queries[m]) = t
    BY <1>5, TargetsOfMembers
  <2>2. CASE queries[m].id \notin removed_id
    <3>1. m \in Kept /\ Kept \in SUBSET DOMAIN queries
      BY <2>1, <2>2 DEF Kept
    <3>2. PICK r \in DOMAIN Remaining : Remaining[r] = queries[m]
      BY <1>2, <3>1, RemainingPlaces, EachPicked
    <3>3. t \in TargetsOf(Remaining)
      BY <2>1, <3>2, TargetsOfMembers
    <3> QED  BY <1>3, <3>3
  <2>3. CASE queries[m].id \in removed_id
    <3>0. queries[m] \in Queries
      BY <1>2, QueriesSeq
    <3>1. DroppedOrReplaced(queries[m].id)
      BY <2>3 DEF ChainInv, Successions
    <3>2. CASE \E n \in DOMAIN queries : queries[n].type = "drop" /\ queries[n].id = queries[m].id
      <4>1. PICK n \in DOMAIN queries : queries[n].type = "drop" /\ queries[n].id = queries[m].id
        BY <3>2
      <4>2. n # m
        BY <2>1, <4>1 DEF Chained, Chain
      <4>3. IdsApart(queries[n], queries[m]) /\ queries[n] \in Queries
        BY <1>2, <4>2, QueriesSeq DEF ChainInv, AllApart
      <4>4. queries[n].id = t + 2
        BY <2>1, <3>0, <4>1, <4>3, DropNamesTracking
      <4> QED  BY <4>1, <4>4
    <3>3. CASE \E l \in DOMAIN queries :
                 /\ Chained(queries[l]) /\ queries[l].id = queries[m].id
                 /\ \E k \in DOMAIN new_queries : Followed(new_queries[k]) = Followed(queries[l])
      <4>1. PICK l \in DOMAIN queries :
                 /\ Chained(queries[l]) /\ queries[l].id = queries[m].id
                 /\ \E k \in DOMAIN new_queries : Followed(new_queries[k]) = Followed(queries[l])
        BY <3>3
      <4>2. l = m
        <5>1. queries[l] \in Queries
          BY <1>2, QueriesSeq
        <5>2. l # m => IdsApart(queries[l], queries[m])
          BY DEF ChainInv, AllApart
        <5> QED  BY <2>1, <3>0, <4>1, <5>1, <5>2, IdsDiffer
      <4>3. PICK k \in DOMAIN new_queries : Followed(new_queries[k]) = t
        BY <2>1, <4>1, <4>2
      <4>4. Chained(new_queries[k])
        BY DEF ChainInv, Successions
      <4>5. t \in TargetsOf(new_queries)
        BY <4>3, <4>4, TargetsOfMembers
      <4> QED  BY <1>3, <4>5
    <3> QED  BY <3>1, <3>2, <3>3 DEF DroppedOrReplaced
  <2> QED  BY <2>2, <2>3
<1> QED  BY <1>2, <1>4, <1>5, TargetsOfConcat

LEMMA KeptStep ==
  ASSUME RadarInv, ChainInv, [Next]_vars
  PROVE  LostToDrops
<1>0. QueriesTyped(queries) /\ QueriesTyped(new_queries) /\ model_time \in Nat
  BY DEF RadarInv, TypeOK
<1>1. QueriesTyped(queries') /\ QueriesTyped(new_queries')
  <2>1. RadarInv'
    BY InvStep
  <2>2. QueriesTyped(queries)' /\ QueriesTyped(new_queries)'
    BY <2>1 DEF RadarInv, TypeOK
  <2> QED  BY <2>2 DEF QueriesTyped
<1>2. /\ TargetsOf(queries \o new_queries) = TargetsOf(queries) \cup TargetsOf(new_queries)
      /\ TargetsOf(queries' \o new_queries') = TargetsOf(queries') \cup TargetsOf(new_queries')
  BY <1>0, <1>1, TargetsOfConcat
<1>3. ASSUME TargetsOf(queries) \subseteq TargetsOf(queries'), TargetsOf(new_queries) \subseteq TargetsOf(new_queries')
      PROVE  LostToDrops
  BY <1>2, <1>3 DEF LostToDrops
<1>4. CASE ExecuteEvents
  <2>1. PICK t \in get_events(model_time) : queries' = queries \o Created(t)
    BY <1>4 DEF ExecuteEvents
  <2>2. QueriesTyped(Created(t)) /\ new_queries' = new_queries
    BY <1>4, CreatedTyped DEF ExecuteEvents, get_events, RadarInv, TypeOK
  <2>3. TargetsOf(queries') = TargetsOf(queries) \cup TargetsOf(Created(t))
    BY <1>0, <2>1, <2>2, TargetsOfConcat
  <2> QED  BY <1>3, <2>2, <2>3
<1>5. CASE StartPlanning
  <2>1. /\ stage = "events" /\ queries' = SortedQueries(model_time) /\ new_queries' = << >>
    BY <1>5 DEF StartPlanning, StartRun
  <2>2. new_queries = << >>
    BY <2>1 DEF ChainInv, NoneBetweenRuns
  <2>3. InSomeOrder(queries', DOMAIN queries)
    BY <1>0, <2>1, SortedPlaces
  <2>4. \A n \in DOMAIN queries : \E r \in DOMAIN queries' : queries'[r] = queries[n]
    BY <2>3, EachPicked
  <2>5. \A n \in DOMAIN queries : \E r \in DOMAIN queries' : Alike(queries[n], queries'[r])
    BY <2>4 DEF Alike
  <2>6. TargetsOf(queries) \subseteq TargetsOf(queries')
    BY <2>5, TargetsAlike
  <2> QED  BY <1>3, <2>1, <2>2, <2>6
<1>6. CASE Plan
  <2>1. /\ DOMAIN queries' = DOMAIN queries /\ \A n \in DOMAIN queries : Alike(queries[n], queries'[n])
        /\ new_queries' = new_queries \/ \E r : new_queries' = new_queries \o << r >>
    BY <1>6, TurnFacts
  <2>2. TargetsOf(queries) \subseteq TargetsOf(queries')
    BY <2>1, TargetsAlike
  <2>3. \A k \in DOMAIN new_queries : k \in DOMAIN new_queries' /\ new_queries'[k] = new_queries[k]
    <3>1. new_queries \in Seq(Queries)
      BY <1>0 DEF QueriesTyped
    <3>2. ASSUME NEW r  PROVE \A k \in DOMAIN new_queries :
                                k \in DOMAIN (new_queries \o << r >>) /\ (new_queries \o << r >>)[k] = new_queries[k]
      BY <3>1
    <3> QED  BY <2>1, <3>2
  <2>4. TargetsOf(new_queries) \subseteq TargetsOf(new_queries')
    BY <2>3, TargetsAlike DEF Alike
  <2> QED  BY <1>3, <2>2, <2>4
<1>7. CASE FinishPlanning
  BY <1>7, FinishKeeps DEF LostToDrops
<1>8. CASE Execute \/ UNCHANGED vars
  <2>1. queries' = queries /\ new_queries' = new_queries
    BY <1>8 DEF Execute, vars, schedulerVars
  <2> QED  BY <1>3, <2>1
<1> QED  BY <1>4, <1>5, <1>6, <1>7, <1>8 DEF Next

LEMMA OneQueryHolds ==
  ASSUME RadarInv, ChainInv
  PROVE  OneQueryPerTarget
<1> SUFFICES ASSUME NEW m \in DOMAIN queries, NEW n \in DOMAIN queries, m # n,
                    Chained(queries[m]), Chained(queries[n])
             PROVE  TargetsOf(<<queries[m]>>) # TargetsOf(<<queries[n]>>)
  BY DEF OneQueryPerTarget, Chained
<1>1. queries[m] \in Queries /\ queries[n] \in Queries
  BY QueriesSeq DEF RadarInv, TypeOK
<1>2. IdsApart(queries[m], queries[n])
  BY DEF ChainInv, AllApart
<1>3. Followed(queries[m]) # Followed(queries[n])
  BY <1>1, <1>2, IdsDiffer
<1>4. ASSUME NEW q, Chained(q)  PROVE \A t : t \in TargetsOf(<<q>>) <=> t = Followed(q)
  <2>1. DOMAIN <<q>> = {1} /\ <<q>>[1] = q
    OBVIOUS
  <2> QED  BY <1>4, <2>1, TargetsOfMembers
<1> QED  BY <1>3, <1>4

\* A detected target is followed, by one query at a time, until a drop query for its
\* tracking is there to be served (Scheduler::run: removed_id, new_queries, remove_query).
THEOREM FollowedUntilDropped == Spec => TargetsKept
<1>1. RadarInv /\ ChainInv => OneQueryPerTarget
  BY OneQueryHolds
<1>2. RadarInv /\ ChainInv /\ [Next]_vars => [LostToDrops]_vars
  BY KeptStep
<1>3. Spec => [][LostToDrops]_vars
  BY <1>2, RadarInvariant, ChainInvariant, PTL DEF Spec
<1>4. Spec => []OneQueryPerTarget
  BY <1>1, RadarInvariant, ChainInvariant, PTL
<1> QED  BY <1>3, <1>4 DEF TargetsKept, LostToDrops

==============================================================================
