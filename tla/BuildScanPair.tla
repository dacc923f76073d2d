--------------------------- MODULE BuildScanPair ----------------------------
(***************************************************************************)
(* build_scan_pair of the radar model: the probing signal for a target     *)
(* from the sounding time tau its range and cross-section ask for, the     *)
(* delay of its echo and the type of query.  Times are in nanoseconds; tau *)
(* and the delay are taken after their conversion from floating point.     *)
(***************************************************************************)
EXTENDS Settings

CONSTANTS Taus, Delays   \* sounding times and echo delays, ns

ASSUME SoundingAssumption == Taus \subseteq Nat \ {0} /\ Delays \subseteq Nat

VARIABLES query, pair
soundingVars == <<query, pair>>

Scanned == {"search", "confirm", "capture", "tracking"}

\* What the code gives up with: one pulse of no length, never received.
ScanPair == [size |-> 1, length |-> 0, period |-> 0, receive_time |-> 0]

\* The classes of tau, each up to its bound, and the signals of a class.
Bounds == << 100, 1000, 8000, 15000, 30000, 60000, 120000 >>
DetectionSignals == << "SOTS15", "SOTS12", "SOTS11", "SOTS10", "SOTS9", "SOTS8", "SOTS7", "SOTS6" >>
TrackingSignals == << "SOTS15", "SOTS14", "SOTS13", "SOTS5", "SOTS4", "SOTS3", "SOTS2", "SOTS1" >>

Class(tau) == Cardinality({n \in DOMAIN Bounds : tau > Bounds[n]}) + 1

\* Mutant: a tracked target is given the signal of the class above.
get_signal_code_shifted(tau, type) ==
  IF type = "tracking" THEN TrackingSignals[IF tau > 100000 THEN 8 ELSE Class(tau)]
  ELSE DetectionSignals[Class(tau)]

get_signal_code(tau, type) ==
  IF type = "tracking" THEN TrackingSignals[Class(tau)] ELSE DetectionSignals[Class(tau)]

\* A row of the table: what create_scan_pair uses of it.
Signal(duration, period_low, pulses) ==
  [duration |-> duration, period_low |-> period_low, period_high |-> 2300000, pulses |-> 1 .. pulses]

signal_tbl ==
  [ SOTS1  |-> Signal(240000, 1920000, 16), SOTS2  |-> Signal(120000, 960000, 16),
    SOTS3  |-> Signal(60000, 480000, 16),   SOTS4  |-> Signal(30000, 240000, 16),
    SOTS5  |-> Signal(15000, 120000, 16),   SOTS6  |-> Signal(240000, 1920000, 16),
    SOTS7  |-> Signal(120000, 960000, 16),  SOTS8  |-> Signal(60000, 480000, 16),
    SOTS9  |-> Signal(30000, 240000, 16),   SOTS10 |-> Signal(15000, 120000, 16),
    SOTS11 |-> Signal(8000, 64000, 16),     SOTS12 |-> Signal(1000, 8000, 16),
    SOTS13 |-> Signal(8000, 64000, 16),     SOTS14 |-> Signal(1000, 8000, 16),
    SOTS15 |-> Signal(100, 1000, 1) ]

\* The least power of two that is at least n.
PulsesFor(n) == CHOOSE size \in {1, 2, 4, 8, 16} : size >= n /\ \A m \in {1, 2, 4, 8, 16} : m >= n => size <= m

\* A train longer than the delay of its echo leaves the time of reception zero.
set_receive_time(size, length, delay) ==
  IF size > 1 /\ size * length * duty_factor > delay THEN 0 ELSE multiples_of(delay, frequency_factor)

\* Mutant: a train of one pulse too few.
create_scan_pair_short(signal, tau, delay) ==
  LET length == multiples_of(signal.duration, frequency_factor)
      size   == PulsesFor(IF tau < 240000 THEN 1 ELSE tau \div 240000)
  IN [size |-> size, length |-> length,
      period |-> multiples_of(signal.duration * duty_factor, frequency_factor),
      receive_time |-> set_receive_time(size, length, delay)]

create_scan_pair(signal, tau, delay) ==
  LET n == tau \div 240000 + 1
      T_transmit == signal.duration * duty_factor
      length == multiples_of(signal.duration, frequency_factor)
  IN IF n \in signal.pulses /\ T_transmit \in signal.period_low .. signal.period_high
     THEN [size |-> PulsesFor(n), length |-> length,
           period |-> multiples_of(T_transmit, frequency_factor),
           receive_time |-> set_receive_time(PulsesFor(n), length, delay)]
     ELSE ScanPair

build_scan_pair(q) == create_scan_pair(signal_tbl[get_signal_code(q.tau, q.type)], q.tau, q.delay)

SoundingQueries == [tau : Taus, delay : Delays, type : Scanned]

SoundingInit == query \in SoundingQueries /\ pair = build_scan_pair(query)

\* The scheduler asks for another target's scan.
Build == query' \in SoundingQueries /\ pair' = build_scan_pair(query')

SoundingSpec == SoundingInit /\ [][Build]_soundingVars

-----------------------------------------------------------------------------
\* The pulses of a signal that is built last the sounding time at least, and
\* half as many would not, with one exception: at a whole multiple of 240 us the
\* code takes a pulse more than it needs, and with it up to twice the pulses
\* (trunc(tau / 240000 + 1) of create_scan_pair, the constructor of ScanPair).
SoundingTimeReached ==
  pair # ScanPair =>
    LET half == (pair.size \div 2) * pair.length IN
    /\ pair.size * pair.length >= query.tau
    /\ pair.size > 1 => half < query.tau \/ (half = query.tau /\ query.tau % 240000 = 0)

\* A query is sounded alike while it is a detection and once it is tracked: the
\* capture of a target asks for what tracking will ask for (both signal lists).
TrackedAsCaptured ==
  pair = build_scan_pair([query EXCEPT !.type = IF @ = "tracking" THEN "capture" ELSE "tracking"])

=============================================================================
