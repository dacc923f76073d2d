------------------------------ MODULE Settings ------------------------------
(***************************************************************************)
(* The settings of the radar scheduler model (Settings.h, Utility.h).      *)
(* Times are whole numbers of a unit the instance chooses; with a unit of  *)
(* 100 ns every setting of the code is a whole number.                     *)
(***************************************************************************)
EXTENDS Integers, Sequences, FiniteSets

CONSTANTS
  time_chunk_length,    \* one discrete of a timeline
  timeline_depth,       \* discretes of a timeline
  planning_step,        \* discretes of one scheduling step
  pulse_planning_depth, pulse_train_planning_depth,   \* in scheduling steps
  phase_delay, au_command_delay, blank_delay, frequency_delay,
  channel_switch_delay, reserve_time,
  duty_factor, frequency_factor,
  second,               \* units of time in a second
  speed, threshold      \* growth and threshold of the priority, per query type

QueryTypes == {"search", "confirm", "capture", "tracking", "tech_control", "drop"}

ASSUME SettingsAssumption ==
  /\ {time_chunk_length, timeline_depth, planning_step, pulse_planning_depth,
      pulse_train_planning_depth, phase_delay, au_command_delay, blank_delay, frequency_delay,
      channel_switch_delay, reserve_time, duty_factor, frequency_factor, second} \subseteq Nat \ {0}
  /\ speed \in [QueryTypes -> Nat] /\ threshold \in [QueryTypes -> Nat]
  /\ phase_delay <= au_command_delay
  \* A rephasing takes no longer than a step and no less than what surrounds a pulse,
  \* which takes a discrete.
  /\ phase_delay <= planning_step * time_chunk_length
  /\ blank_delay + frequency_delay + reserve_time \in time_chunk_length .. phase_delay
  /\ channel_switch_delay <= phase_delay
  \* The blanking after a pulse makes up for the second switch of frequencies.
  /\ frequency_delay <= blank_delay

\* Rounding up, to a multiple or to a number of discretes.
multiples_of(v, n) == ((v + n - 1) \div n) * n
Discretes(v) == (v + time_chunk_length - 1) \div time_chunk_length

\* A scan pair: size pulses of the given length, one every period, received
\* receive_time after they are sent.
ScanPairs == [size : {1, 2, 4, 8, 16}, length : Nat, period : Nat, receive_time : Nat]

TimeStep == planning_step * time_chunk_length
=============================================================================
