---------------------------- MODULE TimelineRing ----------------------------
(***************************************************************************)
(* Class Timeline as it is: an array used as a ring, the discrete of the   *)
(* present at start_idx.  Time moves by whole discretes, as the steps of   *)
(* the simulation are.                                                     *)
(***************************************************************************)
EXTENDS Settings

CONSTANT last_time   \* bound of time, in discretes, for model checking

ASSUME RingAssumption == last_time \in Nat

Lines == INSTANCE Timeline

VARIABLES timeline, start_idx, start_time   \* start_time in discretes
vars == <<timeline, start_idx, start_time>>

Init ==
  /\ timeline = [i \in 0 .. timeline_depth - 1 |-> "tll_empty"]
  /\ start_idx = 0 /\ start_time = 0

\* The place get_value_at refers to.
Slot(idx) == (start_idx + idx) % timeline_depth

get_value_at(idx) == timeline[Slot(idx)]

\* Indices are within the timeline's depth, as those of every placed scan.
label_sector(start, stop, label) ==
  /\ timeline' = [i \in 0 .. timeline_depth - 1 |->
                    IF \E idx \in start .. stop : i = Slot(idx) THEN label ELSE timeline[i]]
  /\ UNCHANGED <<start_idx, start_time>>

\* Mutant: what time has passed is not emptied.
move_timeline_kept(time) ==
  /\ start_time' = time
  /\ start_idx' = (start_idx + time - start_time) % timeline_depth
  /\ UNCHANGED timeline

\* What has passed is emptied and the present moves on.
move_timeline(time) ==
  /\ start_time' = time
  /\ timeline' = [i \in 0 .. timeline_depth - 1 |->
                    IF \E offset \in 0 .. time - start_time - 1 : i = Slot(offset)
                    THEN "tll_empty" ELSE timeline[i]]
  /\ start_idx' = (start_idx + time - start_time) % timeline_depth

Next ==
  \/ \E start, stop \in 0 .. timeline_depth - 1, label \in Lines!Labels :
       start <= stop /\ label_sector(start, stop, label)
  \/ \E time \in start_time .. last_time : move_timeline(time)

Spec == Init /\ [][Next]_vars

TypeOK ==
  /\ timeline \in [0 .. timeline_depth - 1 -> Lines!Labels \cup {"tll_empty"}]
  /\ start_idx \in 0 .. timeline_depth - 1
  /\ start_time \in 0 .. last_time

-----------------------------------------------------------------------------
\* The labels of the ring, by the discretes of time they are for.
LabelAt(t) == get_value_at(t - start_time)
Labelled == {t \in start_time .. start_time + timeline_depth - 1 : LabelAt(t) # "tll_empty"}

Promise == INSTANCE TimelineSpec WITH labels <- [t \in Labelled |-> LabelAt(t)], base <- start_time

\* The ring keeps what a timeline promises: however often it wraps around, a
\* label stays with its discrete of time until that has passed, and no label of
\* the past comes back at the far end (get_value_at, move_timeline).
RingKeepsLabels == Promise!TimelinePromise
=============================================================================
