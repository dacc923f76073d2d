------------------------------ MODULE Timeline ------------------------------
(***************************************************************************)
(* What class Timeline of the scheduler promises: a label for each         *)
(* discrete of time from the present on.  A timeline is a function from    *)
(* the labelled discretes, counted from the start of the simulation, to    *)
(* their labels; base is the discrete the present starts with and idx, as  *)
(* in the code, counts from base.                                          *)
(***************************************************************************)
EXTENDS Settings

Labels == {"tll_dcu_receive", "tll_dcu_transmit", "tll_au_rephase",
           "tll_au_command_delay", "tll_dcu_energy_restore"}

get_value_at(t, base, idx) == IF base + idx \in DOMAIN t THEN t[base + idx] ELSE "tll_empty"

\* A time on the border of two discretes is counted to the one after.  Times are
\* unsigned in the code: a negative one wraps to one that is out of range.
get_idx_for(time) ==
  IF time \notin 0 .. timeline_depth * time_chunk_length THEN -1
  ELSE time \div time_chunk_length + IF time % time_chunk_length = 0 THEN 1 ELSE 0

check_index(t, base, length, idx, allowed) ==
  /\ idx \in 0 .. timeline_depth - length
  /\ \A offset \in 0 .. length - 1 : get_value_at(t, base, idx + offset) \in allowed

\* A sector of a timeline, from one time to another, both counted from base.
Sector(from, to, label) ==
  [first |-> get_idx_for(from), last |-> get_idx_for(to), label |-> label]

Covers(s, base, i) == base + s.first <= i /\ i <= base + s.last

\* label_sector called for each of the sectors: of two that overlap the later one stays.
LabelSectors(t, base, sectors) ==
  LET labelled == UNION {base + sectors[n].first .. base + sectors[n].last : n \in DOMAIN sectors}
      Last(i)  == CHOOSE n \in DOMAIN sectors :
                    /\ Covers(sectors[n], base, i)
                    /\ \A m \in DOMAIN sectors : Covers(sectors[m], base, i) => m <= n
  IN [i \in DOMAIN t \cup labelled |-> IF i \in labelled THEN sectors[Last(i)].label ELSE t[i]]

\* The discretes before the new base are given up.
move_timeline(t, base) == [i \in {j \in DOMAIN t : j >= base} |-> t[i]]
=============================================================================
