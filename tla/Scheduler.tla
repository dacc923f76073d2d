----------------------------- MODULE Scheduler ------------------------------
(***************************************************************************)
(* Class Scheduler of the radar model: placing scan pairs on the timelines *)
(* of the digital converter unit (dcu) and of the transmitting and         *)
(* receiving antenna units (tr_au, rs_au), and one run over the queries.   *)
(* A run is a loop over the sorted queries; each turn of the loop is a     *)
(* step.  All queries are active, as every one the program creates.        *)
(***************************************************************************)
EXTENDS Timeline

VARIABLES
  dcu_timeline, tr_au_timeline, rs_au_timeline,
  queries,       \* the vector of queries, sorted by priority
  turn,          \* the next query of this run
  ret,           \* commands this run has planned
  removed_id, new_queries

timelines == <<dcu_timeline, tr_au_timeline, rs_au_timeline>>
schedulerVars == <<timelines, queries, turn, ret, removed_id, new_queries>>

SchedulerInit ==
  /\ dcu_timeline = << >> /\ tr_au_timeline = << >> /\ rs_au_timeline = << >>
  /\ queries = << >> /\ turn = 1
  /\ ret = {} /\ removed_id = {} /\ new_queries = << >>

Base(time) == time \div time_chunk_length

-----------------------------------------------------------------------------
(* place_scan and find_index *)

depth(s) == planning_step * IF s.size = 1 THEN pulse_planning_depth ELSE pulse_train_planning_depth

period_time(s) == IF s.size = 1 THEN 0 ELSE s.period

transmit_len(s) ==
  LET pulses == IF s.size = 1 THEN s.length * duty_factor ELSE s.period * s.size
  IN multiples_of(pulses + 2 * frequency_delay + blank_delay + reserve_time, frequency_factor)

receive_len(s) ==
  multiples_of((IF s.size = 1 THEN s.length ELSE s.period * s.size) + reserve_time, frequency_factor)

range_offset_len(s) == multiples_of(s.receive_time - phase_delay - reserve_time, frequency_factor)

\* Mutants: only the antenna's timeline is looked at; only the converter's.
FitsAntenna(s, base, idx) ==
  \A i \in idx - Discretes(phase_delay) .. idx : get_value_at(tr_au_timeline, base, i) = "tll_empty"

FitsConverter(s, base, idx) ==
  /\ \A i \in idx .. idx + Discretes(transmit_len(s)) : get_value_at(dcu_timeline, base, i) = "tll_empty"
  /\ check_index(dcu_timeline, base, Discretes(receive_len(s)),
                 get_idx_for(idx * time_chunk_length + range_offset_len(s)),
                 {"tll_empty", "tll_dcu_energy_restore"})

\* Index idx of the timelines is free for the transmission and the rephasing
\* before it, and the places looked at for the reception are free as well.
Fits(s, base, idx) ==
  LET rs_start == idx * time_chunk_length + range_offset_len(s) IN
  /\ \A i \in idx .. idx + Discretes(transmit_len(s)) :
       get_value_at(dcu_timeline, base, i) = "tll_empty"
  /\ \A i \in idx - Discretes(phase_delay) .. idx :
       get_value_at(tr_au_timeline, base, i) = "tll_empty"
  /\ check_index(dcu_timeline, base, Discretes(receive_len(s)), get_idx_for(rs_start),
                 {"tll_empty", "tll_dcu_energy_restore"})
  /\ check_index(rs_au_timeline, base, Discretes(phase_delay), get_idx_for(rs_start - phase_delay),
                 {"tll_empty"})

\* The first index that fits, none being -1.
find_index(s, base) ==
  LET range == Discretes(phase_delay) .. depth(s) - 1 - Discretes(transmit_len(s)) IN
  IF \E idx \in range : Fits(s, base, idx)
  THEN CHOOSE idx \in range : Fits(s, base, idx) /\ \A j \in range : j < idx => ~Fits(s, base, j)
  ELSE -1

\* The sectors labelled for a scan that starts to transmit at relative time T.
tr_au_sectors(T) ==
  << Sector(T - phase_delay, T, "tll_au_rephase"),
     Sector(T, T + au_command_delay - phase_delay, "tll_au_command_delay") >>

rs_au_sectors(T, s) ==
  LET rephase == T + range_offset_len(s) IN
  << Sector(rephase, rephase + phase_delay, "tll_au_rephase"),
     Sector(rephase + phase_delay, rephase + au_command_delay, "tll_au_command_delay") >>

\* Mutant: every pulse of a train is labelled where the first one is.
dcu_sectors_of_one_pulse(T, s) ==
  LET guard == blank_delay + frequency_delay + reserve_time
      reception == T + range_offset_len(s) + phase_delay
  IN << Sector(T, T + guard + s.length + blank_delay, "tll_dcu_transmit"),
        Sector(T + guard + s.length + blank_delay, T + guard + duty_factor * s.length + blank_delay,
               "tll_dcu_energy_restore"),
        Sector(reception, reception + reserve_time + s.length, "tll_dcu_receive") >>

dcu_sectors(T, s) ==
  LET guard == blank_delay + frequency_delay + reserve_time
      Start(n) == T + guard + ((n - 1) \div 2) * period_time(s)
      Stop(n)  == Start(n) + s.length + blank_delay
      reception == T + range_offset_len(s) + phase_delay
      Received(n) == reception + reserve_time + (n - 1) * period_time(s)
  IN << Sector(T, T + guard, "tll_dcu_transmit") >>
     \o [n \in 1 .. 2 * s.size |->
           IF n % 2 = 1
           THEN Sector(Start(n), Stop(n), "tll_dcu_transmit")
           ELSE Sector(Stop(n), Stop(n) + (duty_factor - 1) * s.length, "tll_dcu_energy_restore")]
     \o << Sector(reception, reception + reserve_time, "tll_dcu_receive") >>
     \o [n \in 1 .. s.size |-> Sector(Received(n), Received(n) + s.length, "tll_dcu_receive")]

Command(type, ref, exec, len, id) ==
  [type |-> type, ref |-> ref, exec |-> exec, len |-> len, id |-> id]

transmit_exec_time(rephase) == rephase + phase_delay
receive_exec_time(rephase, s) ==
  transmit_exec_time(rephase) + range_offset_len(s) + reserve_time + phase_delay

\* The commands of a scan whose transmitter is rephased at time rephase.
scan_commands(s, id, rephase) ==
  LET transmit == transmit_exec_time(rephase)
      receive  == receive_exec_time(rephase, s)
      protect  == receive - channel_switch_delay
  IN { Command("transmit", transmit - reserve_time - blank_delay - frequency_delay, transmit,
               transmit_len(s), id),
       Command("tr_rephase", rephase, rephase, phase_delay, id),
       Command("protect", protect, protect, channel_switch_delay, id),
       Command("rs_rephase", receive - phase_delay, receive - phase_delay, phase_delay, id),
       Command("receive", receive - reserve_time, receive, receive_len(s), id) }

\* Otherwise "range offset is not correct": the labels are set and nothing is
\* planned.  A range offset below zero has wrapped around in 32 bits and is added
\* in 64, so it never is.
RangeCorrect(s) ==
  /\ range_offset_len(s) >= 0
  /\ receive_exec_time(0, s) - transmit_exec_time(0) = multiples_of(s.receive_time, frequency_factor)

\* place_scan found index idx: what it labels.
LabelScan(s, time, idx) ==
  LET T == idx * time_chunk_length
      base == Base(time)
  IN /\ dcu_timeline' = LabelSectors(dcu_timeline, base, dcu_sectors(T, s))
     /\ tr_au_timeline' = LabelSectors(tr_au_timeline, base, tr_au_sectors(T))
     /\ rs_au_timeline' = LabelSectors(rs_au_timeline, base, rs_au_sectors(T, s))

-----------------------------------------------------------------------------
(* run *)

p_value(q, time) == speed[q.type] * (time - q.t_prev)

\* The queries of the places S, in the order that before puts their places in.
InOrder(S, before) ==
  [r \in 1 .. Cardinality(S) |->
     queries[CHOOSE n \in S : Cardinality({m \in S : <<m, n>> \in before}) = r - 1]]

Places == DOMAIN queries

\* Mutant: the sort leaves the lowest priority first.
SortedUpwards(time) ==
  LET p(n) == p_value(queries[n], time)
  IN InOrder(Places, {w \in Places \X Places :
                        p(w[1]) < p(w[2]) \/ (p(w[1]) = p(w[2]) /\ w[1] < w[2])})

\* The order the sort leaves: by priority, equal ones (insertion sort) as before.
SortedQueries(time) ==
  LET p(n) == p_value(queries[n], time)
  IN InOrder(Places, {w \in Places \X Places :
                        p(w[1]) > p(w[2]) \/ (p(w[1]) = p(w[2]) /\ w[1] < w[2])})

StartRun(time) ==
  /\ dcu_timeline' = move_timeline(dcu_timeline, Base(time))
  /\ tr_au_timeline' = move_timeline(tr_au_timeline, Base(time))
  /\ rs_au_timeline' = move_timeline(rs_au_timeline, Base(time))
  /\ queries' = SortedQueries(time)
  /\ turn' = 1 /\ ret' = {} /\ removed_id' = {} /\ new_queries' = << >>

Due(q, time) == p_value(q, time) >= threshold[q.type] * second

\* What the service of a query leads to once its scan is planned.
FollowUp(q, time) ==
  CASE q.type = "confirm" -> << [q EXCEPT !.type = "capture", !.id = @ + 1, !.t_prev = time] >>
    [] q.type = "capture" -> << [q EXCEPT !.type = "tracking", !.id = @ + 1, !.t_prev = time] >>
    [] OTHER              -> << >>

Scanning == {"search", "confirm", "capture", "tracking"}

\* The query is not due, or its scan finds no place: it waits for another run.
Skip(time) ==
  LET q == queries[turn] IN
  /\ turn <= Len(queries)
  /\ Due(q, time) => q.type \in Scanning /\ find_index(q.scan, Base(time)) = -1
  /\ turn' = turn + 1
  /\ UNCHANGED <<timelines, queries, ret, removed_id, new_queries>>

ServeScan(time) ==
  LET q == queries[turn]
      idx == find_index(q.scan, Base(time))
  IN /\ turn <= Len(queries) /\ Due(q, time) /\ q.type \in Scanning
     /\ idx # -1
     /\ LabelScan(q.scan, time, idx)
     /\ turn' = turn + 1
     /\ IF RangeCorrect(q.scan)
        THEN /\ ret' = ret \cup scan_commands(q.scan, q.id, time + idx * time_chunk_length)
             /\ queries' = [queries EXCEPT ![turn].t_prev = time]
             /\ removed_id' = removed_id \cup IF FollowUp(q, time) = << >> THEN {} ELSE {q.id}
             /\ new_queries' = new_queries \o FollowUp(q, time)
        ELSE UNCHANGED <<queries, ret, removed_id, new_queries>>

ServeDrop(time) ==
  LET q == queries[turn] IN
  /\ turn <= Len(queries) /\ Due(q, time) /\ q.type = "drop"
  /\ turn' = turn + 1
  /\ removed_id' = removed_id \cup {q.id}
  /\ UNCHANGED <<timelines, queries, ret, new_queries>>

ServeTechControl(time) ==
  LET q == queries[turn] IN
  /\ turn <= Len(queries) /\ Due(q, time) /\ q.type = "tech_control"
  /\ turn' = turn + 1
  /\ ret' = ret \cup {Command("tech", time - reserve_time, time, 0, q.id)}
  /\ queries' = [queries EXCEPT ![turn].t_prev = time]
  /\ UNCHANGED <<timelines, removed_id, new_queries>>

Serve(time) == Skip(time) \/ ServeScan(time) \/ ServeDrop(time) \/ ServeTechControl(time)

\* The queries nobody removed, in the order they were.
Remaining ==
  InOrder({n \in Places : queries[n].id \notin removed_id}, {w \in Places \X Places : w[1] < w[2]})

\* Mutant: new queries are forgotten.
EndRunForgetting ==
  /\ turn = Len(queries) + 1
  /\ queries' = Remaining
  /\ turn' = 1 /\ ret' = {} /\ removed_id' = {} /\ new_queries' = << >>
  /\ UNCHANGED timelines

\* The loop is over: dropped queries leave, new ones are added.
EndRun ==
  /\ turn = Len(queries) + 1
  /\ queries' = Remaining \o new_queries
  /\ turn' = 1 /\ ret' = {} /\ removed_id' = {} /\ new_queries' = << >>
  /\ UNCHANGED timelines
=============================================================================
