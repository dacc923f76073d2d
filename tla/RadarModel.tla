----------------------------- MODULE RadarModel -----------------------------
(***************************************************************************)
(* The simulation of the radar scheduler (ModelEngine): in every step of   *)
(* model time the events of that time create queries, the scheduler plans, *)
(* the plan is validated and the commands of the step are executed.        *)
(***************************************************************************)
EXTENDS Scheduler, CommandProcessor

CONSTANTS
  Scenarios,     \* each one: event time -> the queries the event creates
  stop_time      \* time of the event that stops the simulation

VARIABLES
  model_time,
  ev_queue,      \* events not executed yet
  stage,         \* what the loop of ModelEngine::run does next
  running,
  valid_state

engineVars == <<model_time, ev_queue, stage, running, valid_state>>
vars == <<schedulerVars, commandVars, engineVars>>

\* Events are on the steps.  Scans are those build_scan_pair gives: of whole units
\* of frequency, as its signals and all settings are, so that no rounding lengthens
\* a transmission; one period of a train being its restoration time; of targets
\* nearer than the timelines are long.  The delay of an echo may be shorter than
\* the rephasing of the receiver, or zero, when build_scan_pair gives up.
ScanAssumption(s) ==
  /\ s \in ScanPairs
  /\ s.size > 1 => s.period = s.length * duty_factor
  /\ LET len == s.size * (s.length * duty_factor) + 2 * frequency_delay + blank_delay + reserve_time
     IN multiples_of(len, frequency_factor) = len
  /\ depth(s) + Discretes(s.receive_time + s.size * s.period + 2 * au_command_delay) < timeline_depth

ASSUME ScenarioAssumption ==
  /\ stop_time % TimeStep = 0
  /\ \A sc \in Scenarios : stop_time \in DOMAIN sc /\ sc[stop_time] = << >>
  /\ \A sc \in Scenarios : \A t \in DOMAIN sc :
       /\ t \in Nat /\ t % TimeStep = 0
       /\ sc[t] \in Seq([type : QueryTypes, id : Nat, scan : ScanPairs])
       /\ \A n \in DOMAIN sc[t] : ScanAssumption(sc[t][n].scan)

\* The target a query follows: confirm, capture and tracking have consecutive ids.
Chain == [confirm |-> 0, capture |-> 1, tracking |-> 2]
Followed(q) == q.id - Chain[q.type]

\* The ids of two queries do not meet, whatever becomes of the queries: they follow
\* targets at least as far apart as the chain is long, and a drop names no query of
\* a target but its tracking.
DropSparesUntracked(d, q) ==
  d.type = "drop" /\ q.type \in DOMAIN Chain => d.id - Followed(q) \notin {0, 1}

IdsApart(p, q) ==
  /\ p.type \in DOMAIN Chain /\ q.type \in DOMAIN Chain =>
       Followed(p) - Followed(q) \notin -2 .. 2
  /\ DropSparesUntracked(p, q) /\ DropSparesUntracked(q, p)

\* The ids the events of ModelEngine give are of that kind: targets 1001, 2001, 3001
\* and 4001, drops of their trackings 1003 .. 4003 and of the searches 1000 .. 3000.
ASSUME IdsAssumption ==
  \A sc \in Scenarios : \A t, u \in DOMAIN sc : \A m \in DOMAIN sc[t], n \in DOMAIN sc[u] :
    <<t, m>> # <<u, n>> => IdsApart(sc[t][m], sc[u][n])

Init ==
  /\ SchedulerInit /\ CommandProcessorInit
  /\ ev_queue \in Scenarios
  /\ model_time = 0 /\ stage = "events" /\ running = TRUE /\ valid_state = TRUE

-----------------------------------------------------------------------------
\* EventQueue::get_events: events of the present, unless an earlier one is first.
get_events(time) ==
  {t \in DOMAIN ev_queue : t = time /\ \A u \in DOMAIN ev_queue : t <= u}

\* The queries an event creates.
Created(time) ==
  [n \in DOMAIN ev_queue[time] |->
     [type |-> ev_queue[time][n].type, id |-> ev_queue[time][n].id,
      t_prev |-> time, scan |-> ev_queue[time][n].scan]]

ExecuteEvents ==
  /\ stage = "events"
  /\ \E t \in get_events(model_time) : queries' = queries \o Created(t)
  /\ ev_queue' = [t \in DOMAIN ev_queue \ {model_time} |-> ev_queue[t]]
  /\ running' = (model_time # stop_time)
  /\ UNCHANGED <<timelines, turn, ret, removed_id, new_queries, commandVars, model_time, stage, valid_state>>

StartPlanning ==
  /\ stage = "events" /\ get_events(model_time) = {}
  /\ StartRun(model_time)
  /\ stage' = "plan"
  /\ UNCHANGED <<commandVars, model_time, ev_queue, running, valid_state>>

Plan ==
  /\ stage = "plan"
  /\ Serve(model_time)
  /\ UNCHANGED <<commandVars, engineVars>>

FinishPlanning ==
  /\ stage = "plan"
  /\ EndRun
  /\ append(ret)
  /\ valid_state' = validate(command_queue', execed_commands)
  /\ stage' = "execute"
  /\ UNCHANGED <<execed_commands, model_time, ev_queue, running>>

Execute ==
  /\ stage = "execute"
  /\ run(model_time)
  /\ model_time' = model_time + TimeStep
  /\ stage' = IF running THEN "events" ELSE "stopped"
  /\ UNCHANGED <<schedulerVars, ev_queue, running, valid_state>>

Next == ExecuteEvents \/ StartPlanning \/ Plan \/ FinishPlanning \/ Execute

Spec == Init /\ [][Next]_vars

-----------------------------------------------------------------------------
\* Commands that are planned now, and those and the ones of the step before.
Planned == command_queue \cup ret
AllCommands == Planned \cup execed_commands

\* The next transmission starts after the energy of the one before is
\* restored, whichever runs planned them (place_scan; the requirement of
\* validate, which looks at the queue alone).
TransmitsSpaced ==
  \A c, d \in OfType(AllCommands, "transmit") :
    c # d /\ c.exec <= d.exec => c.exec + c.len <= d.exec

\* The discretes a planned transmission takes, counted as the labels are: a
\* rephasing time earlier than the command, and without the first one, which
\* get_idx_for leaves out.
TakenBy(c) ==
  LET a == Base(c.exec - phase_delay) IN
  a + 1 .. a + c.len \div time_chunk_length

\* What is planned and still ahead is labelled, so that no later scan finds its
\* place free (label_sector calls of place_scan, kept by move_timeline).
TransmissionsReserved ==
  \A c \in OfType(Planned, "transmit") :
    \A i \in TakenBy(c) : i >= Base(model_time) => i \in DOMAIN dcu_timeline

\* A command is planned while there is time to send it, is executed in its own
\* step and never left behind in the queue (CommandProcessor::run, place_scan).
CommandsOnTime ==
  /\ \A c \in ret : c.exec >= model_time /\ (c.type # "tech" => c.ref >= model_time)
  /\ \A c \in command_queue : c.exec >= model_time
  /\ stage \in {"plan", "events"} =>
       \A c \in execed_commands : c.exec \in model_time - TimeStep .. model_time - 1

\* When a step is executed, every transmission and reception in the queue has
\* its antenna rephased and the receiver's protection turned off in time, by a
\* command of the queue or of the step before (place_scan, validate).
AntennaPrepared == stage = "execute" => AntennaReady(command_queue, execed_commands)

\* The targets queries follow.
TargetsOf(qs) == {Followed(qs[n]) : n \in {m \in DOMAIN qs : qs[m].type \in DOMAIN Chain}}

\* Between runs a target has one query: confirm, capture and tracking replace
\* each other (removed_id and new_queries of run).
OneQueryPerTarget ==
  stage # "plan" =>
    \A m, n \in DOMAIN queries :
      /\ m # n
      /\ queries[m].type \in DOMAIN Chain /\ queries[n].type \in DOMAIN Chain
      => TargetsOf(<<queries[m]>>) # TargetsOf(<<queries[n]>>)

\* A target that was detected is followed until a drop query for its tracking
\* is served, whatever place or priority its scans get, and by one query at a
\* time: two would sound it twice, none would lose it (run, remove_query).
TargetsKept ==
  /\ []OneQueryPerTarget
  /\ [][\A t \in TargetsOf(queries \o new_queries) \ TargetsOf(queries' \o new_queries') :
         \E n \in DOMAIN queries : queries[n].type = "drop" /\ queries[n].id = t + 2]_vars

\* Every plan passes the validation the program runs in every step
\* (CommandProcessor::validate).
PlanValid == valid_state

\* With the queries the scenario has, a scan that is due is put off by others for
\* two periods of the survey at most: its priority grows while those served start
\* anew (run).  It is neither the pace Settings.h:34 reckons with, one scan of a
\* sector in every period, nor a promise for other scenarios: with enough queries
\* a train waits for ever.
DueScansServed ==
  LET survey_period == (threshold["search"] * second) \div speed["search"] IN
  stage # "plan" =>
    \A n \in DOMAIN queries :
      LET q == queries[n] IN
      q.type \in Scanning =>
        p_value(q, model_time) <= threshold[q.type] * second + speed[q.type] * 2 * survey_period

=============================================================================
