-------------------------- MODULE CommandProcessor --------------------------
(***************************************************************************)
(* Class CommandProcessor: the queue of planned commands, the commands of  *)
(* the last executed step, and the validation of the plan against the      *)
(* requirements of the exchange protocol.                                  *)
(* The queue gives commands in the order of their execution times.         *)
(***************************************************************************)
EXTENDS Settings

VARIABLES command_queue, execed_commands

commandVars == <<command_queue, execed_commands>>

CommandProcessorInit == command_queue = {} /\ execed_commands = {}

append(commands) == command_queue' = command_queue \cup commands

\* Mutant: commands of the past only; mutant: the executed ones are not kept.
run_late(time) ==
  /\ execed_commands' = {c \in command_queue : c.exec < time}
  /\ command_queue' = command_queue \ execed_commands'

run_forgetting(time) ==
  /\ execed_commands' = {}
  /\ command_queue' = {c \in command_queue : c.exec >= time + TimeStep}

\* The interval 1e6 ns of the code is the time step of the model.
run(time) ==
  /\ execed_commands' = {c \in command_queue : c.exec < time + TimeStep}
  /\ command_queue' = command_queue \ execed_commands'

-----------------------------------------------------------------------------
(* validate(): queue is what is planned, execed what the last step executed. *)

OfType(commands, type) == {c \in commands : c.type = type}

\* "commands must follow with a period of no less than 500 us"
RephasingsSpaced(queue, type) ==
  \A c, d \in OfType(queue, type) : c # d /\ c.exec <= d.exec => d.exec - c.exec >= au_command_delay

\* The first command of a type for the query of c, executed ones first.
IsFirst(p, c, type, queue, execed) ==
  LET Mine(commands) == {d \in OfType(commands, type) : d.id = c.id}
  IN \E commands \in {queue, execed} :
       /\ p \in Mine(commands)
       /\ commands = queue => Mine(execed) = {}
       /\ \A d \in Mine(commands) : p.exec <= d.exec

\* It was given, no less than delay before c; times are unsigned in the code.
Prepared(c, type, delay, queue, execed) ==
  \E p \in queue \cup execed :
    IsFirst(p, c, type, queue, execed) /\ c.exec - p.exec \notin 0 .. delay - 1

AntennaReady(queue, execed) ==
  /\ \A c \in OfType(queue, "receive") :
       /\ Prepared(c, "protect", channel_switch_delay, queue, execed)
       /\ Prepared(c, "rs_rephase", phase_delay, queue, execed)
  /\ \A c \in OfType(queue, "transmit") : Prepared(c, "tr_rephase", phase_delay, queue, execed)

EnergyRestored(queue) ==
  \A c, d \in OfType(queue, "transmit") : c # d /\ c.exec <= d.exec => c.exec + c.len <= d.exec

SentInTime(queue) ==
  /\ \A c \in OfType(queue, "receive") : c.exec - c.ref >= reserve_time
  /\ \A c \in OfType(queue, "transmit") :
       c.exec - c.ref \notin 0 .. reserve_time + blank_delay + frequency_delay - 1

validate(queue, execed) ==
  /\ RephasingsSpaced(queue, "tr_rephase") /\ RephasingsSpaced(queue, "rs_rephase")
  /\ AntennaReady(queue, execed)
  /\ EnergyRestored(queue)
  /\ SentInTime(queue)
=============================================================================
