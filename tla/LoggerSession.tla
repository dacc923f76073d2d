---- MODULE LoggerSession ----
(***************************************************************************)
(* The Logger library over spdlog's asynchronous file logger.  Threads of  *)
(* the program call log_file while one thread loads the configuration,     *)
(* starts and closes sessions; a session's log has a queue (BoundedFifo,   *)
(* which MpmcQueue implements) and a worker thread that writes and rotates *)
(* the files.  A message is the caller and the number of its call.         *)
(*                                                                         *)
(* The display channel writes under a mutex in the caller and keeps no     *)
(* state; flush() is never called; levels let every message through; every *)
(* load gives the same directory; the id of the session is not kept.       *)
(***************************************************************************)
EXTENDS Integers, Sequences, FiniteSets, Functions, SequencesExt

CONSTANTS Callers,     \* the threads that log
          Control,     \* the thread that loads, starts and closes
          Ids,         \* the session ids it may ask for, or be given for id 0
          Size,        \* buffer_size
          MaxFiles,    \* num_files: the rotated files kept besides the current one
          MaxSize,     \* the messages that fill a file
          NoOne, NoMessage, Terminate,
          MaxLogs,     \* bound: calls of all callers
          MaxStarts    \* bound: successful starts

ASSUME LoggerAssumption ==
  /\ Size \in Nat /\ Size >= 2
  /\ MaxFiles \in Nat /\ MaxSize \in Nat \ {0}
  /\ Control \notin Callers /\ NoOne \notin Callers \cup {Control}
  /\ {Terminate, NoMessage} \cap (Callers \X Nat) = {}

VARIABLES
  config_loaded,   \* _config_loaded
  q_good,          \* the registry's queue size is a power of two
  session_opened,  \* _session_opened
  file_chanel,     \* _file_chanel is not null
  registered,      \* "file_logger" is in spdlog's registry
  disk,            \* the ids that have a file in _path
  ctl,             \* the next statement of the control thread
  starts,          \* how many logs have been made
  alive,           \* the last of them is not destroyed
  worker,          \* the next statement of its worker
  last_ex,         \* _last_workerthread_ex
  stop,            \* _terminate_requested
  files,           \* the current file (0) and the rotated ones
  queue, call, item, ret, taking, out, got,   \* the log's queue
  at,              \* at[c]: the next statement of the caller's log_file
  logger,          \* logger[c]: the log its line_logger points to
  sent,            \* sent[c]: calls made
  accepted,        \* history: messages of returned calls, of this log
  promised,        \* history: those accepted before its close began
  written,         \* history: messages the worker has written to this log
  unquiet,         \* history: a call overlapped a close, or a load the worker
  crashed          \* the process has been ended

fifoVars == <<queue, call, item, ret, taking, out, got>>
sessionVars == <<config_loaded, q_good, session_opened, file_chanel, registered, disk, ctl, starts, alive>>
workerVars == <<worker, last_ex, stop, files, written>>
callerVars == <<at, logger, sent, accepted>>
historyVars == <<promised, unquiet>>
vars == <<sessionVars, workerVars, callerVars, fifoVars, historyVars, crashed>>

Producers == Callers \cup {Control}
Messages == Callers \X (1 .. MaxLogs) \cup {Terminate}
\* The calls made so far.
SumOf(f) == FoldFunctionOnSet(+, 0, f, DOMAIN f)

Missing == <<Terminate>>     \* no file of that number; Terminate is never written

Fifo == INSTANCE BoundedFifo

Init ==
  /\ config_loaded = FALSE /\ q_good = TRUE /\ session_opened = FALSE
  /\ file_chanel = FALSE /\ registered = FALSE /\ disk = {} /\ ctl = "idle"
  /\ starts = 0 /\ alive = FALSE
  /\ worker = "none" /\ last_ex = FALSE /\ stop = FALSE
  /\ files = [i \in 0 .. MaxFiles |-> Missing]
  /\ Fifo!FifoInit
  /\ at = [c \in Callers |-> "idle"]
  /\ logger = [c \in Callers |-> 0]
  /\ sent = [c \in Callers |-> 0]
  /\ accepted = {} /\ promised = {} /\ written = <<>>
  /\ unquiet = FALSE /\ crashed = FALSE

----------------------------------------------------------------------------

\* An exception leaves line_logger's destructor, a null or dangling pointer
\* is followed, or a joinable thread destroyed: the process ends.
Crash == crashed' = TRUE /\ UNCHANGED <<sessionVars, workerVars, callerVars, fifoVars, historyVars>>

Dangling(c) == ~alive \/ logger[c] # starts

----------------------------------------------------------------------------
(* Mutations: each is what a definition below would be after a plausible   *)
(* slip.                                                                   *)

\* overflow_policy of a full queue taken as discard_log_msg.
PushDiscarding(c) ==
  /\ at[c] = "push"
  /\ \/ /\ ~Dangling(c)
        /\ \/ Fifo!Put(c) /\ UNCHANGED <<at, accepted>>
           \/ /\ Fifo!Ready(c) \/ Fifo!Refuse(c)
              /\ at' = [at EXCEPT ![c] = "idle"]
              /\ accepted' = accepted \cup {item[c]}
        /\ UNCHANGED <<sessionVars, workerVars, historyVars, logger, sent, crashed>>
     \/ Dangling(c) /\ Crash

\* The loop of _rotate starts one file too low.
RotatedShort == [i \in 0 .. MaxFiles |-> IF i = 0 THEN <<>> ELSE IF i < MaxFiles THEN files[i - 1] ELSE files[i]]

\* The destructor joins before it asks the worker to end.
ResetJoining ==
  /\ ctl = "reset" /\ worker \in {"none", "ended"}
  /\ file_chanel' = FALSE /\ alive' = FALSE /\ ctl' = "flag"
  /\ UNCHANGED <<config_loaded, q_good, session_opened, registered, disk, starts,
                 workerVars, callerVars, fifoVars, historyVars, crashed>>

\* close_session leaves the flag to the next start_session.
FlagStays ==
  /\ ctl = "flag" /\ ctl' = "idle"
  /\ UNCHANGED <<config_loaded, q_good, session_opened, file_chanel, registered, disk, starts, alive,
                 workerVars, callerVars, fifoVars, historyVars, crashed>>

----------------------------------------------------------------------------
(* Calls of log_file and of the file half of log_dispfile.                 *)

\* Outside a session the call is ignored.
LogFile(c) ==
  /\ at[c] = "idle" /\ SumOf(sent) < MaxLogs
  /\ sent' = [sent EXCEPT ![c] = @ + 1]
  /\ at' = [at EXCEPT ![c] = IF session_opened THEN "channel" ELSE "idle"]
  /\ unquiet' = (unquiet \/ (session_opened /\ ctl # "idle"))
  /\ UNCHANGED <<sessionVars, workerVars, fifoVars, logger, accepted, promised, crashed>>

\* _file_chanel->error(): the line_logger keeps a plain pointer.
Channel(c) ==
  /\ at[c] = "channel"
  /\ IF file_chanel
     THEN /\ at' = [at EXCEPT ![c] = "check"]
          /\ logger' = [logger EXCEPT ![c] = starts]
          /\ UNCHANGED <<sessionVars, workerVars, fifoVars, historyVars, sent, accepted, crashed>>
     ELSE Crash

\* push_msg: what the worker threw is thrown again here, once.
CheckWorker(c) ==
  /\ at[c] = "check"
  /\ IF Dangling(c) \/ last_ex THEN Crash
     ELSE /\ Fifo!EnqueueCall(c, <<c, sent[c]>>)
          /\ at' = [at EXCEPT ![c] = "push"]
          /\ UNCHANGED <<sessionVars, workerVars, historyVars, logger, sent, accepted, crashed>>

Push(c) ==
  /\ at[c] = "push"
  /\ \/ /\ ~Dangling(c)
        /\ \/ Fifo!Put(c) /\ UNCHANGED <<at, accepted>>
           \/ /\ Fifo!Ready(c)
              /\ at' = [at EXCEPT ![c] = "idle"]
              /\ accepted' = accepted \cup {item[c]}
           \/ Fifo!Refuse(c) /\ at' = [at EXCEPT ![c] = "retry"] /\ UNCHANGED accepted
        /\ UNCHANGED <<sessionVars, workerVars, historyVars, logger, sent, crashed>>
     \/ Dangling(c) /\ Crash

\* block_retry: the loop does not look at the worker again.
Retry(c) ==
  /\ at[c] = "retry"
  /\ IF Dangling(c) THEN Crash
     ELSE /\ Fifo!EnqueueCall(c, item[c])
          /\ at' = [at EXCEPT ![c] = "push"]
          /\ UNCHANGED <<sessionVars, workerVars, historyVars, logger, sent, accepted, crashed>>

----------------------------------------------------------------------------
(* The worker of the log.                                                  *)

\* One dequeue; the worker ends only on an empty queue.
Pop ==
  /\ worker = "loop"
  /\ \/ (Fifo!DequeueCall \/ Fifo!Take) /\ UNCHANGED worker
     \/ Fifo!Release /\ worker' = "process"
     \/ Fifo!Empty /\ worker' = IF stop THEN "ended" ELSE "loop"
  /\ UNCHANGED <<sessionVars, callerVars, historyVars, last_ex, stop, files, written, crashed>>

TerminateMsg ==
  /\ worker = "process" /\ out = Terminate
  /\ stop' = TRUE /\ worker' = "loop"
  /\ UNCHANGED <<sessionVars, callerVars, fifoVars, historyVars, last_ex, files, written, crashed>>

\* The files after _rotate: every one takes the next number, the last is removed.
Rotated == [i \in 0 .. MaxFiles |-> IF i = 0 THEN <<>> ELSE files[i - 1]]

\* A rename that fails leaves the lower numbers as they were, and number j
\* removed if it could be.
RotatedTo(j) == {[i \in 0 .. MaxFiles |-> IF i > j THEN files[i - 1]
                                          ELSE IF i = j /\ removed THEN Missing ELSE files[i]] :
                   removed \in {TRUE, j < MaxFiles}}

Full == Len(files[0]) = MaxSize

SinkIt ==
  /\ worker = "process" /\ out # Terminate
  /\ files' = LET f == IF Full THEN Rotated ELSE files IN [f EXCEPT ![0] = Append(@, out)]
  /\ written' = Append(written, out)
  /\ worker' = "loop"
  /\ UNCHANGED <<sessionVars, callerVars, fifoVars, historyVars, last_ex, stop, crashed>>

\* The write, or a remove, rename or reopen of the rotation fails: worker_loop
\* keeps the exception and ends.
SinkFails ==
  /\ worker = "process" /\ out # Terminate
  /\ files' \in {files} \cup (IF Full THEN {Rotated} \cup UNION {RotatedTo(j) : j \in 1 .. MaxFiles} ELSE {})
  /\ last_ex' = TRUE /\ worker' = "ended"
  /\ UNCHANGED <<sessionVars, callerVars, fifoVars, historyVars, stop, written, crashed>>

----------------------------------------------------------------------------
(* The control thread.                                                     *)

\* set_async_mode serves the next log; set_pattern gives every registered log
\* a new formatter, which its worker may be using.
LoadConfig ==
  /\ ctl = "idle"
  /\ config_loaded' = TRUE /\ q_good' \in BOOLEAN
  /\ LET race == registered /\ worker = "process" IN
       /\ unquiet' = (unquiet \/ race)
       /\ crashed' \in IF race THEN BOOLEAN ELSE {FALSE}
  /\ UNCHANGED <<session_opened, file_chanel, registered, disk, ctl, starts, alive,
                 workerVars, callerVars, fifoVars, promised>>

\* The registry or the queue refuses once the file has been made, and the
\* file stays.  (A start that fails earlier changes nothing kept here.)
StartFails(new) ==
  /\ ctl = "idle" /\ config_loaded /\ new \notin disk
  /\ registered \/ ~q_good
  /\ disk' = disk \cup {new}
  /\ UNCHANGED <<config_loaded, q_good, session_opened, file_chanel, registered, ctl, starts, alive,
                 workerVars, callerVars, fifoVars, historyVars, crashed>>

StartSession(new) ==
  /\ ctl = "idle" /\ config_loaded /\ new \notin disk /\ starts < MaxStarts
  /\ ~registered /\ q_good
  /\ disk' = disk \cup {new}
  /\ registered' = TRUE /\ file_chanel' = TRUE /\ session_opened' = TRUE
  /\ starts' = starts + 1 /\ alive' = TRUE
  /\ worker' = "loop" /\ last_ex' = FALSE /\ stop' = FALSE
  /\ files' = [i \in 0 .. MaxFiles |-> IF i = 0 THEN <<>> ELSE Missing]
  /\ queue' = <<>> /\ taking' = "idle" /\ UNCHANGED <<call, item, ret, out, got>>
  /\ accepted' = {} /\ promised' = {} /\ written' = <<>>
  /\ UNCHANGED <<config_loaded, q_good, ctl, at, logger, sent, unquiet, crashed>>

\* close_session: drop_all leaves the log to _file_chanel alone.
CloseSession ==
  /\ ctl = "idle"
  /\ registered' = FALSE /\ ctl' = "reset"
  /\ promised' = IF registered THEN accepted ELSE promised
  /\ unquiet' = (unquiet \/ \E c \in Callers : at[c] # "idle")
  /\ UNCHANGED <<config_loaded, q_good, session_opened, file_chanel, disk, starts, alive,
                 workerVars, callerVars, fifoVars, crashed>>

\* The pointer is cleared, then the log destroyed: a stored exception skips
\* the join, and destroying the thread ends the process.
Reset ==
  /\ ctl = "reset"
  /\ IF file_chanel /\ last_ex THEN Crash
     ELSE /\ file_chanel' = FALSE
          /\ IF file_chanel
             THEN Fifo!EnqueueCall(Control, Terminate) /\ ctl' = "push"
             ELSE UNCHANGED fifoVars /\ ctl' = "flag"
          /\ UNCHANGED <<config_loaded, q_good, session_opened, registered, disk, starts, alive,
                         workerVars, callerVars, historyVars, crashed>>

PushTerminate ==
  /\ \/ ctl = "push" /\ Fifo!Put(Control) /\ UNCHANGED ctl
     \/ ctl = "push" /\ Fifo!Ready(Control) /\ ctl' = "join"
     \/ ctl = "push" /\ Fifo!Refuse(Control) /\ ctl' = "retry"
     \/ ctl = "retry" /\ Fifo!EnqueueCall(Control, Terminate) /\ ctl' = "push"
  /\ UNCHANGED <<config_loaded, q_good, session_opened, file_chanel, registered, disk, starts, alive,
                 workerVars, callerVars, historyVars, crashed>>

Join ==
  /\ ctl = "join" /\ worker = "ended"
  /\ alive' = FALSE /\ ctl' = "flag"
  /\ UNCHANGED <<config_loaded, q_good, session_opened, file_chanel, registered, disk, starts,
                 workerVars, callerVars, fifoVars, historyVars, crashed>>

CloseFlag ==
  /\ ctl = "flag"
  /\ session_opened' = FALSE /\ ctl' = "idle"
  /\ UNCHANGED <<config_loaded, q_good, file_chanel, registered, disk, starts, alive,
                 workerVars, callerVars, fifoVars, historyVars, crashed>>

----------------------------------------------------------------------------

LogSteps(c) == Channel(c) \/ CheckWorker(c) \/ Push(c) \/ Retry(c)
Worker == Pop \/ TerminateMsg \/ SinkIt \/ SinkFails
Closing == Reset \/ PushTerminate \/ Join \/ CloseFlag

Next ==
  /\ ~crashed
  /\ \/ \E c \in Callers : LogFile(c) \/ LogSteps(c)
     \/ Worker
     \/ LoadConfig \/ CloseSession \/ Closing
     \/ \E new \in Ids : StartFails(new) \/ StartSession(new)

\* Threads run: a call goes on, the worker works, a close that has begun
\* goes on.  Nobody has to log, start or close, and no write has to succeed.
Fairness ==
  /\ \A c \in Callers : WF_vars(~crashed /\ LogSteps(c))
  /\ WF_vars(~crashed /\ Worker)
  /\ WF_vars(~crashed /\ Closing)

Spec == Init /\ [][Next]_vars /\ Fairness

----------------------------------------------------------------------------

\* The messages in the files younger than i: full ones, but for the current
\* one, and one number without a file where a rotation has failed.
Younger(i) ==
  LET gaps == IF \E j \in 1 .. i - 1 : files[j] = Missing THEN 1 ELSE 0 IN
  IF i = 0 THEN 0 ELSE Len(files[0]) + MaxSize * (i - 1 - gaps)

\* File i holds the messages written before those in younger files, in order.
HoldsItsPart(i) ==
  /\ i > 0 => Len(files[i]) = MaxSize
  /\ Younger(i) + Len(files[i]) <= Len(written)
  /\ \A k \in DOMAIN files[i] : files[i][k] = written[Len(written) - Younger(i) - Len(files[i]) + k]

\* The files hold the newest messages in the order of the queue, whatever
\* step of a rotation fails; and as long as none has, there is no message
\* missing until every file is there (rotating_file_sink::_sink_it, _rotate).
FilesKeepNewest ==
  alive =>
    /\ \A i \in 0 .. MaxFiles : files[i] # Missing => HoldsItsPart(i)
    /\ ~last_ex => \A i \in 1 .. MaxFiles : files[i] = Missing =>
                     files[i - 1] = Missing \/ Younger(i) = Len(written)

\* A message whose call has returned is waiting, in the worker's hands or
\* written, each caller's in the order of its calls; and when the log is
\* destroyed, all that returned before its close began are written
\* (push_msg, process_next_msg, ~async_log_helper).
Before(m) == {n \in Messages \ {Terminate} : n[1] = m[1] /\ n[2] < m[2]}
NothingLost ==
  /\ \A i, j \in DOMAIN written : i < j => written[j] # written[i] /\ written[j] \notin Before(written[i])
  /\ alive /\ ~last_ex =>
       accepted \subseteq ToSet(written) \cup {e.msg : e \in ToSet(queue)} \cup {out}
  /\ ctl = "flag" /\ ~last_ex => promised \subseteq ToSet(written)

\* As long as no write fails, a program that does not log while it closes,
\* nor loads while it logs, is never ended by the log: the flag, the pointer
\* and the log agree whenever they are looked at (Logger.cpp:189-199, 232-236, 308).
QuietCallersNeverCrash == crashed => unquiet \/ last_ex

\* While the worker lives, a log call returns, full queue or not, and so does
\* close_session.
LogCallsReturn ==
  /\ \A c \in Callers : at[c] # "idle" ~> at[c] = "idle" \/ crashed \/ last_ex
  /\ ctl # "idle" ~> ctl = "idle" \/ crashed \/ last_ex

====
