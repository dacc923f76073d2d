-------------------------- MODULE TEServerLifecycle --------------------------
(***************************************************************************)
(* Server::load_config, start and stop around the running server of module *)
(* TEServer, called by one control thread, restarts included.              *)
(*                                                                         *)
(* stop() runs beside the workers and takes no lock, so each of its        *)
(* statements is a step.  A thread in io_service::run() leaves it when it  *)
(* finds the service stopped; the service stops itself when its last       *)
(* outstanding operation is done.  An operation on a closed socket         *)
(* completes with an error (FailedRead, FailedAccept); one that had        *)
(* completed before the socket was closed is still delivered (completed).  *)
(***************************************************************************)
EXTENDS TEServer

CONSTANTS
  StartBound,      \* bound: calls of start() that start threads
  LoadBound,       \* bound: times the catalogue is read without being cleared
  ControlFaults    \* failing calls this instance allows

VARIABLES
  control,         \* next statement of the control thread; "up", "down", "half", "threw": between calls
  configLoaded,    \* _config_loaded
  catalogLoads,    \* times the entries of the file are in _satellite_catalog
  acceptorOpen,    \* _acc.is_open()
  serviceStopped,  \* the io_service is stopped
  alive,           \* threads that have not returned from _service.run()
  completed,       \* handlers queued with a result when their socket was closed
  starts           \* number of calls of start() that started threads

controlVars == <<control, configLoaded, catalogLoads, acceptorOpen, starts>>
lifeVars == <<controlVars, serviceStopped, alive, completed>>
allVars == <<vars, lifeVars>>

ASSUME LifecycleAssumption ==
  /\ StartBound \in Nat /\ LoadBound \in Nat
  /\ ControlFaults \subseteq {"start_error", "acceptor_error"}

\* Server::Server()
LifecycleInit ==
  /\ Fresh(FALSE)
  /\ control = "down"
  /\ configLoaded = FALSE
  /\ catalogLoads = 0
  /\ acceptorOpen = FALSE
  /\ serviceStopped = FALSE
  /\ alive = {}
  /\ completed = {}
  /\ starts = 0

-----------------------------------------------------------------------------
(* Mutations: definitions below after a plausible mistake; nothing uses them. *)

\* stop() without _work_threads.join_all()
StopWithoutJoin ==
  /\ control = "join"
  /\ control' = "down"
  /\ UNCHANGED <<vars, configLoaded, catalogLoads, acceptorOpen, starts,
                 serviceStopped, alive, completed>>

-----------------------------------------------------------------------------
(* The control thread: load_config, start *)

\* A load that fails after it has read max_connections leaves the new value.
LoadConfig(m) ==
  /\ control = "down"
  /\ maxConnections' = m
  /\ configLoaded' \in {TRUE, configLoaded}
  /\ UNCHANGED <<acceptPending, listVars, reading, poolVars, linkVars, control, catalogLoads,
                 acceptorOpen, starts, serviceStopped, alive, completed>>

\* parse_keo appends what it reads, whatever open, bind and listen say after it.  An
\* acceptor that is open already, after a failed listen or in a half started server,
\* cannot be opened.
StartFails ==
  /\ "start_error" \in ControlFaults \/ control = "half"
  /\ control \in {"down", "half"} /\ configLoaded /\ catalogLoads < LoadBound
  /\ catalogLoads' = catalogLoads + 1
  /\ UNCHANGED <<vars, control, configLoaded, acceptorOpen, starts,
                 serviceStopped, alive, completed>>

\* create_thread may throw, when some threads run already.
Start ==
  /\ control = "down" /\ configLoaded /\ catalogLoads < LoadBound /\ starts < StartBound
  /\ \/ control' = "up" /\ alive' = Workers
     \/ "start_error" \in ControlFaults /\ control' = "half" /\ alive' \in SUBSET Workers \ {Workers}
  /\ catalogLoads' = catalogLoads + 1
  /\ acceptorOpen' = TRUE
  /\ acceptPending' = TRUE
  /\ starts' = starts + 1
  /\ UNCHANGED <<maxConnections, listVars, reading, poolVars, linkVars,
                 configLoaded, serviceStopped, completed>>

-----------------------------------------------------------------------------
(* The control thread: stop, statement by statement *)

Stop ==
  /\ control \in {"up", "down", "half", "threw"}
  /\ control' = "acceptor"
  /\ catalogLoads' = 0
  /\ UNCHANGED <<vars, configLoaded, acceptorOpen, starts, serviceStopped, alive, completed>>

\* The pending accept fails, unless it has taken a peer already; the peers still
\* in the backlog are reset.
StopAcceptor ==
  /\ control = "acceptor"
  /\ control' = "sockets"
  /\ acceptorOpen' = FALSE
  /\ \E taken \in {{}} \cup {{c} : c \in {d \in Conns : acceptorOpen /\ acceptPending /\ sock[d] = "backlog"}} :
       /\ acceptPending' = (acceptPending /\ taken = {})
       /\ completed' = completed \cup
            {[conn |-> c, step |-> "accepted", line |-> NoLine] : c \in taken}
       /\ sock' = [c \in Conns |-> IF c \in taken THEN "open"
                                   ELSE IF sock[c] = "backlog" THEN "reset" ELSE sock[c]]
  /\ UNCHANGED <<maxConnections, listVars, reading, poolVars, peer, inbox, outbox, lateOut,
                 configLoaded, catalogLoads, starts, serviceStopped, alive>>

\* cancel or close reports an error: stop returns with the catalogue cleared.
StopAcceptorFails ==
  /\ "acceptor_error" \in ControlFaults
  /\ control = "acceptor" /\ acceptorOpen
  /\ control' = "up"
  /\ UNCHANGED <<vars, configLoaded, catalogLoads, acceptorOpen, starts,
                 serviceStopped, alive, completed>>

\* Close the sockets of D.  A read of D that had completed is still delivered.
CloseSockets(D) ==
  /\ \E done \in SUBSET {c \in D \cap reading : inbox[c] # << >> \/ peer[c] = "fin"} :
       /\ reading' = reading \ done
       /\ completed' = completed \cup
            {[conn |-> c, step |-> IF inbox[c] = << >> THEN "shutdown" ELSE "parse",
              line |-> IF inbox[c] = << >> THEN NoLine ELSE Head(inbox[c])] : c \in done}
  /\ sock' = [c \in Conns |-> IF c \in D THEN ClosedEnd(c)[c] ELSE sock[c]]
  /\ inbox' = [c \in Conns |-> IF c \in D THEN << >> ELSE inbox[c]]
  /\ lateOut' = [c \in Conns |-> IF c \in D THEN << >> ELSE lateOut[c]]

\* shutdown(shutdown_both) throws on a connection its peer has reset.
StopSockets ==
  LET open == {c \in clients : sock[c] = "open"}
      broken == {c \in open : peer[c] = "rst"}
  IN /\ control = "sockets"
     /\ \/ broken = {} /\ CloseSockets(open) /\ control' = "clear"
        \/ /\ broken # {} /\ control' = "threw"
           /\ \E D \in SUBSET (open \ broken) : CloseSockets(D)
     /\ UNCHANGED <<maxConnections, acceptPending, listVars, poolVars, peer, outbox,
                    configLoaded, catalogLoads, acceptorOpen, starts, serviceStopped, alive>>

\* A socket lives on while the on_accept that made the connection is running.
StopClear ==
  /\ control = "clear"
  /\ control' = "service"
  /\ clients' = {}
  /\ sock' = [c \in Conns |-> IF c \in clients /\ \A w \in Workers : cur[w] # c
                              THEN ClosedEnd(c)[c] ELSE sock[c]]
  /\ UNCHANGED <<maxConnections, acceptPending, counter, mutex, reading, poolVars, peer, inbox, outbox,
                 lateOut, configLoaded, catalogLoads, acceptorOpen, starts,
                 serviceStopped, alive, completed>>

StopService ==
  /\ \/ control = "service" /\ control' = "reset" /\ serviceStopped' = TRUE
     \/ control = "reset" /\ control' = "join" /\ serviceStopped' = FALSE
  /\ UNCHANGED <<vars, configLoaded, catalogLoads, acceptorOpen, starts, alive, completed>>

StopJoin ==
  /\ control = "join" /\ alive = {}
  /\ control' = "down"
  /\ UNCHANGED <<vars, configLoaded, catalogLoads, acceptorOpen, starts,
                 serviceStopped, alive, completed>>

Control ==
  \/ \E m \in MaxChoices : LoadConfig(m)
  \/ StartFails \/ Start
  \/ Stop \/ StopAcceptor \/ StopAcceptorFails \/ StopSockets \/ StopClear \/ StopService \/ StopJoin

-----------------------------------------------------------------------------
(* The threads in _service.run() *)

\* No operation is outstanding: the thread that finished the last one stops the service.
Drained ==
  /\ ~acceptPending /\ reading = {} /\ completed = {}
  /\ \A c \in Conns : lateOut[c] = << >>
  /\ \A w \in Workers : at[w] = "idle"

HandlerDone ==
  /\ serviceStopped' = (serviceStopped \/ Drained')
  /\ UNCHANGED <<controlVars, alive>>

Idle == \E w \in alive : at[w] = "idle"

RunHandler ==
  /\ \/ \E w \in alive : Continue(w) \/ (~serviceStopped /\ Dispatch(w))
     \/ ~serviceStopped /\ Idle /\ (OnAcceptError \/ \E c \in Conns : OnReadError(c))
     \/ alive # {} /\ \E c \in Conns : LateWrite(c)
  /\ UNCHANGED completed
  /\ HandlerDone

RunCompleted ==
  /\ ~serviceStopped
  /\ \E w \in alive, h \in completed :
       /\ Pick(w, h.step, h.conn, h.line)
       /\ completed' = completed \ {h}
  /\ UNCHANGED <<maxConnections, acceptPending, listVars, reading, linkVars>>
  /\ HandlerDone

\* on_read with an error that is neither eof nor reset: the socket is closed
FailedRead ==
  /\ ~serviceStopped /\ Idle
  /\ \E c \in reading : sock[c] # "open" /\ reading' = reading \ {c}
  /\ UNCHANGED <<maxConnections, acceptPending, listVars, poolVars, linkVars, completed>>
  /\ HandlerDone

\* on_accept with operation_aborted or bad_descriptor
FailedAccept ==
  /\ ~serviceStopped /\ Idle
  /\ acceptPending /\ ~acceptorOpen
  /\ acceptPending' = FALSE
  /\ UNCHANGED <<maxConnections, listVars, reading, poolVars, linkVars, completed>>
  /\ HandlerDone

Threads == RunHandler \/ RunCompleted \/ FailedRead \/ FailedAccept

LeaveRun(w) ==
  /\ w \in alive /\ at[w] = "idle" /\ serviceStopped
  /\ alive' = alive \ {w}
  /\ UNCHANGED <<vars, controlVars, serviceStopped, completed>>

\* Undefined behaviour: a handler uses an iterator stop() has invalidated, or
\* TargetsListMsg takes the last of no targets.  Either goes unnoticed, as in
\* RunHandler, or ends the process.
Dangling(w) == at[w] \in ReadSteps \cup {"start_read"} /\ cur[w] \notin clients
NoTargets(w) == at[w] = "parse" /\ line[w] \in Areas /\ catalogLoads = 0

Crash ==
  /\ \E w \in alive : Dangling(w) \/ NoTargets(w)
  /\ control' = "crashed" /\ alive' = {}
  /\ UNCHANGED <<vars, configLoaded, catalogLoads, acceptorOpen, starts, serviceStopped, completed>>

-----------------------------------------------------------------------------
Peers ==
  /\ \E c \in Conns :
       \/ acceptorOpen /\ PeerConnect(c)
       \/ PeerReceive(c)
       \/ \E l \in Lines : PeerSend(c, l)
       \/ \E how \in {"fin", "rst", "lost"} : PeerGone(c, how)
       \/ (\A h \in completed : h.conn # c) /\ Release(c)
  /\ UNCHANGED lifeVars

LifecycleNext == Control \/ Threads \/ (\E w \in Workers : LeaveRun(w)) \/ Crash \/ Peers

LifecycleSpec == LifecycleInit /\ [][LifecycleNext]_allVars

-----------------------------------------------------------------------------
(* Properties *)

\* The limit holds through the first run of a server object, its stop included:
\* no client is counted past it, whatever stop() does to the list meanwhile.
CapacityInFirstRun ==
  [][starts <= 1 /\ counter' > counter => counter' <= maxConnections]_allVars

\* Once stop() has returned no thread runs a handler, until start() returns.
NothingRunsWhenDown ==
  control = "down" => alive = {} /\ mutex = NoWorker /\ \A w \in Workers : at[w] = "idle"

=============================================================================
