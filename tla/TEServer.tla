------------------------------ MODULE TEServer ------------------------------
(***************************************************************************)
(* The Target Environment server while it is running: the asynchronous     *)
(* handlers of "Target Environment/Server/Server.cpp" executed by a pool   *)
(* of threads that all call io_service::run().                             *)
(*                                                                         *)
(* One TCP connection is one member of Conns.  A member is used again      *)
(* after both ends have closed and no handler refers to it (Release).      *)
(* Worker w executes one handler at a time; at[w] is the statement it has  *)
(* reached, cur[w] the connection and line[w] the request of its handler.  *)
(* The peers are an arbitrary environment here: they connect, send lines   *)
(* without waiting for answers, stop reading, close, reset or vanish.      *)
(***************************************************************************)
EXTENDS Naturals, Sequences, FiniteSets

CONSTANTS
  Conns,          \* TCP connections
  Workers,        \* threads of _work_threads
  MaxChoices,     \* values te_settings.max_connections may have
  Areas,          \* well-formed requests, named by the area they search
  Malformed,      \* any line on_read answers with TE_RequestFail
  NoConn, NoLine, NoWorker,
  InBound,        \* bound: lines of one peer the server has not yet handled
  OutBound,       \* messages the send buffer of one connection holds
  Faults          \* the faults of the environment this instance allows

Lines == Areas \cup {Malformed}

Message(m)     == [msg |-> m, area |-> NoLine]
TargetsList(a) == [msg |-> "TE_TargetsList", area |-> a]
Replies == {Message(m) : m \in {"TE_RegisterSuccess", "TE_RegisterFail", "TE_RequestFail"}}
             \cup {TargetsList(a) : a \in Areas}

AcceptSteps == {"accepted", "lock_insert", "insert", "start_read", "register", "start_accept"}
ReadSteps   == {"parse", "respond", "shutdown", "lock_erase", "erase"}
Steps == {"idle", "decrement"} \cup AcceptSteps \cup ReadSteps

ASSUME ServerAssumption ==
  /\ IsFiniteSet(Conns) /\ IsFiniteSet(Workers)
  /\ MaxChoices \subseteq Nat
  /\ NoConn \notin Conns /\ NoWorker \notin Workers
  /\ NoLine \notin Lines /\ Malformed \notin Areas
  /\ InBound \in Nat /\ OutBound \in Nat \ {0}
  /\ Faults \subseteq {"accept_error", "insert_failure", "connection_lost"}

VARIABLES
  maxConnections,  \* _max_connections
  acceptPending,   \* an async_accept is outstanding
  clients,         \* _clients
  counter,         \* _clients_counter
  mutex,           \* holder of _clients_mutex
  reading,         \* connections with an outstanding async_read_until
  at, cur, line,   \* per worker: next statement, connection, request
  sock,            \* the server's end of each connection
  peer,            \* the other end
  inbox,           \* lines sent by the peer and not yet given to on_read
  outbox,          \* messages in the send buffer, not yet read by the peer
  lateOut          \* RequestFailMsg of async_write calls waiting for room

poolVars == <<at, cur, line>>
listVars == <<clients, counter, mutex>>
linkVars == <<sock, peer, inbox, outbox, lateOut>>
vars == <<maxConnections, acceptPending, listVars, reading, poolVars, linkVars>>

TypeOK ==
  /\ maxConnections \in MaxChoices
  /\ acceptPending \in BOOLEAN
  /\ clients \in SUBSET Conns
  /\ counter \in Nat
  /\ mutex \in Workers \cup {NoWorker}
  /\ reading \in SUBSET Conns
  /\ at \in [Workers -> Steps]
  /\ cur \in [Workers -> Conns \cup {NoConn}]
  /\ line \in [Workers -> Lines \cup {NoLine}]
  /\ sock \in [Conns -> {"free", "backlog", "open", "closed", "reset"}]
  /\ peer \in [Conns -> {"none", "open", "fin", "rst", "lost"}]
  /\ inbox \in [Conns -> Seq(Lines)]
  /\ outbox \in [Conns -> Seq(Replies)]
  /\ lateOut \in [Conns -> Seq(Replies)]

\* No client and no thread in a handler; pending: is an accept outstanding?
Fresh(pending) ==
  /\ maxConnections \in MaxChoices
  /\ acceptPending = pending
  /\ clients = {} /\ counter = 0 /\ mutex = NoWorker
  /\ reading = {}
  /\ at = [w \in Workers |-> "idle"]
  /\ cur = [w \in Workers |-> NoConn]
  /\ line = [w \in Workers |-> NoLine]
  /\ sock = [c \in Conns |-> "free"]
  /\ peer = [c \in Conns |-> "none"]
  /\ inbox = [c \in Conns |-> << >>]
  /\ outbox = [c \in Conns |-> << >>]
  /\ lateOut = [c \in Conns |-> << >>]

\* Server::start() has returned: listening, with one accept outstanding.
Init == Fresh(TRUE)

-----------------------------------------------------------------------------
(* The worker threads *)

Goto(w, s) == at' = [at EXCEPT ![w] = s]

Pick(w, s, c, l) ==
  /\ at[w] = "idle"
  /\ Goto(w, s)
  /\ cur' = [cur EXCEPT ![w] = c]
  /\ line' = [line EXCEPT ![w] = l]

Return(w) ==
  /\ Goto(w, "idle")
  /\ cur' = [cur EXCEPT ![w] = NoConn]
  /\ line' = [line EXCEPT ![w] = NoLine]

\* A blocking write waits for room; to a peer that is gone it fails at once.
HasRoom(c) == peer[c] = "open" => Len(outbox[c]) < OutBound

Written(c, m) == IF peer[c] = "open" /\ sock[c] = "open"
                 THEN [outbox EXCEPT ![c] = Append(@, m)]
                 ELSE outbox

\* Closing a socket with unread input resets the connection.
ClosedEnd(c) == [sock EXCEPT ![c] = IF @ # "open" THEN @
                                    ELSE IF inbox[c] = << >> THEN "closed" ELSE "reset"]

-----------------------------------------------------------------------------
(* Mutations: each is what a definition below would be after a plausible      *)
(* mistake in the code.  No specification uses them.                          *)

\* start_accept() called first thing in on_accept
OnAcceptRearmed(w, c) ==
  /\ acceptPending /\ sock[c] = "backlog"
  /\ Pick(w, "accepted", c, NoLine)
  /\ sock' = [sock EXCEPT ![c] = "open"]
  /\ UNCHANGED <<maxConnections, acceptPending, listVars, reading, peer, inbox, outbox, lateOut>>

\* a refused peer ends the accept loop
RefuseForGood(w) ==
  /\ at[w] = "accepted" /\ counter = maxConnections
  /\ Return(w)
  /\ outbox' = Written(cur[w], Message("TE_RegisterFail"))
  /\ sock' = ClosedEnd(cur[w])
  /\ UNCHANGED <<maxConnections, acceptPending, listVars, reading, peer, inbox, lateOut>>

\* the mutex not released when a client is inserted
InsertKeepingLock(w) ==
  /\ at[w] = "insert"
  /\ Goto(w, "start_read")
  /\ clients' = clients \cup {cur[w]}
  /\ counter' = counter + 1
  /\ UNCHANGED <<maxConnections, acceptPending, mutex, reading, cur, line, linkVars>>

\* the place taken before the insertion is known to have succeeded
InsertFailureCounted(w) ==
  /\ "insert_failure" \in Faults
  /\ at[w] = "insert"
  /\ Goto(w, "start_accept")
  /\ counter' = counter + 1
  /\ mutex' = NoWorker
  /\ UNCHANGED <<maxConnections, acceptPending, clients, reading, cur, line, linkVars>>

\* start_accept() before the registration is written, and again at the end
RegisterRearming(w) ==
  /\ at[w] = "register" /\ HasRoom(cur[w])
  /\ Goto(w, "start_accept")
  /\ outbox' = Written(cur[w], Message("TE_RegisterSuccess"))
  /\ acceptPending' = TRUE
  /\ UNCHANGED <<maxConnections, listVars, reading, cur, line, sock, peer, inbox, lateOut>>

\* the next read started before the message is handled
OnReadRearmed(w, c) ==
  /\ c \in reading /\ sock[c] = "open" /\ inbox[c] # << >>
  /\ Pick(w, "parse", c, Head(inbox[c]))
  /\ inbox' = [inbox EXCEPT ![c] = Tail(@)]
  /\ UNCHANGED <<maxConnections, acceptPending, listVars, reading, sock, peer, outbox, lateOut>>

\* a bad line removes its client, or is answered without reading on
RejectClient(w) ==
  /\ at[w] = "parse" /\ line[w] = Malformed
  /\ Goto(w, "shutdown")
  /\ UNCHANGED <<maxConnections, acceptPending, listVars, reading, cur, line, linkVars>>

RejectAndForget(w) ==
  /\ at[w] = "parse" /\ line[w] = Malformed
  /\ Return(w)
  /\ outbox' = Written(cur[w], Message("TE_RequestFail"))
  /\ UNCHANGED <<maxConnections, acceptPending, listVars, reading, sock, peer, inbox, lateOut>>

-----------------------------------------------------------------------------
(* Server::on_accept and the start_accept that ends it *)

OnAccept(w, c) ==
  /\ acceptPending /\ sock[c] = "backlog"
  /\ Pick(w, "accepted", c, NoLine)
  /\ acceptPending' = FALSE
  /\ sock' = [sock EXCEPT ![c] = "open"]
  /\ UNCHANGED <<maxConnections, listVars, reading, peer, inbox, outbox, lateOut>>

\* The accept operation fails: the error is logged and nothing is accepted again.
OnAcceptError ==
  /\ "accept_error" \in Faults
  /\ acceptPending /\ \E w \in Workers : at[w] = "idle"
  /\ acceptPending' = FALSE
  /\ UNCHANGED <<maxConnections, listVars, reading, poolVars, linkVars>>

Refuse(w) ==
  /\ at[w] = "accepted" /\ counter = maxConnections
  /\ Goto(w, "start_accept")
  /\ outbox' = Written(cur[w], Message("TE_RegisterFail"))
  /\ UNCHANGED <<maxConnections, acceptPending, listVars, reading, cur, line,
                 sock, peer, inbox, lateOut>>

Admit(w) ==
  /\ at[w] = "accepted" /\ counter # maxConnections
  /\ Goto(w, "lock_insert")
  /\ UNCHANGED <<maxConnections, acceptPending, listVars, reading, cur, line, linkVars>>

Lock(w) ==
  /\ mutex = NoWorker
  /\ \/ at[w] = "lock_insert" /\ Goto(w, "insert")
     \/ at[w] = "lock_erase"  /\ Goto(w, "erase")
  /\ mutex' = w
  /\ UNCHANGED <<maxConnections, acceptPending, clients, counter, reading, cur, line, linkVars>>

Insert(w) ==
  /\ at[w] = "insert"
  /\ Goto(w, "start_read")
  /\ clients' = clients \cup {cur[w]}
  /\ counter' = counter + 1
  /\ mutex' = NoWorker
  /\ UNCHANGED <<maxConnections, acceptPending, reading, cur, line, linkVars>>

InsertFailure(w) ==
  /\ "insert_failure" \in Faults
  /\ at[w] = "insert"
  /\ Goto(w, "start_accept")
  /\ mutex' = NoWorker
  /\ UNCHANGED <<maxConnections, acceptPending, clients, counter, reading, cur, line, linkVars>>

StartRead(w) ==
  /\ at[w] = "start_read"
  /\ Goto(w, "register")
  /\ reading' = reading \cup {cur[w]}
  /\ UNCHANGED <<maxConnections, acceptPending, listVars, cur, line, linkVars>>

Register(w) ==
  /\ at[w] = "register" /\ HasRoom(cur[w])
  /\ Goto(w, "start_accept")
  /\ outbox' = Written(cur[w], Message("TE_RegisterSuccess"))
  /\ UNCHANGED <<maxConnections, acceptPending, listVars, reading, cur, line,
                 sock, peer, inbox, lateOut>>

\* The socket of a connection that was not inserted dies with the handler.
StartAccept(w) ==
  /\ at[w] = "start_accept"
  /\ Return(w)
  /\ acceptPending' = TRUE
  /\ sock' = IF cur[w] \in clients THEN sock ELSE ClosedEnd(cur[w])
  /\ UNCHANGED <<maxConnections, listVars, reading, peer, inbox, outbox, lateOut>>

-----------------------------------------------------------------------------
(* Server::on_read *)

OnRead(w, c) ==
  /\ c \in reading /\ sock[c] = "open" /\ inbox[c] # << >>
  /\ Pick(w, "parse", c, Head(inbox[c]))
  /\ reading' = reading \ {c}
  /\ inbox' = [inbox EXCEPT ![c] = Tail(@)]
  /\ UNCHANGED <<maxConnections, acceptPending, listVars, sock, peer, outbox, lateOut>>

\* error::eof, once everything the peer sent is read, or error::connection_reset
OnReadClosed(w, c) ==
  /\ c \in reading /\ sock[c] = "open"
  /\ \/ peer[c] = "fin" /\ inbox[c] = << >>
     \/ peer[c] = "rst"
  /\ Pick(w, "shutdown", c, NoLine)
  /\ reading' = reading \ {c}
  /\ UNCHANGED <<maxConnections, acceptPending, listVars, linkVars>>

\* Any other error is logged: nothing is read again and the client is kept.
OnReadError(c) ==
  /\ c \in reading /\ sock[c] = "open"
  /\ peer[c] = "lost" /\ inbox[c] = << >>
  /\ \E w \in Workers : at[w] = "idle"
  /\ reading' = reading \ {c}
  /\ UNCHANGED <<maxConnections, acceptPending, listVars, poolVars, linkVars>>

Shutdown(w) ==
  /\ at[w] = "shutdown"
  /\ Goto(w, "lock_erase")
  /\ sock' = ClosedEnd(cur[w])
  /\ lateOut' = [lateOut EXCEPT ![cur[w]] = << >>]
  /\ UNCHANGED <<maxConnections, acceptPending, listVars, reading, cur, line, peer, inbox, outbox>>

Erase(w) ==
  /\ at[w] = "erase"
  /\ Goto(w, "decrement")
  /\ clients' = clients \ {cur[w]}
  /\ mutex' = NoWorker
  /\ UNCHANGED <<maxConnections, acceptPending, counter, reading, cur, line, linkVars>>

Decrement(w) ==
  /\ at[w] = "decrement"
  /\ Return(w)
  /\ counter' = counter - 1
  /\ UNCHANGED <<maxConnections, acceptPending, clients, mutex, reading, linkVars>>

\* send_msg(RequestFailMsg) does not wait: without room the write is completed later.
RejectLine(w) ==
  LET c == cur[w]  fail == Message("TE_RequestFail") IN
  /\ at[w] = "parse" /\ line[w] = Malformed
  /\ Return(w)
  /\ IF lateOut[c] = << >> /\ HasRoom(c)
     THEN outbox' = Written(c, fail) /\ UNCHANGED lateOut
     ELSE lateOut' = [lateOut EXCEPT ![c] = Append(@, fail)] /\ UNCHANGED outbox
  /\ reading' = reading \cup {c}
  /\ UNCHANGED <<maxConnections, acceptPending, listVars, sock, peer, inbox>>

LateWrite(c) ==
  /\ lateOut[c] # << >> /\ HasRoom(c)
  /\ outbox' = Written(c, Head(lateOut[c]))
  /\ lateOut' = [lateOut EXCEPT ![c] = Tail(@)]
  /\ UNCHANGED <<maxConnections, acceptPending, listVars, reading, poolVars, sock, peer, inbox>>

ProcessRequest(w) ==
  /\ at[w] = "parse" /\ line[w] # Malformed
  /\ Goto(w, "respond")
  /\ UNCHANGED <<maxConnections, acceptPending, listVars, reading, cur, line, linkVars>>

Respond(w) ==
  /\ at[w] = "respond" /\ HasRoom(cur[w])
  /\ Return(w)
  /\ outbox' = Written(cur[w], TargetsList(line[w]))
  /\ reading' = reading \cup {cur[w]}
  /\ UNCHANGED <<maxConnections, acceptPending, listVars, sock, peer, inbox, lateOut>>

-----------------------------------------------------------------------------
(* The peers and the network *)

PeerConnect(c) ==
  /\ sock[c] = "free"
  /\ sock' = [sock EXCEPT ![c] = "backlog"]
  /\ peer' = [peer EXCEPT ![c] = "open"]
  /\ UNCHANGED <<maxConnections, acceptPending, listVars, reading, poolVars, inbox, outbox, lateOut>>

PeerSend(c, l) ==
  /\ peer[c] = "open" /\ sock[c] \in {"backlog", "open"}
  /\ Len(inbox[c]) + Len(lateOut[c]) < InBound
  /\ inbox' = [inbox EXCEPT ![c] = Append(@, l)]
  /\ UNCHANGED <<maxConnections, acceptPending, listVars, reading, poolVars, sock, peer, outbox, lateOut>>

PeerReceive(c) ==
  /\ peer[c] = "open" /\ outbox[c] # << >>
  /\ outbox' = [outbox EXCEPT ![c] = Tail(@)]
  /\ UNCHANGED <<maxConnections, acceptPending, listVars, reading, poolVars, sock, peer, inbox, lateOut>>

\* How a peer goes: in order, by a reset, or by vanishing from the network.
PeerGone(c, how) ==
  /\ peer[c] = "open"
  /\ how = "lost" => "connection_lost" \in Faults
  /\ peer' = [peer EXCEPT ![c] = how]
  /\ outbox' = [outbox EXCEPT ![c] = << >>]
  /\ UNCHANGED <<maxConnections, acceptPending, listVars, reading, poolVars, sock, inbox, lateOut>>

\* Both ends are closed and nothing refers to the connection: use it again.
Release(c) ==
  /\ sock[c] \in {"closed", "reset"} /\ peer[c] # "open"
  /\ c \notin clients \cup reading /\ \A w \in Workers : cur[w] # c
  /\ sock' = [sock EXCEPT ![c] = "free"]
  /\ peer' = [peer EXCEPT ![c] = "none"]
  /\ inbox' = [inbox EXCEPT ![c] = << >>]
  /\ outbox' = [outbox EXCEPT ![c] = << >>]
  /\ lateOut' = [lateOut EXCEPT ![c] = << >>]
  /\ UNCHANGED <<maxConnections, acceptPending, listVars, reading, poolVars>>

-----------------------------------------------------------------------------
Dispatch(w) == \E c \in Conns : OnAccept(w, c) \/ OnRead(w, c) \/ OnReadClosed(w, c)

Continue(w) ==
  \/ Refuse(w) \/ Admit(w) \/ Lock(w) \/ Insert(w) \/ InsertFailure(w)
  \/ StartRead(w) \/ Register(w) \/ StartAccept(w)
  \/ Shutdown(w) \/ Erase(w) \/ Decrement(w)
  \/ RejectLine(w) \/ ProcessRequest(w) \/ Respond(w)

ServerNext ==
  \/ \E w \in Workers : Dispatch(w) \/ Continue(w)
  \/ \E c \in Conns : OnReadError(c) \/ LateWrite(c)
  \/ OnAcceptError

PeerNext ==
  \E c \in Conns :
    \/ PeerConnect(c) \/ PeerReceive(c) \/ Release(c)
    \/ \E l \in Lines : PeerSend(c, l)
    \/ \E how \in {"fin", "rst", "lost"} : PeerGone(c, how)

Next == ServerNext \/ PeerNext

Spec == Init /\ [][Next]_vars

-----------------------------------------------------------------------------
(* Properties *)

Accepting == {w \in Workers : at[w] \in AcceptSteps}
Decrementing == {w \in Workers : at[w] = "decrement"}
Serving(c) == {w \in Workers : cur[w] = c /\ at[w] \in ReadSteps}

\* on_accept compares the counter with the limit, lets go of it, and adds one
\* under a lock the removal of a client does not hold when it subtracts.  The
\* limit is still never passed: clients <= counter <= max_connections, and the
\* counter is ahead of the list by the removals between erase and decrement.
CapacityRespected ==
  /\ counter <= maxConnections
  /\ counter = Cardinality(clients) + Cardinality(Decrementing)

\* At most one accept is outstanding or being handled: what makes the check in
\* on_accept and the insertion after it safe against each other.
OneAcceptAtATime ==
  /\ \A v, w \in Accepting : v = w
  /\ acceptPending => Accepting = {}

\* Handlers hold list iterators.  Each client has at most one read outstanding
\* or being handled, and the iterator of every such handler is still in the list.
IteratorsValid ==
  \A c \in Conns :
    /\ \A v, w \in Serving(c) : v = w
    /\ c \in reading => Serving(c) = {}
    /\ Serving(c) # {} \/ c \in reading => c \in clients

\* The server removes a client only after that client has gone.
OnlyGoneClientsRemoved ==
  [][\A c \in clients \ clients' : peer[c] \in {"fin", "rst"}]_vars

\* A client in the list whose connection is broken and on which nothing is read
\* any more is one whose read failed with neither eof nor reset; every other
\* broken connection still has the handler that will remove it.
OnlyLostClientsStranded ==
  \A c \in clients :
    c \notin reading /\ Serving(c) = {} /\ (\A w \in Accepting : cur[w] # c)
      => peer[c] = "lost"

\* The inductive strengthening of the invariants above.
\* A handler has the connection and the line it works on.
HandlerData ==
  \A w \in Workers :
    /\ at[w] # "idle" => cur[w] \in Conns
    /\ at[w] = "parse" => line[w] \in Lines
    /\ at[w] = "respond" => line[w] \in Areas

\* A connection that is not accepted is in no list and no handler; one that is
\* being accepted belongs to that handler alone until its first read is started.
FreshConnections ==
  /\ \A c \in Conns : sock[c] \in {"free", "backlog"} =>
       c \notin clients \cup reading /\ \A w \in Workers : cur[w] # c
  /\ \A w \in Workers :
       /\ at[w] \in {"accepted", "lock_insert", "insert"} => cur[w] \notin clients \cup reading
       /\ at[w] = "start_read" => cur[w] \in clients \ reading
       /\ at[w] \in {"accepted", "lock_insert", "insert", "start_read"} =>
            \A v \in Workers \ {w} : cur[v] # cur[w]

\* A client admitted and not yet inserted still finds room.
RoomKept ==
  \A w \in Workers : at[w] \in {"lock_insert", "insert"} => counter < maxConnections

\* A client is being removed only because its peer has gone.
RemovalsJustified ==
  \A w \in Workers : at[w] \in {"shutdown", "lock_erase", "erase"} => peer[cur[w]] \in {"fin", "rst"}

IndInv ==
  /\ TypeOK /\ HandlerData /\ FreshConnections
  /\ OneAcceptAtATime /\ IteratorsValid /\ RoomKept /\ CapacityRespected /\ RemovalsJustified

\* The place of a client that closed or reset its connection is given back.
PlaceGivenBack ==
  \A c \in Conns : c \in clients /\ peer[c] \in {"fin", "rst"} ~> c \notin clients
=============================================================================
