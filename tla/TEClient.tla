------------------------------ MODULE TEClient ------------------------------
(***************************************************************************)
(* Objects of class Client ("Target Environment/Client/Client.cpp"), each  *)
(* used by one thread, against the running server of TEServer.  A call is  *)
(* one step up to the point where it blocks for an answer, and one step    *)
(* from there to its return.  The peers of TEServer are these clients and  *)
(* the network, which may refuse a connection, reset it, or lose it        *)
(* without a word to either end.                                           *)
(*                                                                         *)
(* setlocale changes the whole process.  get_targets sets "en", where the  *)
(* system has it, before it formats its numbers, and every new Client      *)
(* sets the user's own locale, so formatting may meet either; with a       *)
(* decimal comma the server finds no JSON in the request.                  *)
(***************************************************************************)
EXTENDS TEServer

CONSTANTS
  Clients,          \* Client objects, each with a thread of its own
  DecimalComma,     \* the user's own locale writes a decimal comma
  NetFaults,        \* the network faults this instance allows
  FaultBound        \* bound: clients the network has failed at a time

Closed   == "closed"     \* no descriptor
Unbound  == "unbound"    \* open, not connected: connect() failed
Dead     == "dead"       \* open, its connection reset: of no further use
Lost     == "lost"       \* open, its connection silent: a call blocks on it
Unusable == {Closed, Unbound, Dead, Lost}

ASSUME ClientAssumption ==
  /\ DecimalComma \in BOOLEAN
  /\ NetFaults \subseteq {"connect_error", "connection_reset"}
  /\ Conns \cap Unusable = {} /\ FaultBound \in Nat

VARIABLES
  call,        \* what the client's thread is doing; "none": not constructed
  socket,      \* _socket: a connection, or one of Unusable
  connected,   \* _connected
  configured,  \* _config_loaded
  asked,       \* the area of the request being made
  locale,      \* the locale of the process
  deaf         \* history: an accept of the server has failed

clientVars == <<call, socket, connected, configured, asked, locale>>
systemVars == <<vars, clientVars, deaf>>

SystemInit ==
  /\ Init
  /\ call = [k \in Clients |-> "none"]
  /\ socket = [k \in Clients |-> Closed]
  /\ connected = [k \in Clients |-> FALSE]
  /\ configured = [k \in Clients |-> FALSE]
  /\ asked = [k \in Clients |-> NoLine]
  /\ locale = "system" /\ deaf = FALSE

-----------------------------------------------------------------------------
(* The client's end of a connection *)

Bound(k) == socket[k] \in Conns

\* The descriptor is closed: unread input makes it a reset.
CloseBound(k) ==
  IF Bound(k) THEN PeerGone(socket[k], IF outbox[socket[k]] = << >> THEN "fin" ELSE "rst")
              ELSE UNCHANGED vars

MayFail == Cardinality({k \in Clients : socket[k] \in {Unbound, Dead, Lost}}) < FaultBound

Back(k) == call' = [call EXCEPT ![k] = "idle"]

\* Mutation, used by no specification: disconnect() forgets the flag.
CloseClientConnected(k) ==
  /\ UNCHANGED connected
  /\ CloseBound(k)
  /\ socket' = [socket EXCEPT ![k] = IF Bound(k) THEN Closed ELSE @]

\* close_client: a socket that cannot be shut down is not closed either.
CloseClient(k) ==
  /\ connected' = [connected EXCEPT ![k] = FALSE]
  /\ CloseBound(k)
  /\ socket' = [socket EXCEPT ![k] = IF Bound(k) THEN Closed ELSE @]

(* Mutations, used by no specification. *)

\* the destructor forgets the socket
DestroyLeaking(k) ==
  /\ call[k] = "idle"
  /\ call' = [call EXCEPT ![k] = "none"]
  /\ socket' = [socket EXCEPT ![k] = Closed]
  /\ connected' = [connected EXCEPT ![k] = FALSE]
  /\ configured' = [configured EXCEPT ![k] = FALSE]
  /\ asked' = [asked EXCEPT ![k] = NoLine]
  /\ UNCHANGED <<vars, locale>>

\* get_targets() gives up waiting at once and keeps the connection
WriteUnanswered(k) ==
  /\ call[k] = "formatting" /\ Bound(k)
  /\ PeerSend(socket[k], IF locale = "system" /\ DecimalComma THEN Malformed ELSE asked[k])
  /\ Back(k)
  /\ UNCHANGED <<socket, connected, configured, asked, locale>>

-----------------------------------------------------------------------------
(* The operations of Client *)

Construct(k) ==
  /\ call[k] = "none"
  /\ Back(k)
  /\ locale' = "system"
  /\ UNCHANGED <<vars, socket, connected, configured, asked>>

\* ~Client: closes the socket whatever shutdown says.
Destroy(k) ==
  /\ call[k] = "idle"
  /\ CloseBound(k)
  /\ call' = [call EXCEPT ![k] = "none"]
  /\ socket' = [socket EXCEPT ![k] = Closed]
  /\ connected' = [connected EXCEPT ![k] = FALSE]
  /\ configured' = [configured EXCEPT ![k] = FALSE]
  /\ asked' = [asked EXCEPT ![k] = NoLine]
  /\ UNCHANGED locale

\* load_config: refused when connected; a failed load changes nothing.
LoadConfig(k) ==
  /\ call[k] = "idle" /\ ~connected[k]
  /\ configured' = [configured EXCEPT ![k] = TRUE]
  /\ UNCHANGED <<vars, call, socket, connected, asked, locale>>

\* connect: a socket still open from an earlier attempt cannot be connected again.
Connect(k) ==
  /\ call[k] = "idle" /\ ~connected[k] /\ configured[k] /\ socket[k] \in {Closed, Unbound}
  /\ \E c \in Conns :
       /\ PeerConnect(c)
       /\ socket' = [socket EXCEPT ![k] = c]
  /\ call' = [call EXCEPT ![k] = "registering"]
  /\ UNCHANGED <<connected, configured, asked, locale>>

ConnectError(k) ==
  /\ "connect_error" \in NetFaults /\ MayFail
  /\ call[k] = "idle" /\ ~connected[k] /\ configured[k] /\ socket[k] = Closed
  /\ socket' = [socket EXCEPT ![k] = Unbound]
  /\ UNCHANGED <<vars, call, connected, configured, asked, locale>>

\* The answer to connect: only RegisterSuccess makes the client connected, and
\* whatever else arrives, the socket stays open.
Registered(k) ==
  /\ call[k] = "registering" /\ Bound(k)
  /\ PeerReceive(socket[k])
  /\ connected' = [connected EXCEPT ![k] = Head(outbox[socket[k]]).msg = "TE_RegisterSuccess"]
  /\ Back(k)
  /\ UNCHANGED <<socket, configured, asked, locale>>

\* End of file or an error instead of an answer.
RegisterError(k) ==
  /\ call[k] = "registering"
  /\ Bound(k) => sock[socket[k]] \in {"closed", "reset"} /\ outbox[socket[k]] = << >>
  /\ Back(k)
  /\ UNCHANGED <<vars, socket, connected, configured, asked, locale>>

Disconnect(k) ==
  /\ call[k] = "idle"
  /\ CloseClient(k)
  /\ UNCHANGED <<call, configured, asked, locale>>

\* get_targets, up to the formatting of the request
GetTargets(k, a) ==
  /\ call[k] = "idle" /\ connected[k]
  /\ call' = [call EXCEPT ![k] = "formatting"]
  /\ asked' = [asked EXCEPT ![k] = a]
  /\ locale' \in {"en", locale}
  /\ UNCHANGED <<vars, socket, connected, configured>>

Write(k) ==
  /\ call[k] = "formatting" /\ Bound(k)
  /\ PeerSend(socket[k], IF locale = "system" /\ DecimalComma THEN Malformed ELSE asked[k])
  /\ call' = [call EXCEPT ![k] = "waiting"]
  /\ UNCHANGED <<socket, connected, configured, asked, locale>>

\* The answer; what deserialize makes of it is the subject of TargetAnswers.
Answered(k) ==
  /\ call[k] = "waiting" /\ Bound(k)
  /\ PeerReceive(socket[k])
  /\ Back(k)
  /\ asked' = [asked EXCEPT ![k] = NoLine]
  /\ UNCHANGED <<socket, connected, configured, locale>>

\* The write or the read fails: close_client, which fails as well.
RequestError(k) ==
  /\ call[k] \in {"formatting", "waiting"} /\ ~Bound(k)
  /\ CloseClient(k)
  /\ Back(k)
  /\ asked' = [asked EXCEPT ![k] = NoLine]
  /\ UNCHANGED <<configured, locale>>

-----------------------------------------------------------------------------
(* The network *)

\* A connection is reset: both ends learn it, and nothing on it is delivered.
ConnectionReset(k) ==
  /\ "connection_reset" \in NetFaults /\ MayFail
  /\ Bound(k) /\ PeerGone(socket[k], "rst")
  /\ socket' = [socket EXCEPT ![k] = Dead]
  /\ UNCHANGED <<call, connected, configured, asked, locale>>

\* A connection is lost: neither end learns it, unless its system gives up a write.
ConnectionLost(k) ==
  /\ MayFail /\ Bound(k) /\ PeerGone(socket[k], "lost")
  /\ socket' = [socket EXCEPT ![k] = Lost]
  /\ UNCHANGED <<call, connected, configured, asked, locale>>

Network(k) == ConnectionReset(k) \/ ConnectionLost(k)

ClientStep(k) ==
  \/ Construct(k) \/ Destroy(k) \/ LoadConfig(k)
  \/ Connect(k) \/ ConnectError(k) \/ Registered(k) \/ RegisterError(k) \/ Disconnect(k)
  \/ \E a \in Areas : GetTargets(k, a)
  \/ Write(k) \/ Answered(k) \/ RequestError(k)

SystemNext ==
  \/ ServerNext /\ UNCHANGED clientVars /\ deaf' = (deaf \/ OnAcceptError)
  \/ \E c \in Conns : Release(c) /\ UNCHANGED <<clientVars, deaf>>
  \/ \E k \in Clients : (ClientStep(k) \/ Network(k)) /\ UNCHANGED deaf

SystemSpec == SystemInit /\ [][SystemNext]_systemVars

(* io_service keeps completed operations in a FIFO queue and the kernel     *)
(* keeps the backlog in one, so a completed operation is not overtaken for  *)
(* ever; a handler waiting for the mutex, whose holders never block, or for *)
(* room in a send buffer gets it in the end (SF).  A client's call that     *)
(* waits returns when there is something to return with (WF), but for one   *)
(* on a lost connection, which may wait for ever; that a call is made at    *)
(* all is up to the application.                                            *)
SystemFairness ==
  /\ \A w \in Workers : SF_systemVars(Continue(w) /\ UNCHANGED <<clientVars, deaf>>)
  /\ \A c \in Conns :
       /\ SF_systemVars((\E w \in Workers : OnAccept(w, c)) /\ UNCHANGED <<clientVars, deaf>>)
       /\ SF_systemVars((\E w \in Workers : OnRead(w, c) \/ OnReadClosed(w, c)) /\ UNCHANGED <<clientVars, deaf>>)
  /\ \A k \in Clients :
       WF_systemVars(/\ socket[k] # Lost /\ UNCHANGED deaf
                     /\ \/ Registered(k) \/ RegisterError(k) \/ Write(k)
                        \/ Answered(k) \/ RequestError(k))

SystemLiveSpec == SystemSpec /\ SystemFairness

-----------------------------------------------------------------------------
(* Properties *)

\* A client that believes it is connected is in the server's list, or its
\* connection is broken; and no two clients share a connection.
ConnectedAreRegistered ==
  \A k \in Clients :
    /\ connected[k] => socket[k] \in clients \cup {Dead, Lost}
    /\ Bound(k) => \A j \in Clients \ {k} : socket[j] # socket[k]

\* The places of the server are held by live clients: one in the list has a
\* client object on the other end, or is on its way out, or its connection was
\* lost without a word.
PlacesHeldByClients ==
  \A c \in clients : (\E k \in Clients : socket[k] = c) \/ peer[c] \in {"fin", "rst", "lost"}

\* Requests and answers of one connection never get out of step.  While a client
\* waits, exactly one message of its request is on the way: in the server's
\* input, in the hands of a worker, or coming back; otherwise there is none.
InHand(c) == {w \in Workers : cur[w] = c /\ at[w] \in {"parse", "respond"}}
OnTheWay(c) == Len(inbox[c]) + Cardinality(InHand(c)) + Len(outbox[c]) + Len(lateOut[c])

RequestsInStep ==
  \A k \in Clients : connected[k] /\ Bound(k) =>
    LET c == socket[k] IN
      /\ OnTheWay(c) = (IF call[k] = "waiting" THEN 1 ELSE 0)
      /\ \A i \in DOMAIN outbox[c] :
           outbox[c][i] \in {TargetsList(asked[k]), Message("TE_RequestFail")}

\* connect() and get_targets() block without a time limit: they return because
\* the server answers, or because the connection ends.  Two things keep them for
\* ever: a connection lost without a word, and, for connect(), a server whose
\* accept has failed once, after which it accepts nobody.
NotAccepted(k) == deaf /\ call[k] = "registering" /\ Bound(k) /\ sock[socket[k]] = "backlog"

CallsReturn ==
  \A k \in Clients : call[k] # "idle" ~> call[k] \in {"idle", "none"} \/ socket[k] = Lost \/ NotAccepted(k)
=============================================================================
