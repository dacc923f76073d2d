---- MODULE MessageBroker ----
(***************************************************************************)
(* The message broker: a server that passes on what its clients publish,   *)
(* and clients that run as in MessageBroker/Tests/main.cpp.  A client has  *)
(* the main thread, which sends and stops, the thread that starts the      *)
(* heartbeat and processes the messages, and the heartbeat thread.         *)
(*                                                                         *)
(* A message is its sender, the number of its sending and its type.  No    *)
(* client subscribes to heartbeats, so a publisher drops them.  ZeroMQ     *)
(* itself is external: what it does is taken from how the code uses it.    *)
(***************************************************************************)
EXTENDS Integers, Sequences, FiniteSets, Functions, SequencesExt

CONSTANTS Clients, Types,
          Peers,      \* clients of which only the sending is followed
          Begins,   \* <<s, t>> when the text of type s is a prefix of that of t
          MaxCalls    \* bound: messages of all senders and starts of the server

ASSUME BrokerAssumption == (\A t \in Types : <<t, t>> \in Begins) /\ Clients \cap Peers = {}

VARIABLES
  client,   \* client[c]: where its threads stand, its flags and sockets
  server,   \* the server's two threads and its context
  wanted,   \* wanted[c]: what the client's _input is subscribed to
  subs,     \* subs[c]: what the server knows of that
  filter,   \* filter[c]: the types the client's _output sends at all
  up,       \* up[c]: messages on the way to the server
  down,     \* down[c]: messages on the way to the client
  sent,     \* sent[c]: how many messages it has sent
  due,      \* history: due[c]: what must reach a handler of the client
  handled   \* history: handled[c]: what its handlers were called with

net == <<wanted, subs, filter, up, down, sent>>
history == <<due, handled>>
vars == <<client, server, net, history>>

Senders == Clients \cup Peers

\* ZMQ_SUBSCRIBE compares prefixes.
Matches(t, types) == \E s \in types : <<s, t>> \in Begins
MayCall == FoldFunctionOnSet(+, 0, sent, Senders) + server.starts < MaxCalls
Known == UNION {subs[d] : d \in Clients}

Init ==
  /\ client = [c \in Clients |->
       [main |-> "start", loop |-> "none", hb |-> "none", heartbeat_start |-> FALSE,
        message_processing |-> FALSE, open |-> FALSE, handlers |-> {}, type |-> "none",
        overlapped |-> FALSE, crashed |-> FALSE]]
  /\ server = [start |-> "idle", ctx |-> FALSE, stop |-> "idle", starts |-> 0]
  /\ wanted = [c \in Clients |-> {}] /\ subs = wanted /\ due = wanted
  /\ down = [c \in Clients |-> <<>>] /\ handled = down
  /\ filter = [c \in Senders |-> {}]
  /\ up = [c \in Senders |-> <<>>]
  /\ sent = [c \in Senders |-> 0]


Running(c) == client[c].loop \in {"test", "poll"}

\* The client moves on.
Moves(c, new) == client' = [client EXCEPT ![c] = new]

----------------------------------------------------------------------------
(* Mutations: each is what a definition below would be after a plausible   *)
(* slip.                                                                   *)

\* One subscription instead of one for every handler.
SubscribeOnce(c) ==
  /\ client[c].loop = "subscribe"
  /\ Moves(c, [client[c] EXCEPT !.loop = IF client[c].handlers = {} THEN "threw" ELSE "flag"])
  /\ \E t \in Types : wanted' = [wanted EXCEPT ![c] = {t} \cap client[c].handlers]
  /\ UNCHANGED <<server, subs, filter, up, down, sent, history>>

\* The empty subscription, which takes everything.
SubscribeToAll(c) ==
  /\ client[c].loop = "subscribe"
  /\ Moves(c, [client[c] EXCEPT !.loop = IF client[c].handlers = {} THEN "threw" ELSE "flag"])
  /\ wanted' = [wanted EXCEPT ![c] = Types]
  /\ UNCHANGED <<server, subs, filter, up, down, sent, history>>

\* The heartbeat is left running.
StopHeartbeatForgotten(c) ==
  /\ client[c].main = "idle"
  /\ Moves(c, [client[c] EXCEPT !.main = "stopping",
               !.overlapped = client[c].overlapped \/ client[c].hb \in {"send", "sending"}
                                \/ client[c].loop \in {"heartbeat", "beat"}])
  /\ UNCHANGED <<server, net, history>>

\* The loop looks at the flag only when it begins.
WhileTrue(c) ==
  /\ client[c].loop = "test"
  /\ Moves(c, [client[c] EXCEPT !.loop = "poll"])
  /\ UNCHANGED <<server, net, history>>

----------------------------------------------------------------------------
(* The client's main thread.                                               *)

\* A client whose _output cannot connect throws; one whose _input cannot
\* waits in _ctx.reset() for a socket that is still open.
Connect(c) ==
  /\ client[c].main = "start"
  /\ \/ Moves(c, [client[c] EXCEPT !.main = "register", !.open = TRUE])
     \/ \E end \in {"ended", "hung"} : Moves(c, [client[c] EXCEPT !.main = end])
  /\ UNCHANGED <<server, net, history>>

\* register_handler for each type, and the thread is created.
Register(c, types) ==
  /\ client[c].main = "register"
  /\ Moves(c, [client[c] EXCEPT !.main = "idle", !.handlers = types, !.loop = "heartbeat"])
  /\ UNCHANGED <<server, net, history>>

\* send_message uses _output without a lock, and so does the heartbeat; two at
\* once, or a socket that is gone, and anything may happen.
BeginSend(c, t) ==
  /\ client[c].main = "idle" /\ MayCall
  /\ Moves(c, [client[c] EXCEPT !.main = "sending", !.type = t,
               !.overlapped = client[c].overlapped \/ client[c].hb = "sending"])
  /\ sent' = [sent EXCEPT ![c] = @ + 1]
  /\ UNCHANGED <<server, wanted, subs, filter, up, down, history>>

\* The subscriptions are where nothing can be missed.
Settled(c, d) ==
  server.start = "proxy" /\ Running(d) /\ subs[d] = wanted[d] /\ filter[c] = Known

Publish(m) == up' = [up EXCEPT ![m.from] = IF Matches(m.type, filter[m.from]) THEN Append(@, m) ELSE @]
MustReach(m) ==
  due' = [d \in Clients |-> IF Settled(m.from, d) /\ m.type \in client[d].handlers THEN due[d] \cup {m} ELSE due[d]]

EndSend(c) ==
  LET m == [from |-> c, n |-> sent[c], type |-> client[c].type] IN
  /\ client[c].main = "sending"
  /\ Moves(c, [client[c] EXCEPT !.main = "idle", !.type = "none"])
  /\ \/ Publish(m) /\ (IF client[c].overlapped THEN UNCHANGED due ELSE MustReach(m))
     \/ client[c].overlapped /\ UNCHANGED <<up, due>>
  /\ UNCHANGED <<server, wanted, subs, filter, down, sent, handled>>

PeerSends(p, t) ==
  LET m == [from |-> p, n |-> sent[p] + 1, type |-> t] IN
  /\ MayCall
  /\ sent' = [sent EXCEPT ![p] = @ + 1]
  /\ Publish(m) /\ MustReach(m)
  /\ UNCHANGED <<client, server, wanted, subs, filter, down, handled>>

\* The loop thread, or the heartbeat in the middle of a sending, may not have
\* got to where it would see the flag.
StopHeartbeat(c) ==
  /\ client[c].main = "idle"
  /\ Moves(c, [client[c] EXCEPT !.main = "stopping", !.heartbeat_start = FALSE,
               !.overlapped = client[c].overlapped \/ client[c].hb \in {"send", "sending"}
                                \/ client[c].loop \in {"heartbeat", "beat"}])
  /\ UNCHANGED <<server, net, history>>

StopProcessing(c) ==
  /\ client[c].main = "stopping"
  /\ Moves(c, [client[c] EXCEPT !.main = "join", !.message_processing = FALSE])
  /\ UNCHANGED <<server, net, history>>

Join(c) ==
  /\ client[c].main = "join" /\ client[c].loop \in {"ended", "threw"}
  /\ Moves(c, [client[c] EXCEPT !.main = "joined"])
  /\ UNCHANGED <<server, net, history>>

\* The object goes, with its sockets if the loop has left them open; nobody
\* has waited for the heartbeat, whose thread is detached.
Destroy(c) ==
  /\ client[c].main = "joined"
  /\ Moves(c, [client[c] EXCEPT !.main = IF client[c].open THEN "closing" ELSE "ended", !.open = FALSE,
               !.overlapped = client[c].overlapped \/ client[c].hb # "ended"])
  /\ wanted' = [wanted EXCEPT ![c] = {}]
  /\ down' = [down EXCEPT ![c] = <<>>]
  /\ UNCHANGED <<server, subs, filter, up, sent, history>>

----------------------------------------------------------------------------
(* The thread of the message queue: start_heartbeat,                       *)
(* start_message_processing, disconnect.                                   *)

CreateHeartbeat(c) ==
  /\ client[c].loop = "heartbeat"
  /\ Moves(c, [client[c] EXCEPT !.loop = "beat", !.hb = "test"])
  /\ UNCHANGED <<server, net, history>>

SetHeartbeat(c) ==
  /\ client[c].loop = "beat"
  /\ Moves(c, [client[c] EXCEPT !.loop = "subscribe", !.heartbeat_start = TRUE])
  /\ UNCHANGED <<server, net, history>>

Subscribe(c) ==
  /\ client[c].loop = "subscribe"
  /\ Moves(c, [client[c] EXCEPT !.loop = IF client[c].handlers = {} THEN "threw" ELSE "flag"])
  /\ wanted' = [wanted EXCEPT ![c] = client[c].handlers]
  /\ UNCHANGED <<server, subs, filter, up, down, sent, history>>

SetProcessing(c) ==
  /\ client[c].loop = "flag"
  /\ Moves(c, [client[c] EXCEPT !.loop = "test", !.message_processing = TRUE])
  /\ UNCHANGED <<server, net, history>>

While(c) ==
  /\ client[c].loop = "test"
  /\ Moves(c, [client[c] EXCEPT !.loop = IF client[c].message_processing THEN "poll" ELSE "disconnect"])
  /\ UNCHANGED <<server, net, history>>

\* A message without a handler leaves the loop with the flag still set.
Poll(c) ==
  /\ client[c].loop = "poll"
  /\ IF down[c] = <<>>
     THEN Moves(c, [client[c] EXCEPT !.loop = "test"]) /\ UNCHANGED <<down, handled>>
     ELSE /\ down' = [down EXCEPT ![c] = Tail(@)]
          /\ IF Head(down[c]).type \in client[c].handlers
             THEN /\ Moves(c, [client[c] EXCEPT !.loop = "test"])
                  /\ handled' = [handled EXCEPT ![c] = Append(@, Head(down[c]))]
             ELSE Moves(c, [client[c] EXCEPT !.loop = "threw"]) /\ UNCHANGED handled
  /\ UNCHANGED <<server, wanted, subs, filter, up, sent, due>>

\* disconnect does nothing while the flag is set; _connected stays as it is.
Disconnect(c) ==
  /\ client[c].loop = "disconnect"
  /\ IF client[c].message_processing
     THEN Moves(c, [client[c] EXCEPT !.loop = "ended"]) /\ UNCHANGED <<wanted, down>>
     ELSE /\ Moves(c, [client[c] EXCEPT !.loop = "closing", !.open = FALSE])
          /\ wanted' = [wanted EXCEPT ![c] = {}]
          /\ down' = [down EXCEPT ![c] = <<>>]
  /\ UNCHANGED <<server, subs, filter, up, sent, history>>

\* The context waits for what its closed sockets have not sent yet, in the
\* thread of the queue or in the destruction of the object.
CloseContext(c) ==
  /\ \/ client[c].loop = "closing" /\ Moves(c, [client[c] EXCEPT !.loop = "ended"])
     \/ client[c].main = "closing" /\ Moves(c, [client[c] EXCEPT !.main = "ended"])
  /\ UNCHANGED <<server, net, history>>

----------------------------------------------------------------------------
(* The heartbeat thread.                                                   *)

\* The flag of an object that is gone reads as anything.
TestHeartbeat(c) ==
  /\ client[c].hb = "test"
  /\ \E set \in BOOLEAN :
       /\ client[c].main = "ended" \/ set = client[c].heartbeat_start
       /\ Moves(c, [client[c] EXCEPT !.hb = IF set THEN "send" ELSE "ended"])
  /\ UNCHANGED <<server, net, history>>

BeginBeat(c) ==
  /\ client[c].hb = "send"
  /\ Moves(c, [client[c] EXCEPT !.hb = "sending", !.overlapped = client[c].overlapped \/ client[c].main = "sending"])
  /\ UNCHANGED <<server, net, history>>

\* A socket that is gone may be found out by an exception, which ends the thread.
EndBeat(c) ==
  /\ client[c].hb = "sending"
  /\ \/ Moves(c, [client[c] EXCEPT !.hb = "test"])
     \/ ~client[c].open /\ Moves(c, [client[c] EXCEPT !.hb = "ended", !.heartbeat_start = FALSE])
  /\ UNCHANGED <<server, net, history>>

\* The socket is gone, or two threads are in it.
Crash(c) ==
  /\ \/ ~client[c].open
     \/ client[c].main = "sending" /\ client[c].hb = "sending"
  /\ client[c].main = "sending" \/ client[c].hb = "sending"
  /\ Moves(c, [client[c] EXCEPT !.crashed = TRUE])
  /\ UNCHANGED <<server, net, history>>

----------------------------------------------------------------------------
(* The server's thread in start(), and the one that calls stop().          *)

\* A context an earlier start left behind is destroyed first, and waits for
\* sockets that are still open.
Start ==
  /\ server.start = "idle" /\ MayCall
  /\ server' = [server EXCEPT !.starts = @ + 1, !.ctx = TRUE,
                              !.start = IF server.ctx THEN "hung" ELSE "binding"]
  /\ UNCHANGED <<client, net, history>>

\* A port that is taken leaves start with the context and a socket.
Bind ==
  /\ server.start = "binding"
  /\ \E to \in {"proxy", "idle"} : server' = [server EXCEPT !.start = to]
  /\ UNCHANGED <<client, net, history>>

\* The server's sockets go with what they hold; what is still in a sender's own
\* socket stays there.
Gone ==
  /\ server' = [server EXCEPT !.start = "idle", !.stop = "idle", !.ctx = FALSE]
  /\ \E unsent \in SUBSET Senders : up' = [c \in Senders |-> IF c \in unsent THEN up[c] ELSE <<>>]
  /\ filter' = [c \in Senders |-> {}]
  /\ subs' = [c \in Clients |-> {}]
  /\ due' = [c \in Clients |-> {}]
  /\ UNCHANGED <<client, wanted, down, sent, handled>>

Stop ==
  /\ server.stop = "idle" /\ server.ctx
  /\ server' = [server EXCEPT !.stop = "sending"]
  /\ UNCHANGED <<client, net, history>>

\* stop() without a context dereferences a null pointer; one whose port 6666 is
\* taken throws, which main leaves with a thread that is still joinable.  Either
\* way the process ends, and another may be started.
StopFails == server.stop = "idle" /\ Gone

\* A request is sent once there is somebody to answer.
SendTerminate ==
  /\ server.stop = "sending" /\ server.start = "proxy"
  /\ server' = [server EXCEPT !.stop = "sent"]
  /\ UNCHANGED <<client, net, history>>

\* proxy_steerable returns, and sockets and context are destroyed.
Terminate == server.start = "proxy" /\ server.stop = "sent" /\ Gone

SubscriptionArrives(c) ==
  /\ server.start = "proxy" /\ subs[c] # wanted[c]
  /\ subs' = [subs EXCEPT ![c] = wanted[c]]
  /\ UNCHANGED <<client, server, wanted, filter, up, down, sent, history>>

SubscriptionPassedOn(c) ==
  /\ server.start = "proxy" /\ filter[c] # Known
  /\ filter' = [filter EXCEPT ![c] = Known]
  /\ UNCHANGED <<client, server, wanted, subs, up, down, sent, history>>

\* zmq_proxy: a message goes to every client with a subscription that fits.
PassOn(c) ==
  /\ server.start = "proxy" /\ up[c] # <<>>
  /\ up' = [up EXCEPT ![c] = Tail(@)]
  /\ down' = [d \in Clients |-> IF Matches(Head(up[c]).type, subs[d]) /\ client[d].open
                                THEN Append(down[d], Head(up[c])) ELSE down[d]]
  /\ UNCHANGED <<client, server, wanted, subs, filter, sent, history>>

----------------------------------------------------------------------------

Loop(c) ==
  \/ CreateHeartbeat(c) \/ SetHeartbeat(c) \/ Subscribe(c) \/ SetProcessing(c)
  \/ While(c) \/ Poll(c) \/ Disconnect(c)
Heartbeat(c) == TestHeartbeat(c) \/ BeginBeat(c) \/ EndBeat(c)
Main(c) ==
  \/ Connect(c) \/ EndSend(c) \/ StopHeartbeat(c) \/ StopProcessing(c) \/ Join(c) \/ Destroy(c)
  \/ \E types \in SUBSET Types : Register(c, types)
  \/ \E t \in Types : BeginSend(c, t)
Proxy ==
  \/ \E c \in Clients : SubscriptionArrives(c)
  \/ \E c \in Senders : SubscriptionPassedOn(c) \/ PassOn(c)
Stopping == SendTerminate \/ Terminate

Next ==
  \/ Start \/ Bind \/ Stop \/ StopFails \/ Stopping \/ Proxy
  \/ \E c \in Clients : ~client[c].crashed /\ (Main(c) \/ Loop(c) \/ CloseContext(c) \/ Heartbeat(c) \/ Crash(c))
  \/ \E p \in Peers, t \in Types : PeerSends(p, t)

\* Threads run, and what is unsent is sent while there is a server to take it.
\* Nobody has to connect, send or stop.
Fairness ==
  /\ \A c \in Clients :
       /\ WF_vars(~client[c].crashed /\ (StopProcessing(c) \/ Join(c) \/ Destroy(c)))
       /\ WF_vars(~client[c].crashed /\ Loop(c))
       /\ WF_vars(~client[c].crashed /\ (server.start = "proxy" \/ up[c] = <<>>) /\ CloseContext(c))
  /\ WF_vars(Bind) /\ WF_vars(Stopping)

Spec == Init /\ [][Next]_vars /\ Fairness

----------------------------------------------------------------------------

\* Once a client's loop runs and its subscriptions have settled, what anybody
\* sends of a type it has a handler for is on its way or handled, once, and
\* each sender's in the order sent (Client.cpp:229-276, Server.cpp:63).
DueHandled ==
  \A d \in Clients :
    /\ Running(d) => due[d] \subseteq ToSet(handled[d]) \cup ToSet(down[d]) \cup UNION {ToSet(up[c]) : c \in Senders}
    /\ \A i, j \in DOMAIN handled[d] :
         i < j /\ handled[d][i].from = handled[d][j].from => handled[d][i].n < handled[d][j].n

\* The loop is left by an exception only when the handlers invite it: there
\* is none, or the text of a type with one begins that of a type without
\* (Client.cpp:225, 231, 272).
LoopEndsByPrefix ==
  \A c \in Clients : client[c].loop = "threw" =>
    \/ client[c].handlers = {}
    \/ \E t \in Types \ client[c].handlers : Matches(t, client[c].handlers)

\* The sockets outlive their users, and have one at a time, with three
\* exceptions: a sending and a heartbeat overlap; the stop comes while a
\* heartbeat is being sent or before it has been started; the program destroys
\* its client while the heartbeat's thread, which is detached, still sleeps
\* (Client.cpp:107, 166-187, Tests/main.cpp:101-150).
QuietStopsNeverCrash == \A c \in Clients : client[c].crashed => client[c].overlapped

\* A stop that finds the loop running ends it and the program, if it does not
\* crash or wait for ever for messages that no server takes; a stop that comes
\* before the loop has set its flag is lost and not meant.  A server asked to
\* stop stops, once its stop has got its port, unless its start has failed
\* (Client.cpp:107-116, 241, 314, Server.cpp:63-68, 88-94).
Lingers(c) == "closing" \in {client[c].main, client[c].loop} /\ up[c] # <<>> /\ server.start # "proxy"
StopsTakeEffect ==
  /\ \A c \in Clients :
       \/ <>[]Lingers(c)
       \/ client[c].main = "join" /\ Running(c) /\ ~client[c].message_processing
            ~> client[c].main = "ended" \/ client[c].crashed
  /\ server.stop = "sending" ~> server.stop = "idle" \/ server.start \in {"idle", "hung"}

====
