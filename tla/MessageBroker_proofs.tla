------------------------- MODULE MessageBroker_proofs -------------------------
(***************************************************************************)
(* Proofs about MessageBroker for every set of clients, peers and types,   *)
(* every relation of prefixes and every number of messages and starts: a   *)
(* client's loop is ended by an exception only when its handlers invite    *)
(* it, the sockets outlive their users but for the named exceptions, and   *)
(* what is due reaches its handler once and in order.                      *)
(***************************************************************************)
EXTENDS MessageBroker, TLAPS

\* A message: its sender, the number of its sending, its type.
Sent == [from : Senders, n : Nat, type : Types]

Mains == {"start", "register", "idle", "sending", "stopping", "join", "joined", "closing", "ended", "hung"}
Loops == {"none", "heartbeat", "beat", "subscribe", "flag", "test", "poll", "disconnect", "closing", "ended", "threw"}

ClientRecords ==
  [main : Mains, loop : Loops, hb : {"none", "test", "send", "sending", "ended"}, heartbeat_start : BOOLEAN,
   message_processing : BOOLEAN, open : BOOLEAN, handlers : SUBSET Types, type : Types \cup {"none"},
   overlapped : BOOLEAN, crashed : BOOLEAN]

ServerRecords ==
  [start : {"idle", "hung", "binding", "proxy"}, ctx : BOOLEAN, stop : {"idle", "sending", "sent"},
   starts : Nat]

Typed ==
  /\ client \in [Clients -> ClientRecords]
  /\ \A d \in Clients : client[d].main = "sending" => client[d].type \in Types

TypeOK ==
  /\ Typed
  /\ server \in ServerRecords
  /\ wanted \in [Clients -> SUBSET Types]
  /\ subs \in [Clients -> SUBSET Types]
  /\ filter \in [Senders -> SUBSET Types]
  /\ up \in [Senders -> Seq(Sent)]
  /\ down \in [Clients -> Seq(Sent)]
  /\ sent \in [Senders -> Nat]
  /\ due \in [Clients -> SUBSET Sent]
  /\ handled \in [Clients -> Seq(Sent)]

\* Where the three threads can stand together.
Threads ==
  \A c \in Clients :
    /\ client[c].main \in {"start", "register", "hung"} => client[c].loop = "none"
    /\ client[c].loop = "none" => client[c].main \in {"start", "register", "ended", "hung"}
    /\ client[c].main \in {"joined", "closing", "ended"} => client[c].loop \in {"none", "ended", "threw"}
    /\ client[c].loop \in {"none", "heartbeat"} => client[c].hb = "none" /\ ~client[c].heartbeat_start

\* The sockets are open as long as somebody may use them.
Sockets ==
  \A c \in Clients :
    /\ client[c].main = "sending" /\ client[c].hb = "sending" => client[c].overlapped
    /\ ~client[c].open => client[c].main \in {"start", "join", "joined", "closing", "ended", "hung"}
    /\ client[c].loop \in Loops \ {"none", "closing", "ended", "threw"} => client[c].open
    /\ client[c].loop \in {"test", "poll", "disconnect", "closing"} /\ ~client[c].message_processing
         => client[c].main = "join"
    /\ client[c].loop = "closing" => client[c].main = "join"
    /\ client[c].main \in {"stopping", "join", "joined", "closing", "ended"} /\ ~client[c].overlapped
         => /\ client[c].hb \notin {"send", "sending"} /\ ~client[c].heartbeat_start
            /\ client[c].loop \notin {"heartbeat", "beat"}
    /\ client[c].main \in {"closing", "ended"} /\ ~client[c].overlapped => client[c].hb \in {"none", "ended"}

\* The subscriptions follow the handlers.
AllMatch(s, types) == \A i \in DOMAIN s : Matches(s[i].type, types)
Subscriptions ==
  \A c \in Clients :
    /\ client[c].loop = "none" =>
         client[c].handlers = {} /\ wanted[c] = {} /\ subs[c] = {} /\ down[c] = <<>>
    /\ wanted[c] \subseteq client[c].handlers /\ subs[c] \subseteq client[c].handlers
    /\ client[c].loop \in {"flag", "test", "poll"} => wanted[c] = client[c].handlers
    /\ AllMatch(down[c], client[c].handlers)

\* What is due is of a type with a handler, which the server knows about.
Dues ==
  \A d \in Clients :
    /\ \A m \in due[d] : m.type \in client[d].handlers
    /\ client[d].loop \notin {"test", "poll", "disconnect", "closing", "ended", "threw"} => due[d] = {}
    /\ Running(d) /\ due[d] # {} => subs[d] = client[d].handlers
OnTheWay(d) == ToSet(handled[d]) \cup ToSet(down[d]) \cup UNION {ToSet(up[c]) : c \in Senders}
Underway == \A d \in Clients : Running(d) => due[d] \subseteq OnTheWay(d)

\* Every sender's messages are in the order sent, all along the way.
Earlier(s, m) == \A i \in DOMAIN s : s[i].from = m.from => s[i].n < m.n
Ordered(s) == \A i, j \in DOMAIN s : i < j /\ s[i].from = s[j].from => s[i].n < s[j].n
Ahead(s, t) == \A j \in DOMAIN t : Earlier(s, t[j])
AllFrom(s, c) == \A i \in DOMAIN s : s[i].from = c
UpTo(s, last) == \A i \in DOMAIN s : s[i].n <= last[s[i].from]
Chain(s, t, u) == Ordered(s) /\ Ordered(t) /\ Ahead(s, t) /\ Ahead(s, u) /\ Ahead(t, u)

\* The number of the last message whose sending has ended.
LastSent == [c \in Senders |-> IF c \in Clients /\ client[c].main = "sending" THEN sent[c] - 1 ELSE sent[c]]

InOrder ==
  /\ \A c \in Senders : Ordered(up[c]) /\ AllFrom(up[c], c) /\ UpTo(up[c], LastSent)
  /\ \A d \in Clients : UpTo(handled[d], LastSent) /\ UpTo(down[d], LastSent)
  /\ \A d \in Clients, c \in Senders : Chain(handled[d], down[d], up[c])

\* The inductive invariant.
BrokerInv ==
  /\ TypeOK /\ Threads /\ Sockets /\ Subscriptions /\ LoopEndsByPrefix /\ QuietStopsNeverCrash
  /\ Dues /\ Underway /\ InOrder

-----------------------------------------------------------------------------
(* Types. *)

LEMMA Places ==
  /\ {"start", "register", "idle", "sending", "stopping", "join", "joined", "closing", "ended", "hung"} \subseteq Mains
  /\ {"none", "heartbeat", "beat", "subscribe", "flag", "test", "poll", "disconnect", "closing", "ended", "threw"} \subseteq Loops
  BY DEF Mains, Loops

LEMMA Moved ==
  ASSUME client \in [Clients -> ClientRecords], NEW c \in Clients, NEW new \in ClientRecords, Moves(c, new)
  PROVE  client' \in [Clients -> ClientRecords]
  BY DEF Moves

LEMMA ClientStep ==
  ASSUME Typed, Next
  PROVE  Typed'
<1> USE DEF Typed
<1>1. ASSUME Start  PROVE Typed'
  BY <1>1 DEF Start
<1>2. ASSUME Bind  PROVE Typed'
  BY <1>2 DEF Bind
<1>3. ASSUME Stop  PROVE Typed'
  BY <1>3 DEF Stop
<1>4. ASSUME SendTerminate  PROVE Typed'
  BY <1>4 DEF SendTerminate
<1>5. ASSUME Gone  PROVE Typed'
  BY <1>5 DEF Gone
<1>6. ASSUME NEW c \in Clients, SubscriptionArrives(c)  PROVE Typed'
  BY <1>6 DEF SubscriptionArrives
<1>7. ASSUME NEW c \in Senders, SubscriptionPassedOn(c)  PROVE Typed'
  BY <1>7 DEF SubscriptionPassedOn
<1>8. ASSUME NEW c \in Senders, PassOn(c)  PROVE Typed'
  BY <1>8 DEF PassOn
<1>9. ASSUME NEW c \in Clients, Connect(c)  PROVE Typed'
  <2>1. client[c] \in ClientRecords
    BY <1>9
  <2>2. /\ [client[c] EXCEPT !.main = "register", !.open = TRUE] \in ClientRecords
        /\ [client[c] EXCEPT !.main = "ended"] \in ClientRecords
        /\ [client[c] EXCEPT !.main = "hung"] \in ClientRecords
    BY <2>1, <1>9, Places DEF ClientRecords
  <2>3. client' \in [Clients -> ClientRecords]
    BY <1>9, <2>2, Moved DEF Connect
  <2>4. \A d \in Clients : client'[d].main = "sending" => client'[d].type \in Types
    BY <1>9, <2>1 DEF Connect, Moves, ClientRecords
  <2> QED
    BY <2>3, <2>4
<1>10. ASSUME NEW c \in Clients, EndSend(c)  PROVE Typed'
  <2>1. client[c] \in ClientRecords
    BY <1>10
  <2>2. [client[c] EXCEPT !.main = "idle", !.type = "none"] \in ClientRecords
    BY <2>1, <1>10, Places DEF ClientRecords
  <2>3. client' \in [Clients -> ClientRecords]
    BY <1>10, <2>2, Moved DEF EndSend
  <2>4. \A d \in Clients : client'[d].main = "sending" => client'[d].type \in Types
    BY <1>10, <2>1 DEF EndSend, Moves, ClientRecords
  <2> QED
    BY <2>3, <2>4
<1>11. ASSUME NEW c \in Clients, StopHeartbeat(c)  PROVE Typed'
  <2>1. client[c] \in ClientRecords
    BY <1>11
  <2>2. [client[c] EXCEPT !.main = "stopping", !.heartbeat_start = FALSE, !.overlapped = client[c].overlapped \/ client[c].hb \in {"send", "sending"} \/ client[c].loop \in {"heartbeat", "beat"}] \in ClientRecords
    BY <2>1, <1>11, Places DEF ClientRecords
  <2>3. client' \in [Clients -> ClientRecords]
    BY <1>11, <2>2, Moved DEF StopHeartbeat
  <2>4. \A d \in Clients : client'[d].main = "sending" => client'[d].type \in Types
    BY <1>11, <2>1 DEF StopHeartbeat, Moves, ClientRecords
  <2> QED
    BY <2>3, <2>4
<1>12. ASSUME NEW c \in Clients, StopProcessing(c)  PROVE Typed'
  <2>1. client[c] \in ClientRecords
    BY <1>12
  <2>2. [client[c] EXCEPT !.main = "join", !.message_processing = FALSE] \in ClientRecords
    BY <2>1, <1>12, Places DEF ClientRecords
  <2>3. client' \in [Clients -> ClientRecords]
    BY <1>12, <2>2, Moved DEF StopProcessing
  <2>4. \A d \in Clients : client'[d].main = "sending" => client'[d].type \in Types
    BY <1>12, <2>1 DEF StopProcessing, Moves, ClientRecords
  <2> QED
    BY <2>3, <2>4
<1>13. ASSUME NEW c \in Clients, Join(c)  PROVE Typed'
  <2>1. client[c] \in ClientRecords
    BY <1>13
  <2>2. [client[c] EXCEPT !.main = "joined"] \in ClientRecords
    BY <2>1, <1>13, Places DEF ClientRecords
  <2>3. client' \in [Clients -> ClientRecords]
    BY <1>13, <2>2, Moved DEF Join
  <2>4. \A d \in Clients : client'[d].main = "sending" => client'[d].type \in Types
    BY <1>13, <2>1 DEF Join, Moves, ClientRecords
  <2> QED
    BY <2>3, <2>4
<1>14. ASSUME NEW c \in Clients, NEW types \in SUBSET Types, Register(c, types)  PROVE Typed'
  <2>1. client[c] \in ClientRecords
    BY <1>14
  <2>2. [client[c] EXCEPT !.main = "idle", !.handlers = types, !.loop = "heartbeat"] \in ClientRecords
    BY <2>1, <1>14, Places DEF ClientRecords
  <2>3. client' \in [Clients -> ClientRecords]
    BY <1>14, <2>2, Moved DEF Register
  <2>4. \A d \in Clients : client'[d].main = "sending" => client'[d].type \in Types
    BY <1>14, <2>1 DEF Register, Moves, ClientRecords
  <2> QED
    BY <2>3, <2>4
<1>15. ASSUME NEW c \in Clients, NEW t \in Types, BeginSend(c, t)  PROVE Typed'
  <2>1. client[c] \in ClientRecords
    BY <1>15
  <2>2. [client[c] EXCEPT !.main = "sending", !.type = t, !.overlapped = client[c].overlapped \/ client[c].hb = "sending"] \in ClientRecords
    BY <2>1, <1>15, Places DEF ClientRecords
  <2>3. client' \in [Clients -> ClientRecords]
    BY <1>15, <2>2, Moved DEF BeginSend
  <2>4. \A d \in Clients : client'[d].main = "sending" => client'[d].type \in Types
    BY <1>15, <2>1 DEF BeginSend, Moves, ClientRecords
  <2> QED
    BY <2>3, <2>4
<1>16. ASSUME NEW c \in Clients, CreateHeartbeat(c)  PROVE Typed'
  <2>1. client[c] \in ClientRecords
    BY <1>16
  <2>2. [client[c] EXCEPT !.loop = "beat", !.hb = "test"] \in ClientRecords
    BY <2>1, <1>16, Places DEF ClientRecords
  <2>3. client' \in [Clients -> ClientRecords]
    BY <1>16, <2>2, Moved DEF CreateHeartbeat
  <2>4. \A d \in Clients : client'[d].main = "sending" => client'[d].type \in Types
    BY <1>16, <2>1 DEF CreateHeartbeat, Moves, ClientRecords
  <2> QED
    BY <2>3, <2>4
<1>17. ASSUME NEW c \in Clients, SetHeartbeat(c)  PROVE Typed'
  <2>1. client[c] \in ClientRecords
    BY <1>17
  <2>2. [client[c] EXCEPT !.loop = "subscribe", !.heartbeat_start = TRUE] \in ClientRecords
    BY <2>1, <1>17, Places DEF ClientRecords
  <2>3. client' \in [Clients -> ClientRecords]
    BY <1>17, <2>2, Moved DEF SetHeartbeat
  <2>4. \A d \in Clients : client'[d].main = "sending" => client'[d].type \in Types
    BY <1>17, <2>1 DEF SetHeartbeat, Moves, ClientRecords
  <2> QED
    BY <2>3, <2>4
<1>18. ASSUME NEW c \in Clients, Subscribe(c)  PROVE Typed'
  <2>1. client[c] \in ClientRecords
    BY <1>18
  <2>2. [client[c] EXCEPT !.loop = IF client[c].handlers = {} THEN "threw" ELSE "flag"] \in ClientRecords
    BY <2>1, <1>18, Places DEF ClientRecords
  <2>3. client' \in [Clients -> ClientRecords]
    BY <1>18, <2>2, Moved DEF Subscribe
  <2>4. \A d \in Clients : client'[d].main = "sending" => client'[d].type \in Types
    BY <1>18, <2>1 DEF Subscribe, Moves, ClientRecords
  <2> QED
    BY <2>3, <2>4
<1>19. ASSUME NEW c \in Clients, SetProcessing(c)  PROVE Typed'
  <2>1. client[c] \in ClientRecords
    BY <1>19
  <2>2. [client[c] EXCEPT !.loop = "test", !.message_processing = TRUE] \in ClientRecords
    BY <2>1, <1>19, Places DEF ClientRecords
  <2>3. client' \in [Clients -> ClientRecords]
    BY <1>19, <2>2, Moved DEF SetProcessing
  <2>4. \A d \in Clients : client'[d].main = "sending" => client'[d].type \in Types
    BY <1>19, <2>1 DEF SetProcessing, Moves, ClientRecords
  <2> QED
    BY <2>3, <2>4
<1>20. ASSUME NEW c \in Clients, While(c)  PROVE Typed'
  <2>1. client[c] \in ClientRecords
    BY <1>20
  <2>2. [client[c] EXCEPT !.loop = IF client[c].message_processing THEN "poll" ELSE "disconnect"] \in ClientRecords
    BY <2>1, <1>20, Places DEF ClientRecords
  <2>3. client' \in [Clients -> ClientRecords]
    BY <1>20, <2>2, Moved DEF While
  <2>4. \A d \in Clients : client'[d].main = "sending" => client'[d].type \in Types
    BY <1>20, <2>1 DEF While, Moves, ClientRecords
  <2> QED
    BY <2>3, <2>4
<1>21. ASSUME NEW c \in Clients, Poll(c)  PROVE Typed'
  <2>1. client[c] \in ClientRecords
    BY <1>21
  <2>2. /\ [client[c] EXCEPT !.loop = "test"] \in ClientRecords
        /\ [client[c] EXCEPT !.loop = "threw"] \in ClientRecords
    BY <2>1, <1>21, Places DEF ClientRecords
  <2>3. client' \in [Clients -> ClientRecords]
    BY <1>21, <2>2, Moved DEF Poll
  <2>4. \A d \in Clients : client'[d].main = "sending" => client'[d].type \in Types
    BY <1>21, <2>1 DEF Poll, Moves, ClientRecords
  <2> QED
    BY <2>3, <2>4
<1>22. ASSUME NEW c \in Clients, Disconnect(c)  PROVE Typed'
  <2>1. client[c] \in ClientRecords
    BY <1>22
  <2>2. /\ [client[c] EXCEPT !.loop = "ended"] \in ClientRecords
        /\ [client[c] EXCEPT !.loop = "closing", !.open = FALSE] \in ClientRecords
    BY <2>1, <1>22, Places DEF ClientRecords
  <2>3. client' \in [Clients -> ClientRecords]
    BY <1>22, <2>2, Moved DEF Disconnect
  <2>4. \A d \in Clients : client'[d].main = "sending" => client'[d].type \in Types
    <3>1. CASE client[c].message_processing
      BY <1>22, <2>1, <3>1 DEF Disconnect, Moves, ClientRecords
    <3>2. CASE ~client[c].message_processing
      <4>1. Moves(c, [client[c] EXCEPT !.loop = "closing", !.open = FALSE])
        BY <1>22, <3>2 DEF Disconnect
      <4> QED
        BY <2>1, <4>1 DEF Moves, ClientRecords
    <3> QED
      BY <3>1, <3>2
  <2> QED
    BY <2>3, <2>4
<1>23. ASSUME NEW c \in Clients, TestHeartbeat(c)  PROVE Typed'
  <2>1. client[c] \in ClientRecords
    BY <1>23
  <2>2. \A set \in BOOLEAN : [client[c] EXCEPT !.hb = IF set THEN "send" ELSE "ended"] \in ClientRecords
    BY <2>1, <1>23, Places DEF ClientRecords
  <2>3. client' \in [Clients -> ClientRecords]
    BY <1>23, <2>2, Moved DEF TestHeartbeat
  <2>4. \A d \in Clients : client'[d].main = "sending" => client'[d].type \in Types
    BY <1>23, <2>1 DEF TestHeartbeat, Moves, ClientRecords
  <2> QED
    BY <2>3, <2>4
<1>24. ASSUME NEW c \in Clients, BeginBeat(c)  PROVE Typed'
  <2>1. client[c] \in ClientRecords
    BY <1>24
  <2>2. [client[c] EXCEPT !.hb = "sending", !.overlapped = client[c].overlapped \/ client[c].main = "sending"] \in ClientRecords
    BY <2>1, <1>24, Places DEF ClientRecords
  <2>3. client' \in [Clients -> ClientRecords]
    BY <1>24, <2>2, Moved DEF BeginBeat
  <2>4. \A d \in Clients : client'[d].main = "sending" => client'[d].type \in Types
    BY <1>24, <2>1 DEF BeginBeat, Moves, ClientRecords
  <2> QED
    BY <2>3, <2>4
<1>25. ASSUME NEW c \in Clients, EndBeat(c)  PROVE Typed'
  <2>1. client[c] \in ClientRecords
    BY <1>25
  <2>2. /\ [client[c] EXCEPT !.hb = "test"] \in ClientRecords
        /\ [client[c] EXCEPT !.hb = "ended", !.heartbeat_start = FALSE] \in ClientRecords
    BY <2>1, <1>25, Places DEF ClientRecords
  <2>3. client' \in [Clients -> ClientRecords]
    BY <1>25, <2>2, Moved DEF EndBeat
  <2>4. \A d \in Clients : client'[d].main = "sending" => client'[d].type \in Types
    <3>1. CASE Moves(c, [client[c] EXCEPT !.hb = "test"])
      BY <1>25, <2>1, <3>1 DEF Moves, Typed, ClientRecords
    <3>2. CASE Moves(c, [client[c] EXCEPT !.hb = "ended", !.heartbeat_start = FALSE])
      BY <1>25, <2>1, <3>2 DEF Moves, Typed, ClientRecords
    <3> QED
      BY <1>25, <3>1, <3>2 DEF EndBeat
  <2> QED
    BY <2>3, <2>4
<1>26. ASSUME NEW c \in Clients, Crash(c)  PROVE Typed'
  <2>1. client[c] \in ClientRecords
    BY <1>26
  <2>2. [client[c] EXCEPT !.crashed = TRUE] \in ClientRecords
    BY <2>1, <1>26, Places DEF ClientRecords
  <2>3. client' \in [Clients -> ClientRecords]
    BY <1>26, <2>2, Moved DEF Crash
  <2>4. \A d \in Clients : client'[d].main = "sending" => client'[d].type \in Types
    BY <1>26, <2>1 DEF Crash, Moves, ClientRecords
  <2> QED
    BY <2>3, <2>4
<1>27. ASSUME NEW p \in Peers, NEW t \in Types, PeerSends(p, t)  PROVE Typed'
  BY <1>27 DEF PeerSends
<1>28. ASSUME NEW c \in Clients, Destroy(c)  PROVE Typed'
  <2>1. client[c] \in ClientRecords
    BY <1>28
  <2>2. [client[c] EXCEPT !.main = IF client[c].open THEN "closing" ELSE "ended", !.open = FALSE,
           !.overlapped = client[c].overlapped \/ client[c].hb # "ended"] \in ClientRecords
    BY <2>1, <1>28, Places DEF ClientRecords
  <2>3. client' \in [Clients -> ClientRecords]
    BY <1>28, <2>2, Moved DEF Destroy
  <2>4. \A d \in Clients : client'[d].main = "sending" => client'[d].type \in Types
    BY <1>28, <2>1 DEF Destroy, Moves, ClientRecords
  <2> QED
    BY <2>3, <2>4
<1>29. ASSUME NEW c \in Clients, CloseContext(c)  PROVE Typed'
  <2>1. client[c] \in ClientRecords
    BY <1>29
  <2>2. /\ [client[c] EXCEPT !.loop = "ended"] \in ClientRecords
        /\ [client[c] EXCEPT !.main = "ended"] \in ClientRecords
    BY <2>1, <1>29, Places DEF ClientRecords
  <2>3. client' \in [Clients -> ClientRecords]
    BY <1>29, <2>2, Moved DEF CloseContext
  <2>4. \A d \in Clients : client'[d].main = "sending" => client'[d].type \in Types
    BY <1>29, <2>1 DEF CloseContext, Moves, ClientRecords
  <2> QED
    BY <2>3, <2>4
<1> QED
  BY <1>1, <1>2, <1>3, <1>4, <1>5, <1>6, <1>7, <1>8, <1>9, <1>10, <1>11, <1>12, <1>13, <1>14, <1>15,
       <1>16, <1>17, <1>18, <1>19, <1>20, <1>21, <1>22, <1>23, <1>24, <1>25, <1>26, <1>27, <1>28, <1>29
    DEF Next, Main, Loop, Heartbeat, Proxy, Stopping, StopFails, Terminate, Typed

LEMMA Published ==
  ASSUME up \in [Senders -> Seq(Sent)], NEW m \in Sent, Publish(m)
  PROVE  up' \in [Senders -> Seq(Sent)]
<1>1. m.from \in Senders
  BY DEF Sent
<1>2. Append(up[m.from], m) \in Seq(Sent)
  BY <1>1
<1>3. up' = up \/ up' = [up EXCEPT ![m.from] = Append(up[m.from], m)]
  BY <1>1 DEF Publish
<1> QED
  BY <1>1, <1>2, <1>3

LEMMA TypeStep ==
  ASSUME TypeOK, Typed', Next
  PROVE  TypeOK'
<1> USE DEF TypeOK, net, history, Senders
<1>1. ASSUME Start  PROVE TypeOK'
  <2>1. server.starts + 1 \in Nat
    BY DEF ServerRecords
  <2>2. server' = [server EXCEPT !.starts = server.starts + 1, !.ctx = TRUE,
                                 !.start = IF server.ctx THEN "hung" ELSE "binding"]
    BY <1>1 DEF Start
  <2>3. server' \in ServerRecords
    BY <2>1, <2>2 DEF ServerRecords
  <2> QED
    BY <1>1, <2>3 DEF Start
<1>2. ASSUME Bind  PROVE TypeOK'
  BY <1>2 DEF Bind, ServerRecords
<1>3. ASSUME Stop  PROVE TypeOK'
  BY <1>3 DEF Stop, ServerRecords
<1>4. ASSUME SendTerminate  PROVE TypeOK'
  BY <1>4 DEF SendTerminate, ServerRecords
<1>5. ASSUME Gone  PROVE TypeOK'
  <2>1. server' \in ServerRecords
    BY <1>5 DEF Gone, ServerRecords
  <2>2. up' \in [Senders -> Seq(Sent)]
    BY <1>5 DEF Gone
  <2>3. filter' \in [Senders -> SUBSET Types] /\ subs' \in [Clients -> SUBSET Types]
        /\ due' \in [Clients -> SUBSET Sent]
    BY <1>5 DEF Gone
  <2> QED
    BY <1>5, <2>1, <2>2, <2>3 DEF Gone
<1>6. ASSUME NEW c \in Clients, SubscriptionArrives(c)  PROVE TypeOK'
  BY <1>6 DEF SubscriptionArrives
<1>7. ASSUME NEW c \in Senders, SubscriptionPassedOn(c)  PROVE TypeOK'
  <2>1. Known \in SUBSET Types
    BY DEF Known
  <2>2. filter' \in [Senders -> SUBSET Types]
    BY <1>7, <2>1 DEF SubscriptionPassedOn
  <2> QED
    BY <1>7, <2>2 DEF SubscriptionPassedOn
<1>8. ASSUME NEW c \in Senders, PassOn(c)  PROVE TypeOK'
  <2>1. Head(up[c]) \in Sent /\ Tail(up[c]) \in Seq(Sent)
    BY <1>8 DEF PassOn
  <2>2. up' \in [Senders -> Seq(Sent)] /\ down' \in [Clients -> Seq(Sent)]
    BY <1>8, <2>1 DEF PassOn
  <2> QED
    BY <1>8, <2>2 DEF PassOn
<1>9. ASSUME NEW c \in Clients, Connect(c)  PROVE TypeOK'
  BY <1>9 DEF Connect
<1>10. ASSUME NEW c \in Clients, EndSend(c)  PROVE TypeOK'
  <2> DEFINE m == [from |-> c, n |-> sent[c], type |-> client[c].type]
  <2>1. m \in Sent
    BY <1>10 DEF EndSend, Typed, Sent
  <2> HIDE DEF m
  <2>2. up' \in [Senders -> Seq(Sent)] /\ due' \in [Clients -> SUBSET Sent]
    <3>1. Publish(m) => up' \in [Senders -> Seq(Sent)]
      BY <2>1, Published
    <3>2. MustReach(m) => due' \in [Clients -> SUBSET Sent]
      BY <2>1 DEF MustReach
    <3>3. \/ Publish(m) /\ (due' = due \/ MustReach(m))
          \/ up' = up /\ due' = due
      BY <1>10 DEF EndSend, m
    <3> QED
      BY <3>1, <3>2, <3>3
  <2> QED
    BY <1>10, <2>2 DEF EndSend
<1>11. ASSUME NEW c \in Clients, StopHeartbeat(c)  PROVE TypeOK'
  BY <1>11 DEF StopHeartbeat
<1>12. ASSUME NEW c \in Clients, StopProcessing(c)  PROVE TypeOK'
  BY <1>12 DEF StopProcessing
<1>13. ASSUME NEW c \in Clients, Join(c)  PROVE TypeOK'
  BY <1>13 DEF Join
<1>14. ASSUME NEW c \in Clients, NEW types \in SUBSET Types, Register(c, types)  PROVE TypeOK'
  BY <1>14 DEF Register
<1>15. ASSUME NEW c \in Clients, NEW t \in Types, BeginSend(c, t)  PROVE TypeOK'
  BY <1>15 DEF BeginSend
<1>16. ASSUME NEW c \in Clients, CreateHeartbeat(c)  PROVE TypeOK'
  BY <1>16 DEF CreateHeartbeat
<1>17. ASSUME NEW c \in Clients, SetHeartbeat(c)  PROVE TypeOK'
  BY <1>17 DEF SetHeartbeat
<1>18. ASSUME NEW c \in Clients, Subscribe(c)  PROVE TypeOK'
  <2>1. client[c].handlers \in SUBSET Types
    BY DEF Typed, ClientRecords
  <2>2. wanted' \in [Clients -> SUBSET Types]
    BY <1>18, <2>1 DEF Subscribe
  <2> QED
    BY <1>18, <2>2 DEF Subscribe
<1>19. ASSUME NEW c \in Clients, SetProcessing(c)  PROVE TypeOK'
  BY <1>19 DEF SetProcessing
<1>20. ASSUME NEW c \in Clients, While(c)  PROVE TypeOK'
  BY <1>20 DEF While
<1>21. ASSUME NEW c \in Clients, Poll(c)  PROVE TypeOK'
  <2>1. CASE down[c] = <<>>
    BY <1>21, <2>1 DEF Poll
  <2>2. CASE down[c] # <<>>
    <3>1. Head(down[c]) \in Sent /\ Tail(down[c]) \in Seq(Sent)
      BY <2>2
    <3>2. down' \in [Clients -> Seq(Sent)]
      BY <1>21, <2>2, <3>1 DEF Poll
    <3>3. handled' \in [Clients -> Seq(Sent)]
      <4>1. Append(handled[c], Head(down[c])) \in Seq(Sent)
        BY <1>21, <3>1
      <4>2. handled' = handled \/ handled' = [handled EXCEPT ![c] = Append(handled[c], Head(down[c]))]
        BY <1>21, <2>2 DEF Poll
      <4> QED
        BY <4>1, <4>2
    <3> QED
      BY <1>21, <3>2, <3>3 DEF Poll
  <2> QED
    BY <2>1, <2>2
<1>22. ASSUME NEW c \in Clients, Disconnect(c)  PROVE TypeOK'
  <2>1. \/ wanted' = wanted /\ down' = down
        \/ wanted' = [wanted EXCEPT ![c] = {}] /\ down' = [down EXCEPT ![c] = <<>>]
    BY <1>22 DEF Disconnect
  <2>2. wanted' \in [Clients -> SUBSET Types]
    BY <2>1
  <2>3. down' \in [Clients -> Seq(Sent)]
    <3> DEFINE none == <<>>
    <3>1. none \in Seq(Sent) /\ (down' = down \/ down' = [down EXCEPT ![c] = none])
      BY <2>1
    <3> HIDE DEF none
    <3> QED
      BY <3>1
  <2> QED
    BY <1>22, <2>2, <2>3 DEF Disconnect
<1>23. ASSUME NEW c \in Clients, TestHeartbeat(c)  PROVE TypeOK'
  BY <1>23 DEF TestHeartbeat
<1>24. ASSUME NEW c \in Clients, BeginBeat(c)  PROVE TypeOK'
  BY <1>24 DEF BeginBeat
<1>25. ASSUME NEW c \in Clients, EndBeat(c)  PROVE TypeOK'
  BY <1>25 DEF EndBeat
<1>26. ASSUME NEW c \in Clients, Crash(c)  PROVE TypeOK'
  BY <1>26 DEF Crash
<1>27. ASSUME NEW p \in Peers, NEW t \in Types, PeerSends(p, t)  PROVE TypeOK'
  <2> DEFINE m == [from |-> p, n |-> sent[p] + 1, type |-> t]
  <2>1. m \in Sent /\ sent' \in [Senders -> Nat]
    BY <1>27 DEF PeerSends, Sent
  <2> HIDE DEF m
  <2>2. up' \in [Senders -> Seq(Sent)] /\ due' \in [Clients -> SUBSET Sent]
    <3>1. Publish(m) => up' \in [Senders -> Seq(Sent)]
      BY <2>1, Published
    <3>2. MustReach(m) => due' \in [Clients -> SUBSET Sent]
      BY <2>1 DEF MustReach
    <3>3. Publish(m) /\ MustReach(m)
      BY <1>27 DEF PeerSends, m
    <3> QED
      BY <3>1, <3>2, <3>3
  <2> QED
    BY <1>27, <2>1, <2>2 DEF PeerSends
<1>28. ASSUME NEW c \in Clients, Destroy(c)  PROVE TypeOK'
  <2> DEFINE none == <<>>
  <2>1. none \in Seq(Sent) /\ down' = [down EXCEPT ![c] = none] /\ wanted' = [wanted EXCEPT ![c] = {}]
    BY <1>28 DEF Destroy
  <2> HIDE DEF none
  <2>2. down' \in [Clients -> Seq(Sent)] /\ wanted' \in [Clients -> SUBSET Types]
    BY <2>1
  <2> QED
    BY <1>28, <2>2 DEF Destroy
<1>29. ASSUME NEW c \in Clients, CloseContext(c)  PROVE TypeOK'
  BY <1>29 DEF CloseContext
<1> QED
  BY <1>1, <1>2, <1>3, <1>4, <1>5, <1>6, <1>7, <1>8, <1>9, <1>10, <1>11, <1>12, <1>13, <1>14, <1>15,
       <1>16, <1>17, <1>18, <1>19, <1>20, <1>21, <1>22, <1>23, <1>24, <1>25, <1>26, <1>27, <1>28, <1>29
    DEF Next, Main, Loop, Heartbeat, Proxy, Stopping, StopFails, Terminate

-----------------------------------------------------------------------------
(* One lemma per part of the invariant, one step per action. *)

(* Where the threads stand. *)
LEMMA ThreadsStep ==
  ASSUME Typed, Threads, Next
  PROVE  Threads'
<1> USE DEF Typed, Threads, Moves, ClientRecords, Mains, Loops
<1>1. ASSUME Start  PROVE Threads'
  BY <1>1 DEF Start
<1>2. ASSUME Bind  PROVE Threads'
  BY <1>2 DEF Bind
<1>3. ASSUME Stop  PROVE Threads'
  BY <1>3 DEF Stop
<1>4. ASSUME SendTerminate  PROVE Threads'
  BY <1>4 DEF SendTerminate
<1>5. ASSUME Gone  PROVE Threads'
  BY <1>5 DEF Gone
<1>6. ASSUME NEW c \in Clients, SubscriptionArrives(c)  PROVE Threads'
  BY <1>6 DEF SubscriptionArrives
<1>7. ASSUME NEW c \in Senders, SubscriptionPassedOn(c)  PROVE Threads'
  BY <1>7 DEF SubscriptionPassedOn
<1>8. ASSUME NEW c \in Senders, PassOn(c)  PROVE Threads'
  BY <1>8 DEF PassOn
<1>9. ASSUME NEW c \in Clients, Connect(c)  PROVE Threads'
  <2>1. CASE Moves(c, [client[c] EXCEPT !.main = "register", !.open = TRUE])
    BY <1>9, <2>1 DEF Connect
  <2>2. ASSUME NEW end \in {"ended", "hung"}, Moves(c, [client[c] EXCEPT !.main = end])
        PROVE  Threads'
    BY <1>9, <2>2 DEF Connect
  <2> QED
    BY <1>9, <2>1, <2>2 DEF Connect
<1>10. ASSUME NEW c \in Clients, EndSend(c)  PROVE Threads'
  BY <1>10 DEF EndSend
<1>11. ASSUME NEW c \in Clients, StopHeartbeat(c)  PROVE Threads'
  BY <1>11 DEF StopHeartbeat
<1>12. ASSUME NEW c \in Clients, StopProcessing(c)  PROVE Threads'
  BY <1>12 DEF StopProcessing
<1>13. ASSUME NEW c \in Clients, Join(c)  PROVE Threads'
  BY <1>13 DEF Join
<1>14. ASSUME NEW c \in Clients, NEW types \in SUBSET Types, Register(c, types)  PROVE Threads'
  BY <1>14 DEF Register
<1>15. ASSUME NEW c \in Clients, NEW t \in Types, BeginSend(c, t)  PROVE Threads'
  BY <1>15 DEF BeginSend
<1>16. ASSUME NEW c \in Clients, CreateHeartbeat(c)  PROVE Threads'
  BY <1>16 DEF CreateHeartbeat
<1>17. ASSUME NEW c \in Clients, SetHeartbeat(c)  PROVE Threads'
  BY <1>17 DEF SetHeartbeat
<1>18. ASSUME NEW c \in Clients, Subscribe(c)  PROVE Threads'
  BY <1>18 DEF Subscribe
<1>19. ASSUME NEW c \in Clients, SetProcessing(c)  PROVE Threads'
  BY <1>19 DEF SetProcessing
<1>20. ASSUME NEW c \in Clients, While(c)  PROVE Threads'
  BY <1>20 DEF While
<1>21. ASSUME NEW c \in Clients, Poll(c)  PROVE Threads'
  <2>1. CASE down[c] = <<>>
    BY <1>21, <2>1 DEF Poll
  <2>2. CASE down[c] # <<>> /\ Head(down[c]).type \in client[c].handlers
    BY <1>21, <2>2 DEF Poll
  <2>3. CASE down[c] # <<>> /\ Head(down[c]).type \notin client[c].handlers
    BY <1>21, <2>3 DEF Poll
  <2> QED
    BY <2>1, <2>2, <2>3
<1>22. ASSUME NEW c \in Clients, Disconnect(c)  PROVE Threads'
  <2>1. CASE client[c].message_processing
    BY <1>22, <2>1 DEF Disconnect
  <2>2. CASE ~client[c].message_processing
    <3> DEFINE new == [client[c] EXCEPT !.loop = "closing", !.open = FALSE]
    <3>1. client' = [client EXCEPT ![c] = new]
      BY <1>22, <2>2 DEF Disconnect
    <3>2. /\ client[c] \in ClientRecords /\ new.loop = "closing" /\ new.open = FALSE
          /\ new.main = client[c].main /\ new.hb = client[c].hb
          /\ new.heartbeat_start = client[c].heartbeat_start /\ new.overlapped = client[c].overlapped
          /\ new.message_processing = client[c].message_processing /\ new.crashed = client[c].crashed
          /\ new.type = client[c].type /\ new.handlers = client[c].handlers
      BY <1>22
    <3>3. client'[c] = new /\ \A d \in Clients : d # c => client'[d] = client[d]
      BY <3>1
    <3> HIDE DEF new
    <3> QED
      BY <1>22, <2>2, <3>2, <3>3 DEF Disconnect
  <2> QED
    BY <2>1, <2>2
<1>23. ASSUME NEW c \in Clients, TestHeartbeat(c)  PROVE Threads'
  BY <1>23 DEF TestHeartbeat
<1>24. ASSUME NEW c \in Clients, BeginBeat(c)  PROVE Threads'
  BY <1>24 DEF BeginBeat
<1>25. ASSUME NEW c \in Clients, EndBeat(c)  PROVE Threads'
  <2>1. CASE Moves(c, [client[c] EXCEPT !.hb = "test"])
    BY <1>25, <2>1 DEF EndBeat
  <2>2. CASE Moves(c, [client[c] EXCEPT !.hb = "ended", !.heartbeat_start = FALSE])
    BY <1>25, <2>2 DEF EndBeat
  <2> QED
    BY <1>25, <2>1, <2>2 DEF EndBeat
<1>26. ASSUME NEW c \in Clients, Crash(c)  PROVE Threads'
  BY <1>26 DEF Crash
<1>27. ASSUME NEW p \in Peers, NEW t \in Types, PeerSends(p, t)  PROVE Threads'
  BY <1>27 DEF PeerSends
<1>28. ASSUME NEW c \in Clients, Destroy(c)  PROVE Threads'
  BY <1>28 DEF Destroy
<1>29. ASSUME NEW c \in Clients, CloseContext(c)  PROVE Threads'
  BY <1>29 DEF CloseContext
<1> QED
  BY <1>1, <1>2, <1>3, <1>4, <1>5, <1>6, <1>7, <1>8, <1>9, <1>10, <1>11, <1>12, <1>13, <1>14, <1>15,
       <1>16, <1>17, <1>18, <1>19, <1>20, <1>21, <1>22, <1>23, <1>24, <1>25, <1>26, <1>27, <1>28, <1>29
    DEF Next, Main, Loop, Heartbeat, Proxy, Stopping, StopFails, Terminate

(* The sockets outlive their users: both flags are down, and both threads  *)
(* past the point where they look at them, before disconnect closes.       *)
LEMMA SocketsStep ==
  ASSUME Typed, Threads, Sockets, QuietStopsNeverCrash, Next
  PROVE  Sockets' /\ QuietStopsNeverCrash'
<1> USE DEF Typed, Threads, Sockets, QuietStopsNeverCrash, Moves, ClientRecords, Mains, Loops
<1>1. ASSUME Start  PROVE (Sockets /\ QuietStopsNeverCrash)'
  BY <1>1 DEF Start
<1>2. ASSUME Bind  PROVE (Sockets /\ QuietStopsNeverCrash)'
  BY <1>2 DEF Bind
<1>3. ASSUME Stop  PROVE (Sockets /\ QuietStopsNeverCrash)'
  BY <1>3 DEF Stop
<1>4. ASSUME SendTerminate  PROVE (Sockets /\ QuietStopsNeverCrash)'
  BY <1>4 DEF SendTerminate
<1>5. ASSUME Gone  PROVE (Sockets /\ QuietStopsNeverCrash)'
  BY <1>5 DEF Gone
<1>6. ASSUME NEW c \in Clients, SubscriptionArrives(c)  PROVE (Sockets /\ QuietStopsNeverCrash)'
  BY <1>6 DEF SubscriptionArrives
<1>7. ASSUME NEW c \in Senders, SubscriptionPassedOn(c)  PROVE (Sockets /\ QuietStopsNeverCrash)'
  BY <1>7 DEF SubscriptionPassedOn
<1>8. ASSUME NEW c \in Senders, PassOn(c)  PROVE (Sockets /\ QuietStopsNeverCrash)'
  BY <1>8 DEF PassOn
<1>9. ASSUME NEW c \in Clients, Connect(c)  PROVE (Sockets /\ QuietStopsNeverCrash)'
  <2>1. CASE Moves(c, [client[c] EXCEPT !.main = "register", !.open = TRUE])
    BY <1>9, <2>1 DEF Connect
  <2>2. ASSUME NEW end \in {"ended", "hung"}, Moves(c, [client[c] EXCEPT !.main = end])
        PROVE  (Sockets /\ QuietStopsNeverCrash)'
    BY <1>9, <2>2 DEF Connect
  <2> QED
    BY <1>9, <2>1, <2>2 DEF Connect
<1>10. ASSUME NEW c \in Clients, EndSend(c)  PROVE (Sockets /\ QuietStopsNeverCrash)'
  BY <1>10 DEF EndSend
<1>11. ASSUME NEW c \in Clients, StopHeartbeat(c)  PROVE (Sockets /\ QuietStopsNeverCrash)'
  BY <1>11 DEF StopHeartbeat
<1>12. ASSUME NEW c \in Clients, StopProcessing(c)  PROVE (Sockets /\ QuietStopsNeverCrash)'
  BY <1>12 DEF StopProcessing
<1>13. ASSUME NEW c \in Clients, Join(c)  PROVE (Sockets /\ QuietStopsNeverCrash)'
  BY <1>13 DEF Join
<1>14. ASSUME NEW c \in Clients, NEW types \in SUBSET Types, Register(c, types)
       PROVE  (Sockets /\ QuietStopsNeverCrash)'
  BY <1>14 DEF Register
<1>15. ASSUME NEW c \in Clients, NEW t \in Types, BeginSend(c, t)
       PROVE  (Sockets /\ QuietStopsNeverCrash)'
  BY <1>15 DEF BeginSend
<1>16. ASSUME NEW c \in Clients, CreateHeartbeat(c)  PROVE (Sockets /\ QuietStopsNeverCrash)'
  BY <1>16 DEF CreateHeartbeat
<1>17. ASSUME NEW c \in Clients, SetHeartbeat(c)  PROVE (Sockets /\ QuietStopsNeverCrash)'
  BY <1>17 DEF SetHeartbeat
<1>18. ASSUME NEW c \in Clients, Subscribe(c)  PROVE (Sockets /\ QuietStopsNeverCrash)'
  BY <1>18 DEF Subscribe
<1>19. ASSUME NEW c \in Clients, SetProcessing(c)  PROVE (Sockets /\ QuietStopsNeverCrash)'
  BY <1>19 DEF SetProcessing
<1>20. ASSUME NEW c \in Clients, While(c)  PROVE (Sockets /\ QuietStopsNeverCrash)'
  BY <1>20 DEF While
<1>21. ASSUME NEW c \in Clients, Poll(c)  PROVE (Sockets /\ QuietStopsNeverCrash)'
  <2>1. CASE down[c] = <<>>
    BY <1>21, <2>1 DEF Poll
  <2>2. CASE down[c] # <<>> /\ Head(down[c]).type \in client[c].handlers
    <3>1. Moves(c, [client[c] EXCEPT !.loop = "test"]) /\ client[c].loop = "poll"
      BY <1>21, <2>2 DEF Poll
    <3> QED
      BY <1>21, <3>1
  <2>3. CASE down[c] # <<>> /\ Head(down[c]).type \notin client[c].handlers
    BY <1>21, <2>3 DEF Poll
  <2> QED
    BY <2>1, <2>2, <2>3
<1>22. ASSUME NEW c \in Clients, Disconnect(c)  PROVE (Sockets /\ QuietStopsNeverCrash)'
  <2>1. CASE client[c].message_processing
    BY <1>22, <2>1 DEF Disconnect
  <2>2. CASE ~client[c].message_processing
    <3> DEFINE new == [client[c] EXCEPT !.loop = "closing", !.open = FALSE]
    <3>1. client' = [client EXCEPT ![c] = new]
      BY <1>22, <2>2 DEF Disconnect
    <3>2. /\ client[c] \in ClientRecords /\ new.loop = "closing" /\ new.open = FALSE
          /\ new.main = client[c].main /\ new.hb = client[c].hb
          /\ new.heartbeat_start = client[c].heartbeat_start /\ new.overlapped = client[c].overlapped
          /\ new.message_processing = client[c].message_processing /\ new.crashed = client[c].crashed
          /\ new.type = client[c].type /\ new.handlers = client[c].handlers
      BY <1>22
    <3>3. client'[c] = new /\ \A d \in Clients : d # c => client'[d] = client[d]
      BY <3>1
    <3> HIDE DEF new
    <3> QED
      BY <1>22, <2>2, <3>2, <3>3 DEF Disconnect
  <2> QED
    BY <2>1, <2>2
<1>23. ASSUME NEW c \in Clients, TestHeartbeat(c)  PROVE (Sockets /\ QuietStopsNeverCrash)'
  BY <1>23 DEF TestHeartbeat
<1>24. ASSUME NEW c \in Clients, BeginBeat(c)  PROVE (Sockets /\ QuietStopsNeverCrash)'
  BY <1>24 DEF BeginBeat
<1>25. ASSUME NEW c \in Clients, EndBeat(c)  PROVE (Sockets /\ QuietStopsNeverCrash)'
  <2>1. CASE Moves(c, [client[c] EXCEPT !.hb = "test"])
    BY <1>25, <2>1 DEF EndBeat
  <2>2. CASE Moves(c, [client[c] EXCEPT !.hb = "ended", !.heartbeat_start = FALSE])
    BY <1>25, <2>2 DEF EndBeat
  <2> QED
    BY <1>25, <2>1, <2>2 DEF EndBeat
<1>26. ASSUME NEW c \in Clients, Crash(c)  PROVE (Sockets /\ QuietStopsNeverCrash)'
  BY <1>26 DEF Crash
<1>27. ASSUME NEW p \in Peers, NEW t \in Types, PeerSends(p, t)
       PROVE  (Sockets /\ QuietStopsNeverCrash)'
  BY <1>27 DEF PeerSends
<1>28. ASSUME NEW c \in Clients, Destroy(c)  PROVE (Sockets /\ QuietStopsNeverCrash)'
  <2> DEFINE new == [client[c] EXCEPT !.main = IF client[c].open THEN "closing" ELSE "ended", !.open = FALSE,
                                      !.overlapped = client[c].overlapped \/ client[c].hb # "ended"]
  <2>1. client' = [client EXCEPT ![c] = new] /\ client[c].main = "joined"
    BY <1>28 DEF Destroy
  <2>2. /\ client[c] \in ClientRecords /\ new.loop = client[c].loop /\ new.open = FALSE
        /\ new.main \in {"closing", "ended"} /\ new.hb = client[c].hb
        /\ new.heartbeat_start = client[c].heartbeat_start
        /\ new.overlapped = (client[c].overlapped \/ client[c].hb # "ended")
        /\ new.message_processing = client[c].message_processing /\ new.crashed = client[c].crashed
    BY <1>28
  <2>3. client'[c] = new /\ \A d \in Clients : d # c => client'[d] = client[d]
    BY <2>1
  <2> HIDE DEF new
  <2>4. new.loop \in {"none", "ended", "threw"} /\ (~new.overlapped => new.hb = "ended" /\ ~client[c].overlapped)
    BY <2>1, <2>2
  <2>5. ~new.overlapped => ~new.heartbeat_start
    BY <2>1, <2>2, <2>4
  <2>6. new.crashed => new.overlapped
    BY <2>2
  <2>7. QuietStopsNeverCrash'
    BY <2>3, <2>6
  <2>8. Sockets'
    BY <2>2, <2>3, <2>4, <2>5
  <2> QED
    BY <2>7, <2>8
<1>29. ASSUME NEW c \in Clients, CloseContext(c)  PROVE (Sockets /\ QuietStopsNeverCrash)'
  BY <1>29 DEF CloseContext
<1> QED
  BY <1>1, <1>2, <1>3, <1>4, <1>5, <1>6, <1>7, <1>8, <1>9, <1>10, <1>11, <1>12, <1>13, <1>14, <1>15,
       <1>16, <1>17, <1>18, <1>19, <1>20, <1>21, <1>22, <1>23, <1>24, <1>25, <1>26, <1>27, <1>28, <1>29
    DEF Next, Main, Loop, Heartbeat, Proxy, Stopping, StopFails, Terminate

(* The subscriptions. *)
LEMMA MatchNone == \A types : AllMatch(<<>>, types)
  BY DEF AllMatch

LEMMA MatchAppended ==
  ASSUME NEW s \in Seq(Sent), NEW m \in Sent, NEW types, AllMatch(s, types), Matches(m.type, types)
  PROVE  AllMatch(Append(s, m), types)
<1> SUFFICES ASSUME NEW i \in DOMAIN Append(s, m)  PROVE Matches(Append(s, m)[i].type, types)
  BY DEF AllMatch
<1>1. (i \in DOMAIN s /\ Append(s, m)[i] = s[i]) \/ Append(s, m)[i] = m
  OBVIOUS
<1> QED
  BY <1>1 DEF AllMatch

LEMMA MatchTaken ==
  ASSUME NEW s \in Seq(Sent), s # <<>>, NEW types, AllMatch(s, types)
  PROVE  AllMatch(Tail(s), types) /\ Matches(Head(s).type, types) /\ Head(s).type \in Types
<1>1. 1 \in DOMAIN s /\ Head(s) = s[1] /\ Head(s) \in Sent
  OBVIOUS
<1>2. \A i \in DOMAIN Tail(s) : i + 1 \in DOMAIN s /\ Tail(s)[i] = s[i + 1]
  OBVIOUS
<1>3. Matches(Head(s).type, types) /\ Head(s).type \in Types
  BY <1>1 DEF AllMatch, Sent
<1> QED
  BY <1>2, <1>3 DEF AllMatch

LEMMA SubscriptionsStep ==
  ASSUME TypeOK, Threads, Subscriptions, LoopEndsByPrefix, Next
  PROVE  Subscriptions' /\ LoopEndsByPrefix'
<1>a. /\ Typed /\ wanted \in [Clients -> SUBSET Types] /\ subs \in [Clients -> SUBSET Types]
      /\ DOMAIN down = Clients /\ down = [c \in Clients |-> down[c]]
  BY DEF TypeOK
<1> USE <1>a DEF Typed, Threads, Subscriptions, LoopEndsByPrefix, Moves, ClientRecords, net, history
<1>1. ASSUME Start  PROVE (Subscriptions /\ LoopEndsByPrefix)'
  BY <1>1 DEF Start
<1>2. ASSUME Bind  PROVE (Subscriptions /\ LoopEndsByPrefix)'
  BY <1>2 DEF Bind
<1>3. ASSUME Stop  PROVE (Subscriptions /\ LoopEndsByPrefix)'
  BY <1>3 DEF Stop
<1>4. ASSUME SendTerminate  PROVE (Subscriptions /\ LoopEndsByPrefix)'
  BY <1>4 DEF SendTerminate
<1>5. ASSUME Gone  PROVE (Subscriptions /\ LoopEndsByPrefix)'
  BY <1>5 DEF Gone
<1>6. ASSUME NEW c \in Clients, SubscriptionArrives(c)  PROVE (Subscriptions /\ LoopEndsByPrefix)'
  BY <1>6 DEF SubscriptionArrives
<1>7. ASSUME NEW c \in Senders, SubscriptionPassedOn(c)  PROVE (Subscriptions /\ LoopEndsByPrefix)'
  BY <1>7 DEF SubscriptionPassedOn
<1>8. ASSUME NEW c \in Senders, PassOn(c)  PROVE (Subscriptions /\ LoopEndsByPrefix)'
  <2>1. Head(up[c]) \in Sent /\ down \in [Clients -> Seq(Sent)]
    BY <1>8 DEF PassOn, TypeOK
  <2>2. ASSUME NEW d \in Clients
        PROVE  /\ AllMatch(down'[d], client[d].handlers)
               /\ client[d].loop = "none" => down'[d] = <<>>
    <3>1. CASE down'[d] = down[d]
      BY <3>1
    <3>2. CASE down'[d] = Append(down[d], Head(up[c])) /\ Matches(Head(up[c]).type, subs[d])
      <4>1. Matches(Head(up[c]).type, client[d].handlers)
        BY <3>2 DEF Matches
      <4>2. AllMatch(down'[d], client[d].handlers)
        BY <2>1, <3>2, <4>1, MatchAppended
      <4>3. client[d].loop # "none"
        BY <3>2 DEF Matches
      <4> QED
        BY <4>2, <4>3
    <3> QED
      BY <3>1, <3>2, <1>8 DEF PassOn
  <2> QED
    BY <1>8, <2>2 DEF PassOn
<1>9. ASSUME NEW c \in Clients, Connect(c)  PROVE (Subscriptions /\ LoopEndsByPrefix)'
  <2>1. CASE Moves(c, [client[c] EXCEPT !.main = "register", !.open = TRUE])
    BY <1>9, <2>1 DEF Connect
  <2>2. ASSUME NEW end \in {"ended", "hung"}, Moves(c, [client[c] EXCEPT !.main = end])
        PROVE  (Subscriptions /\ LoopEndsByPrefix)'
    BY <1>9, <2>2 DEF Connect
  <2> QED
    BY <1>9, <2>1, <2>2 DEF Connect
<1>10. ASSUME NEW c \in Clients, EndSend(c)  PROVE (Subscriptions /\ LoopEndsByPrefix)'
  BY <1>10 DEF EndSend
<1>11. ASSUME NEW c \in Clients, StopHeartbeat(c)  PROVE (Subscriptions /\ LoopEndsByPrefix)'
  BY <1>11 DEF StopHeartbeat
<1>12. ASSUME NEW c \in Clients, StopProcessing(c)  PROVE (Subscriptions /\ LoopEndsByPrefix)'
  BY <1>12 DEF StopProcessing
<1>13. ASSUME NEW c \in Clients, Join(c)  PROVE (Subscriptions /\ LoopEndsByPrefix)'
  BY <1>13 DEF Join
<1>14. ASSUME NEW c \in Clients, NEW types \in SUBSET Types, Register(c, types)
       PROVE  (Subscriptions /\ LoopEndsByPrefix)'
  BY <1>14, MatchNone DEF Register
<1>15. ASSUME NEW c \in Clients, NEW t \in Types, BeginSend(c, t)
       PROVE  (Subscriptions /\ LoopEndsByPrefix)'
  BY <1>15 DEF BeginSend
<1>16. ASSUME NEW c \in Clients, CreateHeartbeat(c)  PROVE (Subscriptions /\ LoopEndsByPrefix)'
  BY <1>16 DEF CreateHeartbeat
<1>17. ASSUME NEW c \in Clients, SetHeartbeat(c)  PROVE (Subscriptions /\ LoopEndsByPrefix)'
  BY <1>17 DEF SetHeartbeat
<1>18. ASSUME NEW c \in Clients, Subscribe(c)  PROVE (Subscriptions /\ LoopEndsByPrefix)'
  BY <1>18 DEF Subscribe
<1>19. ASSUME NEW c \in Clients, SetProcessing(c)  PROVE (Subscriptions /\ LoopEndsByPrefix)'
  BY <1>19 DEF SetProcessing
<1>20. ASSUME NEW c \in Clients, While(c)  PROVE (Subscriptions /\ LoopEndsByPrefix)'
  BY <1>20 DEF While
<1>21. ASSUME NEW c \in Clients, Poll(c)  PROVE (Subscriptions /\ LoopEndsByPrefix)'
  <2>1. CASE down[c] = <<>>
    <3>1. Moves(c, [client[c] EXCEPT !.loop = "test"]) /\ UNCHANGED <<wanted, subs, down>> /\ client[c].loop = "poll"
      BY <1>21, <2>1 DEF Poll
    <3> QED
      BY <1>21, <3>1
  <2>2. CASE down[c] # <<>>
    <3>1. /\ AllMatch(Tail(down[c]), client[c].handlers) /\ Matches(Head(down[c]).type, client[c].handlers)
          /\ Head(down[c]).type \in Types
      BY <2>2, MatchTaken DEF TypeOK
    <3>2. down' = [down EXCEPT ![c] = Tail(down[c])] /\ UNCHANGED <<wanted, subs>>
      BY <1>21, <2>2 DEF Poll
    <3>3. \/ Moves(c, [client[c] EXCEPT !.loop = "test"])
          \/ /\ Moves(c, [client[c] EXCEPT !.loop = "threw"])
             /\ Head(down[c]).type \notin client[c].handlers
      BY <1>21, <2>2 DEF Poll
    <3> QED
      BY <1>21, <3>1, <3>2, <3>3 DEF Poll
  <2> QED
    BY <2>1, <2>2
<1>22. ASSUME NEW c \in Clients, Disconnect(c)  PROVE (Subscriptions /\ LoopEndsByPrefix)'
  <2>1. CASE client[c].message_processing
    <3>1. Moves(c, [client[c] EXCEPT !.loop = "ended"]) /\ UNCHANGED <<wanted, subs, down>>
      BY <1>22, <2>1 DEF Disconnect
    <3> QED
      BY <1>22, <3>1
  <2>2. CASE ~client[c].message_processing
    <3>1. /\ Moves(c, [client[c] EXCEPT !.loop = "closing", !.open = FALSE])
          /\ UNCHANGED subs
          /\ wanted' = [wanted EXCEPT ![c] = {}] /\ down' = [down EXCEPT ![c] = <<>>]
      BY <1>22, <2>2 DEF Disconnect
    <3>2. /\ client'[c].loop = "closing" /\ client'[c].handlers = client[c].handlers
          /\ \A d \in Clients : d # c => client'[d] = client[d]
      BY <1>22, <3>1
    <3>3. wanted'[c] = {} /\ AllMatch(down'[c], client'[c].handlers)
      BY <1>22, <3>1, MatchNone
    <3>4. \A d \in Clients : d # c => wanted'[d] = wanted[d] /\ down'[d] = down[d]
      BY <1>22, <3>1
    <3> QED
      BY <1>22, <3>1, <3>2, <3>3, <3>4
  <2> QED
    BY <2>1, <2>2
<1>23. ASSUME NEW c \in Clients, TestHeartbeat(c)  PROVE (Subscriptions /\ LoopEndsByPrefix)'
  <2>1. PICK set \in BOOLEAN : Moves(c, [client[c] EXCEPT !.hb = IF set THEN "send" ELSE "ended"])
    BY <1>23 DEF TestHeartbeat
  <2> QED
    BY <1>23, <2>1 DEF TestHeartbeat
<1>24. ASSUME NEW c \in Clients, BeginBeat(c)  PROVE (Subscriptions /\ LoopEndsByPrefix)'
  BY <1>24 DEF BeginBeat
<1>25. ASSUME NEW c \in Clients, EndBeat(c)  PROVE (Subscriptions /\ LoopEndsByPrefix)'
  <2>1. CASE Moves(c, [client[c] EXCEPT !.hb = "test"])
    BY <1>25, <2>1 DEF EndBeat
  <2>2. CASE Moves(c, [client[c] EXCEPT !.hb = "ended", !.heartbeat_start = FALSE])
    BY <1>25, <2>2 DEF EndBeat
  <2> QED
    BY <1>25, <2>1, <2>2 DEF EndBeat
<1>26. ASSUME NEW c \in Clients, Crash(c)  PROVE (Subscriptions /\ LoopEndsByPrefix)'
  BY <1>26 DEF Crash
<1>27. ASSUME NEW p \in Peers, NEW t \in Types, PeerSends(p, t)
       PROVE  (Subscriptions /\ LoopEndsByPrefix)'
  BY <1>27 DEF PeerSends
<1>28. ASSUME NEW c \in Clients, Destroy(c)  PROVE (Subscriptions /\ LoopEndsByPrefix)'
  <2>1. /\ client[c].loop \in {"ended", "threw"} /\ client'[c].loop = client[c].loop
        /\ client'[c].handlers = client[c].handlers
        /\ \A d \in Clients : d # c => client'[d] = client[d]
    BY <1>28 DEF Destroy
  <2>2. wanted'[c] = {} /\ AllMatch(down'[c], client'[c].handlers) /\ UNCHANGED subs
    BY <1>28, <2>1, MatchNone DEF Destroy
  <2>3. \A d \in Clients : d # c => wanted'[d] = wanted[d] /\ down'[d] = down[d]
    BY <1>28 DEF Destroy
  <2> QED
    BY <2>1, <2>2, <2>3
<1>29. ASSUME NEW c \in Clients, CloseContext(c)  PROVE (Subscriptions /\ LoopEndsByPrefix)'
  BY <1>29 DEF CloseContext
<1> QED
  BY <1>1, <1>2, <1>3, <1>4, <1>5, <1>6, <1>7, <1>8, <1>9, <1>10, <1>11, <1>12, <1>13, <1>14, <1>15,
       <1>16, <1>17, <1>18, <1>19, <1>20, <1>21, <1>22, <1>23, <1>24, <1>25, <1>26, <1>27, <1>28, <1>29
    DEF Next, Main, Loop, Heartbeat, Proxy, Stopping, StopFails, Terminate

(* What is due is of a type the server passes on. *)
LEMMA DuesStep ==
  ASSUME Typed, subs \in [Clients -> SUBSET Types], due \in [Clients -> SUBSET Sent],
         Threads, Subscriptions, Dues, Next
  PROVE  Dues'
<1> USE DEF Typed, Threads, Subscriptions, Dues, Running, Moves, ClientRecords, net, history
<1>1. ASSUME Start  PROVE Dues'
  BY <1>1 DEF Start
<1>2. ASSUME Bind  PROVE Dues'
  BY <1>2 DEF Bind
<1>3. ASSUME Stop  PROVE Dues'
  BY <1>3 DEF Stop
<1>4. ASSUME SendTerminate  PROVE Dues'
  BY <1>4 DEF SendTerminate
<1>5. ASSUME Gone  PROVE Dues'
  BY <1>5 DEF Gone
<1>6. ASSUME NEW c \in Clients, SubscriptionArrives(c)  PROVE Dues'
  BY <1>6 DEF SubscriptionArrives
<1>7. ASSUME NEW c \in Senders, SubscriptionPassedOn(c)  PROVE Dues'
  BY <1>7 DEF SubscriptionPassedOn
<1>8. ASSUME NEW c \in Senders, PassOn(c)  PROVE Dues'
  BY <1>8 DEF PassOn
<1>9. ASSUME NEW c \in Clients, Connect(c)  PROVE Dues'
  <2>1. CASE Moves(c, [client[c] EXCEPT !.main = "register", !.open = TRUE])
    BY <1>9, <2>1 DEF Connect
  <2>2. ASSUME NEW end \in {"ended", "hung"}, Moves(c, [client[c] EXCEPT !.main = end])
        PROVE  Dues'
    BY <1>9, <2>2 DEF Connect
  <2> QED
    BY <1>9, <2>1, <2>2 DEF Connect
<1>10. ASSUME NEW c \in Clients, EndSend(c)  PROVE Dues'
  <2> DEFINE m == [from |-> c, n |-> sent[c], type |-> client[c].type]
  <2>1. c \in Senders /\ m.from = c /\ m.type \in Types /\ (MustReach(m) \/ due' = due) /\ UNCHANGED <<subs, server, wanted>>
    BY <1>10 DEF EndSend, Senders, Typed
  <2>2. \A d \in Clients : /\ client'[d].loop = client[d].loop /\ client'[d].handlers = client[d].handlers
    BY <1>10 DEF EndSend, Moves, Typed, ClientRecords
  <2> HIDE DEF m
  <2>3. ASSUME NEW d \in Clients, MustReach(m)
        PROVE  /\ \A k \in due'[d] : k.type \in client[d].handlers
               /\ due'[d] = due[d] \/ (Running(d) /\ subs[d] = client[d].handlers)
    <3>1. due'[d] = IF Settled(m.from, d) /\ m.type \in client[d].handlers THEN due[d] \cup {m} ELSE due[d]
      BY <2>3 DEF MustReach
    <3>2. Settled(m.from, d) => Running(d) /\ subs[d] = client[d].handlers
      BY DEF Settled
    <3>3. \A k \in due[d] : k.type \in client[d].handlers
      OBVIOUS
    <3>4. CASE Settled(m.from, d) /\ m.type \in client[d].handlers
      <4>1. \A k \in due'[d] : k \in due[d] \/ k = m
        BY <3>1, <3>4
      <4> QED
        BY <4>1, <3>2, <3>3, <3>4
    <3>5. CASE due'[d] = due[d]
      <4>1. \A k \in due'[d] : k \in due[d]
        BY <3>5
      <4> QED
        BY <4>1, <3>3, <3>5
    <3> QED
      BY <3>1, <3>4, <3>5
  <2>4. \A d \in Clients : Running(d)' = Running(d)
    BY <2>2 DEF Running
  <2> QED
    BY <2>1, <2>2, <2>3, <2>4 DEF Running
<1>11. ASSUME NEW c \in Clients, StopHeartbeat(c)  PROVE Dues'
  BY <1>11 DEF StopHeartbeat
<1>12. ASSUME NEW c \in Clients, StopProcessing(c)  PROVE Dues'
  BY <1>12 DEF StopProcessing
<1>13. ASSUME NEW c \in Clients, Join(c)  PROVE Dues'
  BY <1>13 DEF Join
<1>14. ASSUME NEW c \in Clients, NEW types \in SUBSET Types, Register(c, types)  PROVE Dues'
  BY <1>14 DEF Register
<1>15. ASSUME NEW c \in Clients, NEW t \in Types, BeginSend(c, t)  PROVE Dues'
  BY <1>15 DEF BeginSend
<1>16. ASSUME NEW c \in Clients, CreateHeartbeat(c)  PROVE Dues'
  BY <1>16 DEF CreateHeartbeat
<1>17. ASSUME NEW c \in Clients, SetHeartbeat(c)  PROVE Dues'
  BY <1>17 DEF SetHeartbeat
<1>18. ASSUME NEW c \in Clients, Subscribe(c)  PROVE Dues'
  BY <1>18 DEF Subscribe
<1>19. ASSUME NEW c \in Clients, SetProcessing(c)  PROVE Dues'
  BY <1>19 DEF SetProcessing
<1>20. ASSUME NEW c \in Clients, While(c)  PROVE Dues'
  BY <1>20 DEF While
<1>21. ASSUME NEW c \in Clients, Poll(c)  PROVE Dues'
  <2>1. /\ \A d \in Clients : client'[d].handlers = client[d].handlers
        /\ \A d \in Clients \ {c} : client'[d] = client[d]
        /\ client[c].loop = "poll" /\ client'[c].loop \in {"test", "threw"}
        /\ UNCHANGED <<subs, due>>
    BY <1>21 DEF Poll
  <2> QED
    BY <2>1
<1>22. ASSUME NEW c \in Clients, Disconnect(c)  PROVE Dues'
  <2>1. /\ \A d \in Clients : client'[d].handlers = client[d].handlers
        /\ \A d \in Clients \ {c} : client'[d] = client[d]
        /\ client[c].loop = "disconnect" /\ client'[c].loop \in {"closing", "ended"}
        /\ UNCHANGED <<subs, due>>
    <3>1. CASE client[c].message_processing
      BY <1>22, <3>1 DEF Disconnect
    <3>2. CASE ~client[c].message_processing
      <4>1. /\ Moves(c, [client[c] EXCEPT !.loop = "closing", !.open = FALSE])
            /\ client[c].loop = "disconnect" /\ UNCHANGED <<subs, due>>
        BY <1>22, <3>2 DEF Disconnect
      <4> QED
        BY <1>22, <4>1
    <3> QED
      BY <3>1, <3>2
  <2> QED
    BY <2>1
<1>23. ASSUME NEW c \in Clients, TestHeartbeat(c)  PROVE Dues'
  BY <1>23 DEF TestHeartbeat
<1>24. ASSUME NEW c \in Clients, BeginBeat(c)  PROVE Dues'
  BY <1>24 DEF BeginBeat
<1>25. ASSUME NEW c \in Clients, EndBeat(c)  PROVE Dues'
  <2>1. CASE Moves(c, [client[c] EXCEPT !.hb = "test"])
    BY <1>25, <2>1 DEF EndBeat
  <2>2. CASE Moves(c, [client[c] EXCEPT !.hb = "ended", !.heartbeat_start = FALSE])
    BY <1>25, <2>2 DEF EndBeat
  <2> QED
    BY <1>25, <2>1, <2>2 DEF EndBeat
<1>26. ASSUME NEW c \in Clients, Crash(c)  PROVE Dues'
  BY <1>26 DEF Crash
<1>27. ASSUME NEW p \in Peers, NEW t \in Types, PeerSends(p, t)  PROVE Dues'
  <2> DEFINE m == [from |-> p, n |-> sent[p] + 1, type |-> t]
  <2>1. p \in Senders /\ m.from = p /\ m.type \in Types /\ (MustReach(m) \/ due' = due) /\ UNCHANGED <<subs, server, wanted>>
    BY <1>27 DEF PeerSends, Senders, Typed
  <2>2. \A d \in Clients : /\ client'[d].loop = client[d].loop /\ client'[d].handlers = client[d].handlers
    BY <1>27 DEF PeerSends, Moves, Typed, ClientRecords
  <2> HIDE DEF m
  <2>3. ASSUME NEW d \in Clients, MustReach(m)
        PROVE  /\ \A k \in due'[d] : k.type \in client[d].handlers
               /\ due'[d] = due[d] \/ (Running(d) /\ subs[d] = client[d].handlers)
    <3>1. due'[d] = IF Settled(m.from, d) /\ m.type \in client[d].handlers THEN due[d] \cup {m} ELSE due[d]
      BY <2>3 DEF MustReach
    <3>2. Settled(m.from, d) => Running(d) /\ subs[d] = client[d].handlers
      BY DEF Settled
    <3>3. \A k \in due[d] : k.type \in client[d].handlers
      OBVIOUS
    <3>4. CASE Settled(m.from, d) /\ m.type \in client[d].handlers
      <4>1. \A k \in due'[d] : k \in due[d] \/ k = m
        BY <3>1, <3>4
      <4> QED
        BY <4>1, <3>2, <3>3, <3>4
    <3>5. CASE due'[d] = due[d]
      <4>1. \A k \in due'[d] : k \in due[d]
        BY <3>5
      <4> QED
        BY <4>1, <3>3, <3>5
    <3> QED
      BY <3>1, <3>4, <3>5
  <2>4. \A d \in Clients : Running(d)' = Running(d)
    BY <2>2 DEF Running
  <2> QED
    BY <2>1, <2>2, <2>3, <2>4 DEF Running
<1>28. ASSUME NEW c \in Clients, Destroy(c)  PROVE Dues'
  <2>1. /\ UNCHANGED <<subs, due>> /\ client[c].loop \in {"ended", "threw"}
        /\ \A d \in Clients : client'[d].loop = client[d].loop /\ client'[d].handlers = client[d].handlers
    BY <1>28 DEF Destroy
  <2> QED
    BY <2>1
<1>29. ASSUME NEW c \in Clients, CloseContext(c)  PROVE Dues'
  BY <1>29 DEF CloseContext
<1> QED
  BY <1>1, <1>2, <1>3, <1>4, <1>5, <1>6, <1>7, <1>8, <1>9, <1>10, <1>11, <1>12, <1>13, <1>14, <1>15,
       <1>16, <1>17, <1>18, <1>19, <1>20, <1>21, <1>22, <1>23, <1>24, <1>25, <1>26, <1>27, <1>28, <1>29
    DEF Next, Main, Loop, Heartbeat, Proxy, Stopping, StopFails, Terminate

(* What is due is on its way or handled. *)
LEMMA SetAppended ==
  ASSUME NEW s \in Seq(Sent), NEW m \in Sent
  PROVE  ToSet(Append(s, m)) = ToSet(s) \cup {m}
<1>1. \A i \in DOMAIN s : i \in DOMAIN Append(s, m) /\ Append(s, m)[i] = s[i]
  OBVIOUS
<1>2. Len(s) + 1 \in DOMAIN Append(s, m) /\ Append(s, m)[Len(s) + 1] = m
  OBVIOUS
<1>3. \A i \in DOMAIN Append(s, m) : i \in DOMAIN s \/ i = Len(s) + 1
  OBVIOUS
<1>4. ToSet(Append(s, m)) \subseteq ToSet(s) \cup {m}
  BY <1>1, <1>2, <1>3 DEF ToSet
<1>5. ToSet(s) \cup {m} \subseteq ToSet(Append(s, m))
  BY <1>1, <1>2 DEF ToSet
<1> QED
  BY <1>4, <1>5

LEMMA SetTaken ==
  ASSUME NEW s \in Seq(Sent), s # <<>>
  PROVE  ToSet(s) = {Head(s)} \cup ToSet(Tail(s))
<1>1. 1 \in DOMAIN s /\ Head(s) = s[1]
  OBVIOUS
<1>2. \A i \in DOMAIN Tail(s) : i + 1 \in DOMAIN s /\ Tail(s)[i] = s[i + 1]
  OBVIOUS
<1>3. \A i \in DOMAIN s : i = 1 \/ (i - 1 \in DOMAIN Tail(s) /\ Tail(s)[i - 1] = s[i])
  OBVIOUS
<1>4. ToSet(s) \subseteq {Head(s)} \cup ToSet(Tail(s))
  BY <1>1, <1>3 DEF ToSet
<1>5. {Head(s)} \cup ToSet(Tail(s)) \subseteq ToSet(s)
  BY <1>1, <1>2 DEF ToSet
<1> QED
  BY <1>4, <1>5

LEMMA StaysUnderway ==
  ASSUME Underway, UNCHANGED <<handled, down, up, due>>,
         \A d \in Clients : Running(d)' => Running(d) \/ due[d] = {}
  PROVE  Underway'
  BY DEF Underway, OnTheWay

LEMMA PublishedUnderway ==
  ASSUME TypeOK, Subscriptions, Underway, UNCHANGED <<handled, down>>,
         NEW m \in Sent, Publish(m), due' = due \/ MustReach(m),
         \A d \in Clients : Running(d)' = Running(d)
  PROVE  Underway'
<1>1. m.from \in Senders /\ m.type \in Types /\ up[m.from] \in Seq(Sent)
  BY DEF Sent, TypeOK
<1>2. \A c \in Senders : ToSet(up[c]) \subseteq ToSet(up'[c])
  BY <1>1, SetAppended DEF Publish, TypeOK
<1>3. \A d \in Clients : OnTheWay(d) \subseteq OnTheWay(d)'
  BY <1>2 DEF OnTheWay
<1>4. ASSUME NEW d \in Clients, Settled(m.from, d), m.type \in client[d].handlers
      PROVE  m \in OnTheWay(d)'
  <2>1. m.type \in subs[d]
    BY <1>4 DEF Settled, Subscriptions, Running
  <2>2. Matches(m.type, filter[m.from])
    BY <1>1, <1>4, <2>1, BrokerAssumption DEF Settled, Known, Matches
  <2>3. up'[m.from] = Append(up[m.from], m)
    BY <1>1, <2>2 DEF Publish, TypeOK
  <2>4. m \in ToSet(up'[m.from])
    BY <1>1, <2>3, SetAppended
  <2> QED
    BY <1>1, <2>4 DEF OnTheWay
<1>5. ASSUME NEW d \in Clients, NEW k \in due'[d]
      PROVE  k \in due[d] \/ (k = m /\ Settled(m.from, d) /\ m.type \in client[d].handlers)
  BY <1>5 DEF MustReach
<1> QED
  BY <1>3, <1>4, <1>5 DEF Underway

LEMMA UnderwayStep ==
  ASSUME TypeOK, Threads, Sockets, Subscriptions, Dues, Underway, Next
  PROVE  Underway'
<1>a. Typed
  BY DEF TypeOK
<1> USE <1>a
<1>1. ASSUME Start  PROVE Underway'
  <2>1. UNCHANGED <<handled, down, up, due>> /\ \A d \in Clients : Running(d)' => Running(d) \/ due[d] = {}
    BY <1>1 DEF Start, Running, Moves, net, history, Typed, ClientRecords, Dues
  <2> QED
    BY <2>1, StaysUnderway
<1>2. ASSUME Bind  PROVE Underway'
  <2>1. UNCHANGED <<handled, down, up, due>> /\ \A d \in Clients : Running(d)' => Running(d) \/ due[d] = {}
    BY <1>2 DEF Bind, Running, Moves, net, history, Typed, ClientRecords, Dues
  <2> QED
    BY <2>1, StaysUnderway
<1>3. ASSUME Stop  PROVE Underway'
  <2>1. UNCHANGED <<handled, down, up, due>> /\ \A d \in Clients : Running(d)' => Running(d) \/ due[d] = {}
    BY <1>3 DEF Stop, Running, Moves, net, history, Typed, ClientRecords, Dues
  <2> QED
    BY <2>1, StaysUnderway
<1>4. ASSUME SendTerminate  PROVE Underway'
  <2>1. UNCHANGED <<handled, down, up, due>> /\ \A d \in Clients : Running(d)' => Running(d) \/ due[d] = {}
    BY <1>4 DEF SendTerminate, Running, Moves, net, history, Typed, ClientRecords, Dues
  <2> QED
    BY <2>1, StaysUnderway
<1>5. ASSUME Gone  PROVE Underway'
  <2>1. \A d \in Clients : due'[d] = {}
    BY <1>5 DEF Gone
  <2> QED
    BY <2>1 DEF Underway
<1>6. ASSUME NEW c \in Clients, SubscriptionArrives(c)  PROVE Underway'
  <2>1. UNCHANGED <<handled, down, up, due>> /\ \A d \in Clients : Running(d)' => Running(d) \/ due[d] = {}
    BY <1>6 DEF SubscriptionArrives, Running, Moves, net, history, Typed, ClientRecords, Dues
  <2> QED
    BY <2>1, StaysUnderway
<1>7. ASSUME NEW c \in Senders, SubscriptionPassedOn(c)  PROVE Underway'
  <2>1. UNCHANGED <<handled, down, up, due>> /\ \A d \in Clients : Running(d)' => Running(d) \/ due[d] = {}
    BY <1>7 DEF SubscriptionPassedOn, Running, Moves, net, history, Typed, ClientRecords, Dues
  <2> QED
    BY <2>1, StaysUnderway
<1>8. ASSUME NEW c \in Senders, PassOn(c)  PROVE Underway'
  <2> DEFINE m == Head(up[c])
  <2>1. m \in Sent /\ Tail(up[c]) \in Seq(Sent) /\ ToSet(up[c]) = {m} \cup ToSet(Tail(up[c]))
    BY <1>8, SetTaken DEF PassOn, TypeOK
  <2>2. UNCHANGED <<client, handled, due>> /\ up' = [up EXCEPT ![c] = Tail(up[c])]
    BY <1>8 DEF PassOn, history
  <2>3. ASSUME NEW d \in Clients, Running(d), NEW k \in due[d]
        PROVE  k \in OnTheWay(d)'
    <3>1. k \in OnTheWay(d)
      BY <2>3 DEF Underway
    <3>2. ToSet(down[d]) \subseteq ToSet(down'[d])
      <4>1. down'[d] = down[d] \/ down'[d] = Append(down[d], m)
        BY <1>8 DEF PassOn
      <4>2. down[d] \in Seq(Sent)
        BY DEF TypeOK
      <4> QED
        BY <4>1, <4>2, <2>1, SetAppended
    <3>3. k = m => k \in ToSet(down'[d])
      <4>1. ASSUME k = m  PROVE Matches(m.type, subs[d]) /\ client[d].open
        <5>1. subs[d] = client[d].handlers /\ k.type \in client[d].handlers
          BY <2>3 DEF Dues
        <5>2. k.type \in Types /\ client[d].open
          BY <2>3, <2>1, <4>1 DEF Running, Sockets, Loops, Sent
        <5> QED
          BY <4>1, <5>1, <5>2, BrokerAssumption DEF Matches
      <4>2. k = m => down'[d] = Append(down[d], m)
        BY <4>1, <1>8 DEF PassOn
      <4> QED
        BY <4>2, <2>1, SetAppended DEF TypeOK
    <3>4. ASSUME NEW e \in Senders, k \in ToSet(up[e]), k # m
          PROVE  k \in ToSet(up'[e])
      BY <2>1, <2>2, <3>4 DEF TypeOK
    <3> QED
      BY <2>2, <3>1, <3>2, <3>3, <3>4 DEF OnTheWay
  <2> QED
    BY <2>2, <2>3 DEF Underway, Running
<1>9. ASSUME NEW c \in Clients, Connect(c)  PROVE Underway'
  <2>1. UNCHANGED <<handled, down, up, due>> /\ \A d \in Clients : Running(d)' => Running(d) \/ due[d] = {}
    BY <1>9 DEF Connect, Running, Moves, net, history, Typed, ClientRecords, Dues
  <2> QED
    BY <2>1, StaysUnderway
<1>10. ASSUME NEW c \in Clients, EndSend(c)  PROVE Underway'
  <2> DEFINE m == [from |-> c, n |-> sent[c], type |-> client[c].type]
  <2>1. m \in Sent /\ m.from = c /\ UNCHANGED <<handled, down>>
    BY <1>10 DEF EndSend, Senders, Typed, Sent, TypeOK
  <2>2. \/ Publish(m) /\ (due' = due \/ MustReach(m))
        \/ UNCHANGED <<up, due>>
    BY <1>10 DEF EndSend
  <2>3. \A d \in Clients : Running(d)' = Running(d)
    BY <1>10 DEF EndSend, Moves, Typed, ClientRecords, Running
  <2> HIDE DEF m
  <2> QED
    BY <2>1, <2>2, <2>3, PublishedUnderway, StaysUnderway
<1>11. ASSUME NEW c \in Clients, StopHeartbeat(c)  PROVE Underway'
  <2>1. UNCHANGED <<handled, down, up, due>> /\ \A d \in Clients : Running(d)' => Running(d) \/ due[d] = {}
    BY <1>11 DEF StopHeartbeat, Running, Moves, net, history, Typed, ClientRecords, Dues
  <2> QED
    BY <2>1, StaysUnderway
<1>12. ASSUME NEW c \in Clients, StopProcessing(c)  PROVE Underway'
  <2>1. UNCHANGED <<handled, down, up, due>> /\ \A d \in Clients : Running(d)' => Running(d) \/ due[d] = {}
    BY <1>12 DEF StopProcessing, Running, Moves, net, history, Typed, ClientRecords, Dues
  <2> QED
    BY <2>1, StaysUnderway
<1>13. ASSUME NEW c \in Clients, Join(c)  PROVE Underway'
  <2>1. UNCHANGED <<handled, down, up, due>> /\ \A d \in Clients : Running(d)' => Running(d) \/ due[d] = {}
    BY <1>13 DEF Join, Running, Moves, net, history, Typed, ClientRecords, Dues
  <2> QED
    BY <2>1, StaysUnderway
<1>14. ASSUME NEW c \in Clients, NEW types \in SUBSET Types, Register(c, types)  PROVE Underway'
  <2>1. UNCHANGED <<handled, down, up, due>> /\ \A d \in Clients : Running(d)' => Running(d) \/ due[d] = {}
    BY <1>14 DEF Register, Running, Moves, net, history, Typed, ClientRecords, Dues
  <2> QED
    BY <2>1, StaysUnderway
<1>15. ASSUME NEW c \in Clients, NEW t \in Types, BeginSend(c, t)  PROVE Underway'
  <2>1. UNCHANGED <<handled, down, up, due>> /\ \A d \in Clients : Running(d)' => Running(d) \/ due[d] = {}
    BY <1>15 DEF BeginSend, Running, Moves, net, history, Typed, ClientRecords, Dues
  <2> QED
    BY <2>1, StaysUnderway
<1>16. ASSUME NEW c \in Clients, CreateHeartbeat(c)  PROVE Underway'
  <2>1. UNCHANGED <<handled, down, up, due>> /\ \A d \in Clients : Running(d)' => Running(d) \/ due[d] = {}
    BY <1>16 DEF CreateHeartbeat, Running, Moves, net, history, Typed, ClientRecords, Dues
  <2> QED
    BY <2>1, StaysUnderway
<1>17. ASSUME NEW c \in Clients, SetHeartbeat(c)  PROVE Underway'
  <2>1. UNCHANGED <<handled, down, up, due>> /\ \A d \in Clients : Running(d)' => Running(d) \/ due[d] = {}
    BY <1>17 DEF SetHeartbeat, Running, Moves, net, history, Typed, ClientRecords, Dues
  <2> QED
    BY <2>1, StaysUnderway
<1>18. ASSUME NEW c \in Clients, Subscribe(c)  PROVE Underway'
  <2>1. UNCHANGED <<handled, down, up, due>> /\ \A d \in Clients : Running(d)' => Running(d) \/ due[d] = {}
    BY <1>18 DEF Subscribe, Running, Moves, net, history, Typed, ClientRecords, Dues
  <2> QED
    BY <2>1, StaysUnderway
<1>19. ASSUME NEW c \in Clients, SetProcessing(c)  PROVE Underway'
  <2>1. UNCHANGED <<handled, down, up, due>> /\ \A d \in Clients : Running(d)' => Running(d) \/ due[d] = {}
    BY <1>19 DEF SetProcessing, Running, Moves, net, history, Typed, ClientRecords, Dues
  <2> QED
    BY <2>1, StaysUnderway
<1>20. ASSUME NEW c \in Clients, While(c)  PROVE Underway'
  <2>1. UNCHANGED <<handled, down, up, due>> /\ \A d \in Clients : Running(d)' => Running(d) \/ due[d] = {}
    BY <1>20 DEF While, Running, Moves, net, history, Typed, ClientRecords, Dues
  <2> QED
    BY <2>1, StaysUnderway
<1>21. ASSUME NEW c \in Clients, Poll(c)  PROVE Underway'
  <2>1. CASE down[c] = <<>>
    <3>1. Moves(c, [client[c] EXCEPT !.loop = "test"]) /\ UNCHANGED <<handled, down, up, due>> /\ Running(c)
      BY <1>21, <2>1 DEF Poll, Running
    <3>2. \A d \in Clients : Running(d)' => Running(d)
      BY <3>1 DEF Running, Moves, Typed
    <3> QED
      BY <3>1, <3>2, StaysUnderway
  <2>2. CASE down[c] # <<>> /\ Head(down[c]).type \notin client[c].handlers
    <3>1. Moves(c, [client[c] EXCEPT !.loop = "threw"]) /\ UNCHANGED <<handled, up, due>>
          /\ down' = [down EXCEPT ![c] = Tail(down[c])]
      BY <1>21, <2>2 DEF Poll
    <3>2. ~Running(c)' /\ \A d \in Clients \ {c} : client'[d] = client[d] /\ down'[d] = down[d]
      BY <3>1 DEF Running, Moves, Typed, ClientRecords, TypeOK
    <3> QED
      BY <3>1, <3>2 DEF Underway, Running, OnTheWay
  <2>3. CASE down[c] # <<>> /\ Head(down[c]).type \in client[c].handlers
    <3>1. Moves(c, [client[c] EXCEPT !.loop = "test"]) /\ UNCHANGED <<up, due>> /\ Running(c)
          /\ down' = [down EXCEPT ![c] = Tail(down[c])]
          /\ handled' = [handled EXCEPT ![c] = Append(handled[c], Head(down[c]))]
      BY <1>21, <2>3 DEF Poll, Running
    <3>2. \A d \in Clients : Running(d)' => Running(d)
      BY <3>1 DEF Running, Moves, Typed
    <3>3. ToSet(handled'[c]) \cup ToSet(down'[c]) = ToSet(handled[c]) \cup ToSet(down[c])
      <4>1. handled[c] \in Seq(Sent) /\ down[c] \in Seq(Sent) /\ Head(down[c]) \in Sent
        BY <2>3 DEF TypeOK
      <4>2. handled'[c] = Append(handled[c], Head(down[c])) /\ down'[c] = Tail(down[c])
        BY <3>1 DEF TypeOK
      <4> QED
        BY <4>1, <4>2, <2>3, SetAppended, SetTaken
    <3>4. \A d \in Clients \ {c} : handled'[d] = handled[d] /\ down'[d] = down[d]
      BY <3>1 DEF TypeOK
    <3>5. \A d \in Clients : OnTheWay(d)' = OnTheWay(d)
      BY <3>1, <3>3, <3>4 DEF OnTheWay
    <3> QED
      BY <3>1, <3>2, <3>5 DEF Underway
  <2> QED
    BY <2>1, <2>2, <2>3
<1>22. ASSUME NEW c \in Clients, Disconnect(c)  PROVE Underway'
  <2>1. /\ client[c].loop = "disconnect" /\ client'[c].loop \in {"closing", "ended"}
        /\ UNCHANGED <<handled, up, due>>
        /\ \A d \in Clients \ {c} : client'[d] = client[d] /\ down'[d] = down[d]
    <3>1. CASE client[c].message_processing
      BY <1>22, <3>1 DEF Disconnect, Moves, history, Typed, ClientRecords
    <3>2. CASE ~client[c].message_processing
      <4>1. /\ Moves(c, [client[c] EXCEPT !.loop = "closing", !.open = FALSE])
            /\ client[c].loop = "disconnect" /\ UNCHANGED <<handled, up, due>>
            /\ down' = [down EXCEPT ![c] = <<>>]
        BY <1>22, <3>2 DEF Disconnect, history
      <4> QED
        BY <1>22, <4>1 DEF Moves, Typed, ClientRecords, TypeOK
    <3> QED
      BY <3>1, <3>2
  <2> QED
    BY <2>1 DEF Underway, Running, OnTheWay
<1>23. ASSUME NEW c \in Clients, TestHeartbeat(c)  PROVE Underway'
  <2>1. UNCHANGED <<handled, down, up, due>> /\ \A d \in Clients : Running(d)' => Running(d) \/ due[d] = {}
    BY <1>23 DEF TestHeartbeat, Running, Moves, net, history, Typed, ClientRecords, Dues
  <2> QED
    BY <2>1, StaysUnderway
<1>24. ASSUME NEW c \in Clients, BeginBeat(c)  PROVE Underway'
  <2>1. UNCHANGED <<handled, down, up, due>> /\ \A d \in Clients : Running(d)' => Running(d) \/ due[d] = {}
    BY <1>24 DEF BeginBeat, Running, Moves, net, history, Typed, ClientRecords, Dues
  <2> QED
    BY <2>1, StaysUnderway
<1>25. ASSUME NEW c \in Clients, EndBeat(c)  PROVE Underway'
  <2>1. UNCHANGED <<handled, down, up, due>> /\ \A d \in Clients : Running(d)' => Running(d) \/ due[d] = {}
    BY <1>25 DEF EndBeat, Running, Moves, net, history, Typed, ClientRecords, Dues
  <2> QED
    BY <2>1, StaysUnderway
<1>26. ASSUME NEW c \in Clients, Crash(c)  PROVE Underway'
  <2>1. UNCHANGED <<handled, down, up, due>> /\ \A d \in Clients : Running(d)' => Running(d) \/ due[d] = {}
    BY <1>26 DEF Crash, Running, Moves, net, history, Typed, ClientRecords, Dues
  <2> QED
    BY <2>1, StaysUnderway
<1>27. ASSUME NEW p \in Peers, NEW t \in Types, PeerSends(p, t)  PROVE Underway'
  <2> DEFINE m == [from |-> p, n |-> sent[p] + 1, type |-> t]
  <2>1. m \in Sent /\ m.from = p /\ UNCHANGED <<handled, down>>
    BY <1>27 DEF PeerSends, Senders, Typed, Sent, TypeOK
  <2>2. \/ Publish(m) /\ (due' = due \/ MustReach(m))
        \/ UNCHANGED <<up, due>>
    BY <1>27 DEF PeerSends
  <2>3. \A d \in Clients : Running(d)' = Running(d)
    BY <1>27 DEF PeerSends, Moves, Typed, ClientRecords, Running
  <2> HIDE DEF m
  <2> QED
    BY <2>1, <2>2, <2>3, PublishedUnderway, StaysUnderway
<1>28. ASSUME NEW c \in Clients, Destroy(c)  PROVE Underway'
  <2>1. /\ ~Running(c) /\ UNCHANGED <<handled, up, due>>
        /\ \A d \in Clients : Running(d)' = Running(d)
        /\ \A d \in Clients \ {c} : down'[d] = down[d]
    BY <1>28 DEF Destroy, Moves, history, Typed, ClientRecords, Running, Threads, TypeOK
  <2> QED
    BY <2>1 DEF Underway, OnTheWay
<1>29. ASSUME NEW c \in Clients, CloseContext(c)  PROVE Underway'
  <2>1. UNCHANGED <<handled, down, up, due>> /\ \A d \in Clients : Running(d)' => Running(d) \/ due[d] = {}
    BY <1>29 DEF CloseContext, Running, Moves, net, history, Typed, ClientRecords, Dues
  <2> QED
    BY <2>1, StaysUnderway
<1> QED
  BY <1>1, <1>2, <1>3, <1>4, <1>5, <1>6, <1>7, <1>8, <1>9, <1>10, <1>11, <1>12, <1>13, <1>14, <1>15,
       <1>16, <1>17, <1>18, <1>19, <1>20, <1>21, <1>22, <1>23, <1>24, <1>25, <1>26, <1>27, <1>28, <1>29
    DEF Next, Main, Loop, Heartbeat, Proxy, Stopping, StopFails, Terminate

-----------------------------------------------------------------------------
(* The order of each sender's messages. *)

LEMMA Appending ==
  ASSUME NEW s \in Seq(Sent), NEW m \in Sent
  PROVE  /\ Append(s, m) \in Seq(Sent)
         /\ \A i \in DOMAIN s : i \in DOMAIN Append(s, m) /\ Append(s, m)[i] = s[i]
         /\ \A i \in DOMAIN Append(s, m) :
           (i \in DOMAIN s /\ Append(s, m)[i] = s[i]) \/ (i = Len(s) + 1 /\ Append(s, m)[i] = m)
         /\ \A i, j \in DOMAIN Append(s, m) : i < j => i \in DOMAIN s
<1>1. /\ Append(s, m) \in Seq(Sent) /\ DOMAIN Append(s, m) = 1 .. Len(s) + 1
      /\ DOMAIN s = 1 .. Len(s) /\ Len(s) \in Nat
  OBVIOUS
<1>2. \A i \in DOMAIN Append(s, m) : Append(s, m)[i] = IF i = Len(s) + 1 THEN m ELSE s[i]
  OBVIOUS
<1>3. \A i \in DOMAIN Append(s, m) : i \in DOMAIN s \/ i = Len(s) + 1
  BY <1>1
<1>4. \A i \in DOMAIN s : i \in DOMAIN Append(s, m) /\ i # Len(s) + 1
  BY <1>1
<1>5. \A i, j \in DOMAIN Append(s, m) : i < j => i \in DOMAIN s
  BY <1>1
<1>6. \A i \in DOMAIN s : i \in DOMAIN Append(s, m) /\ Append(s, m)[i] = s[i]
  BY <1>2, <1>4
<1>7. \A i \in DOMAIN Append(s, m) :
           (i \in DOMAIN s /\ Append(s, m)[i] = s[i]) \/ (i = Len(s) + 1 /\ Append(s, m)[i] = m)
  BY <1>2, <1>3
<1> QED
  BY <1>1, <1>5, <1>6, <1>7

LEMMA Taking ==
  ASSUME NEW s \in Seq(Sent), s # <<>>
  PROVE  /\ Head(s) \in Sent /\ Tail(s) \in Seq(Sent) /\ 1 \in DOMAIN s /\ Head(s) = s[1]
         /\ \A i \in DOMAIN Tail(s) : i + 1 \in DOMAIN s /\ 1 < i + 1 /\ Tail(s)[i] = s[i + 1]
         /\ \A i, j \in DOMAIN Tail(s) : i < j => i + 1 < j + 1
  OBVIOUS

LEMMA EarlierAppended ==
  ASSUME NEW s \in Seq(Sent), NEW m \in Sent, NEW k \in Sent, Earlier(s, k), m.from = k.from => m.n < k.n
  PROVE  Earlier(Append(s, m), k)
  BY Appending DEF Earlier

LEMMA EarlierTaken ==
  ASSUME NEW s \in Seq(Sent), s # <<>>, NEW m, Earlier(s, m)
  PROVE  Earlier(Tail(s), m) /\ (Head(s).from = m.from => Head(s).n < m.n)
  BY Taking DEF Earlier

LEMMA OrderedAppended ==
  ASSUME NEW s \in Seq(Sent), NEW m \in Sent, Ordered(s), Earlier(s, m)
  PROVE  Ordered(Append(s, m))
<1> SUFFICES ASSUME NEW i \in DOMAIN Append(s, m), NEW j \in DOMAIN Append(s, m), i < j,
                    Append(s, m)[i].from = Append(s, m)[j].from
             PROVE  Append(s, m)[i].n < Append(s, m)[j].n
  BY DEF Ordered
<1>1. i \in DOMAIN s /\ Append(s, m)[i] = s[i]
  BY Appending
<1>2. (j \in DOMAIN s /\ Append(s, m)[j] = s[j]) \/ Append(s, m)[j] = m
  BY Appending
<1> QED
  BY <1>1, <1>2 DEF Ordered, Earlier

LEMMA OrderedTaken ==
  ASSUME NEW s \in Seq(Sent), s # <<>>, Ordered(s)
  PROVE  /\ Ordered(Tail(s))
         /\ \A j \in DOMAIN Tail(s) : Head(s).from = Tail(s)[j].from => Head(s).n < Tail(s)[j].n
  BY Taking DEF Ordered

LEMMA UpToAppended ==
  ASSUME NEW s \in Seq(Sent), NEW m \in Sent, NEW last, UpTo(s, last), m.n <= last[m.from]
  PROVE  UpTo(Append(s, m), last)
  BY Appending DEF UpTo

LEMMA UpToTaken ==
  ASSUME NEW s \in Seq(Sent), s # <<>>, NEW last, UpTo(s, last)
  PROVE  UpTo(Tail(s), last) /\ Head(s).n <= last[Head(s).from]
  BY Taking DEF UpTo

(* What may be sent next is later than all that has been sent. *)
LEMMA UpToEarlier ==
  ASSUME NEW s \in Seq(Sent), NEW m \in Sent, NEW last \in [Senders -> Int], UpTo(s, last), last[m.from] < m.n
  PROVE  Earlier(s, m)
<1> SUFFICES ASSUME NEW i \in DOMAIN s, s[i].from = m.from  PROVE s[i].n < m.n
  BY DEF Earlier
<1>1. s[i].n <= last[m.from] /\ s[i] \in Sent
  BY DEF UpTo
<1> QED
  BY <1>1 DEF Sent

LEMMA UpToMore ==
  ASSUME NEW s \in Seq(Sent), NEW last \in [Senders -> Int], NEW next \in [Senders -> Int],
         UpTo(s, last), \A c \in Senders : last[c] <= next[c]
  PROVE  UpTo(s, next)
<1> SUFFICES ASSUME NEW i \in DOMAIN s  PROVE s[i].n <= next[s[i].from]
  BY DEF UpTo
<1>1. s[i].n <= last[s[i].from] /\ s[i] \in Sent
  BY DEF UpTo
<1>2. s[i].from \in Senders /\ s[i].n \in Nat
  BY <1>1 DEF Sent
<1> QED
  BY <1>1, <1>2

LEMMA ChainPublished ==
  ASSUME NEW s \in Seq(Sent), NEW t \in Seq(Sent), NEW u \in Seq(Sent), NEW m \in Sent,
         Chain(s, t, u), Earlier(s, m), Earlier(t, m)
  PROVE  Chain(s, t, Append(u, m))
  BY Appending DEF Chain, Ahead

LEMMA ChainPassed ==
  ASSUME NEW s \in Seq(Sent), NEW t \in Seq(Sent), NEW u \in Seq(Sent), u # <<>>, Ordered(u), Chain(s, t, u)
  PROVE  Chain(s, t, Tail(u)) /\ Chain(s, Append(t, Head(u)), Tail(u))
<1>1. Earlier(s, Head(u)) /\ Earlier(t, Head(u)) /\ Head(u) \in Sent
  BY Taking DEF Chain, Ahead
<1>2. Ahead(s, Tail(u)) /\ Ahead(t, Tail(u))
  BY Taking DEF Chain, Ahead
<1>3. Ordered(Append(t, Head(u))) /\ Ahead(s, Append(t, Head(u)))
  BY <1>1, OrderedAppended, Appending DEF Chain, Ahead
<1>4. Ahead(Append(t, Head(u)), Tail(u))
  <2> SUFFICES ASSUME NEW j \in DOMAIN Tail(u)  PROVE Earlier(Append(t, Head(u)), Tail(u)[j])
    BY DEF Ahead
  <2>1. Earlier(t, Tail(u)[j]) /\ Tail(u)[j] \in Sent
    BY <1>2, Taking DEF Ahead
  <2>2. Head(u).from = Tail(u)[j].from => Head(u).n < Tail(u)[j].n
    BY OrderedTaken
  <2> QED
    BY <1>1, <2>1, <2>2, EarlierAppended
<1> QED
  BY <1>2, <1>3, <1>4 DEF Chain

(* A message passed on meets those still on their way from the others. *)
LEMMA ChainPassedOther ==
  ASSUME NEW s \in Seq(Sent), NEW t \in Seq(Sent), NEW u \in Seq(Sent), NEW m \in Sent, NEW c,
         Chain(s, t, u), AllFrom(u, c), m.from # c, Earlier(s, m), Earlier(t, m)
  PROVE  Chain(s, Append(t, m), u)
<1>1. Ordered(Append(t, m)) /\ Ahead(s, Append(t, m))
  BY OrderedAppended, Appending DEF Chain, Ahead
<1>2. Ahead(Append(t, m), u)
  <2> SUFFICES ASSUME NEW j \in DOMAIN u  PROVE Earlier(Append(t, m), u[j])
    BY DEF Ahead
  <2>1. Earlier(t, u[j]) /\ u[j] \in Sent /\ u[j].from = c
    BY DEF Chain, Ahead, AllFrom
  <2> QED
    BY <2>1, EarlierAppended
<1> QED
  BY <1>1, <1>2 DEF Chain

LEMMA ChainHandled ==
  ASSUME NEW s \in Seq(Sent), NEW t \in Seq(Sent), NEW u \in Seq(Sent), t # <<>>, Chain(s, t, u)
  PROVE  Chain(s, Tail(t), u) /\ Chain(Append(s, Head(t)), Tail(t), u)
<1>1. Earlier(s, Head(t)) /\ Head(t) \in Sent /\ Tail(t) \in Seq(Sent)
  BY Taking DEF Chain, Ahead
<1>2. Ordered(Tail(t)) /\ Ahead(s, Tail(t))
  BY Taking, OrderedTaken DEF Chain, Ahead
<1>3. Ahead(Tail(t), u)
  BY EarlierTaken DEF Chain, Ahead
<1>4. Ordered(Append(s, Head(t)))
  BY <1>1, OrderedAppended DEF Chain
<1>5. Ahead(Append(s, Head(t)), Tail(t))
  <2> SUFFICES ASSUME NEW j \in DOMAIN Tail(t)  PROVE Earlier(Append(s, Head(t)), Tail(t)[j])
    BY DEF Ahead
  <2>1. Earlier(s, Tail(t)[j]) /\ Tail(t)[j] \in Sent
    BY <1>2, <1>1 DEF Ahead
  <2>2. Head(t).from = Tail(t)[j].from => Head(t).n < Tail(t)[j].n
    BY OrderedTaken DEF Chain
  <2> QED
    BY <1>1, <2>1, <2>2, EarlierAppended
<1>6. Ahead(Append(s, Head(t)), u)
  <2> SUFFICES ASSUME NEW j \in DOMAIN u  PROVE Earlier(Append(s, Head(t)), u[j])
    BY DEF Ahead
  <2>1. Earlier(s, u[j]) /\ Earlier(t, u[j]) /\ u[j] \in Sent
    BY DEF Chain, Ahead
  <2>2. Head(t).from = u[j].from => Head(t).n < u[j].n
    BY <2>1, EarlierTaken
  <2> QED
    BY <1>1, <2>1, <2>2, EarlierAppended
<1> QED
  BY <1>2, <1>3, <1>4, <1>5, <1>6 DEF Chain

LEMMA ChainEmpty ==
  ASSUME NEW s, NEW t, NEW u, Chain(s, t, u)
  PROVE  Chain(s, <<>>, u) /\ Chain(s, t, <<>>)
  BY DEF Chain, Ahead, Earlier, Ordered

LEMMA LastSentType == TypeOK => LastSent \in [Senders -> Int]
  BY DEF TypeOK, LastSent

LEMMA SameSent ==
  ASSUME UNCHANGED sent, \A d \in Clients : client'[d].main = "sending" <=> client[d].main = "sending"
  PROVE  LastSent' = LastSent
  BY DEF LastSent

LEMMA QuietInOrder ==
  ASSUME InOrder, UNCHANGED <<handled, down, up>>, LastSent' = LastSent
  PROVE  InOrder'
  BY DEF InOrder

LEMMA PublishedInOrder ==
  ASSUME TypeOK, TypeOK', InOrder, UNCHANGED <<handled, down>>, NEW m \in Sent, Publish(m) \/ UNCHANGED up,
         LastSent[m.from] < m.n, m.n <= LastSent'[m.from], \A c \in Senders : LastSent[c] <= LastSent'[c]
  PROVE  InOrder'
<1>1. LastSent \in [Senders -> Int] /\ LastSent' \in [Senders -> Int]
  BY DEF TypeOK, LastSent
<1>2. \A s \in Seq(Sent) : UpTo(s, LastSent) => UpTo(s, LastSent')
  BY <1>1, UpToMore
<1>3. \A s \in Seq(Sent) : UpTo(s, LastSent) => Earlier(s, m)
  BY <1>1, UpToEarlier
<1>4. /\ \A d \in Clients : handled[d] \in Seq(Sent) /\ down[d] \in Seq(Sent)
      /\ \A c \in Senders : up[c] \in Seq(Sent)
  BY DEF TypeOK
<1>5. ASSUME NEW c \in Senders
      PROVE  up'[c] = up[c] \/ (up'[c] = Append(up[c], m) /\ c = m.from)
  BY DEF Publish, TypeOK
<1>6. ASSUME NEW c \in Senders
      PROVE  Ordered(up'[c]) /\ AllFrom(up'[c], c) /\ UpTo(up'[c], LastSent')
  <2>1. Ordered(up[c]) /\ AllFrom(up[c], c) /\ UpTo(up[c], LastSent') /\ Earlier(up[c], m)
    BY <1>2, <1>3, <1>4 DEF InOrder
  <2>2. CASE up'[c] = Append(up[c], m) /\ c = m.from
    BY <1>4, <2>1, <2>2, OrderedAppended, UpToAppended, Appending DEF AllFrom
  <2> QED
    BY <1>5, <2>1, <2>2
<1>7. ASSUME NEW d \in Clients, NEW c \in Senders
      PROVE  Chain(handled[d], down[d], up'[c])
  <2>1. Chain(handled[d], down[d], up[c]) /\ Earlier(handled[d], m) /\ Earlier(down[d], m)
    BY <1>3, <1>4 DEF InOrder
  <2> QED
    BY <1>4, <1>5, <2>1, ChainPublished
<1>8. \A d \in Clients : UpTo(handled[d], LastSent') /\ UpTo(down[d], LastSent')
  BY <1>2, <1>4 DEF InOrder
<1> QED
  BY <1>6, <1>7, <1>8 DEF InOrder

LEMMA InOrderStep ==
  ASSUME TypeOK, TypeOK', InOrder, Next
  PROVE  InOrder'
<1>a. Typed
  BY DEF TypeOK
<1> USE <1>a
<1>1. ASSUME Start  PROVE InOrder'
  <2>1. UNCHANGED <<handled, down, up>> /\ LastSent' = LastSent
    BY <1>1 DEF Start, net, history, LastSent
  <2> QED
    BY <2>1, QuietInOrder
<1>2. ASSUME Bind  PROVE InOrder'
  <2>1. UNCHANGED <<handled, down, up>> /\ LastSent' = LastSent
    BY <1>2 DEF Bind, net, history, LastSent
  <2> QED
    BY <2>1, QuietInOrder
<1>3. ASSUME Stop  PROVE InOrder'
  <2>1. UNCHANGED <<handled, down, up>> /\ LastSent' = LastSent
    BY <1>3 DEF Stop, net, history, LastSent
  <2> QED
    BY <2>1, QuietInOrder
<1>4. ASSUME SendTerminate  PROVE InOrder'
  <2>1. UNCHANGED <<handled, down, up>> /\ LastSent' = LastSent
    BY <1>4 DEF SendTerminate, net, history, LastSent
  <2> QED
    BY <2>1, QuietInOrder
<1>5. ASSUME Gone  PROVE InOrder'
  <2>1. UNCHANGED <<handled, down>> /\ LastSent' = LastSent /\ \A e \in Senders : up'[e] \in {up[e], <<>>}
    BY <1>5 DEF Gone, LastSent
  <2>2. \A e \in Senders : Ordered(up'[e]) /\ AllFrom(up'[e], e) /\ UpTo(up'[e], LastSent)
    BY <2>1 DEF InOrder, Ordered, AllFrom, UpTo
  <2> QED
    BY <2>1, <2>2, ChainEmpty DEF InOrder
<1>6. ASSUME NEW c \in Clients, SubscriptionArrives(c)  PROVE InOrder'
  <2>1. UNCHANGED <<handled, down, up>> /\ LastSent' = LastSent
    BY <1>6 DEF SubscriptionArrives, net, history, LastSent
  <2> QED
    BY <2>1, QuietInOrder
<1>7. ASSUME NEW c \in Senders, SubscriptionPassedOn(c)  PROVE InOrder'
  <2>1. UNCHANGED <<handled, down, up>> /\ LastSent' = LastSent
    BY <1>7 DEF SubscriptionPassedOn, net, history, LastSent
  <2> QED
    BY <2>1, QuietInOrder
<1>8. ASSUME NEW c \in Senders, PassOn(c)  PROVE InOrder'
  <2> DEFINE m == Head(up[c])
  <2>1. /\ up[c] # <<>> /\ UNCHANGED <<client, handled, sent>>
        /\ up'[c] = Tail(up[c]) /\ \A e \in Senders \ {c} : up'[e] = up[e]
        /\ \A d \in Clients : down'[d] = down[d] \/ down'[d] = Append(down[d], m)
    BY <1>8 DEF PassOn, history, TypeOK
  <2>2. LastSent' = LastSent
    BY <2>1 DEF LastSent
  <2>3. m \in Sent /\ m.from = c /\ up[c] \in Seq(Sent)
    BY <2>1, Taking DEF TypeOK, InOrder, AllFrom
  <2>4. UpTo(up'[c], LastSent) /\ m.n <= LastSent[m.from]
    BY <2>1, <2>3, UpToTaken DEF InOrder
  <2>5. Ordered(up'[c]) /\ AllFrom(up'[c], c)
    BY <2>1, <2>3, OrderedTaken, Taking DEF InOrder, AllFrom
  <2> HIDE DEF m
  <2>6. ASSUME NEW d \in Clients
        PROVE  UpTo(down'[d], LastSent) /\ \A e \in Senders : Chain(handled[d], down'[d], up'[e])
    <3>1. /\ handled[d] \in Seq(Sent) /\ down[d] \in Seq(Sent) /\ UpTo(down[d], LastSent)
          /\ Chain(handled[d], down[d], up[c]) /\ Ordered(up[c])
      BY DEF TypeOK, InOrder
    <3>2. Earlier(handled[d], m) /\ Earlier(down[d], m)
      BY <2>1, <2>3, <3>1, Taking DEF Chain, Ahead, m
    <3>3. Chain(handled[d], down'[d], up'[c])
      BY <2>1, <2>3, <3>1, ChainPassed DEF m
    <3>4. ASSUME NEW e \in Senders \ {c}  PROVE Chain(handled[d], down'[d], up[e])
      <4>1. up[e] \in Seq(Sent) /\ Chain(handled[d], down[d], up[e]) /\ AllFrom(up[e], e) /\ m.from # e
        BY <2>3 DEF TypeOK, InOrder
      <4> QED
        BY <2>1, <2>3, <3>1, <3>2, <4>1, ChainPassedOther
    <3>5. UpTo(down'[d], LastSent)
      BY <2>1, <2>3, <2>4, <3>1, UpToAppended
    <3> QED
      BY <2>1, <3>3, <3>4, <3>5
  <2> QED
    BY <2>1, <2>2, <2>4, <2>5, <2>6 DEF InOrder
<1>9. ASSUME NEW c \in Clients, Connect(c)  PROVE InOrder'
  <2>1. UNCHANGED <<handled, down, up, sent>>
    BY <1>9 DEF Connect, net, history
  <2>2. \A d \in Clients : client'[d].main = "sending" <=> client[d].main = "sending"
    BY <1>9 DEF Connect, Moves, Typed, ClientRecords
  <2> QED
    BY <2>1, <2>2, SameSent, QuietInOrder
<1>10. ASSUME NEW c \in Clients, EndSend(c)  PROVE InOrder'
  <2> DEFINE m == [from |-> c, n |-> sent[c], type |-> client[c].type]
  <2>1. m \in Sent /\ m.from = c /\ m.n = sent[c] /\ UNCHANGED <<handled, down, sent>>
    BY <1>10 DEF EndSend, Senders, Typed, Sent, TypeOK
  <2>2. Publish(m) \/ UNCHANGED up
    BY <1>10 DEF EndSend
  <2>3. /\ client[c].main = "sending" /\ client'[c].main = "idle"
        /\ \A d \in Clients \ {c} : client'[d] = client[d]
    BY <1>10 DEF EndSend, Moves, Typed, ClientRecords
  <2> HIDE DEF m
  <2>4. /\ LastSent[c] = sent[c] - 1 /\ LastSent'[c] = sent[c]
        /\ \A d \in Senders \ {c} : LastSent'[d] = LastSent[d]
    BY <2>1, <2>3 DEF LastSent, Senders
  <2>5. sent[c] \in Nat /\ \A d \in Senders : LastSent[d] <= LastSent'[d]
    <3>1. sent[c] \in Nat /\ \A d \in Senders : LastSent[d] \in Int
      BY LastSentType DEF TypeOK, Senders
    <3>2. sent[c] - 1 <= sent[c]
      BY <3>1
    <3> QED
      BY <2>4, <3>1, <3>2
  <2> QED
    BY <2>1, <2>2, <2>4, <2>5, PublishedInOrder
<1>11. ASSUME NEW c \in Clients, StopHeartbeat(c)  PROVE InOrder'
  <2>1. UNCHANGED <<handled, down, up, sent>>
    BY <1>11 DEF StopHeartbeat, net, history
  <2>2. \A d \in Clients : client'[d].main = "sending" <=> client[d].main = "sending"
    BY <1>11 DEF StopHeartbeat, Moves, Typed, ClientRecords
  <2> QED
    BY <2>1, <2>2, SameSent, QuietInOrder
<1>12. ASSUME NEW c \in Clients, StopProcessing(c)  PROVE InOrder'
  <2>1. UNCHANGED <<handled, down, up, sent>>
    BY <1>12 DEF StopProcessing, net, history
  <2>2. \A d \in Clients : client'[d].main = "sending" <=> client[d].main = "sending"
    BY <1>12 DEF StopProcessing, Moves, Typed, ClientRecords
  <2> QED
    BY <2>1, <2>2, SameSent, QuietInOrder
<1>13. ASSUME NEW c \in Clients, Join(c)  PROVE InOrder'
  <2>1. UNCHANGED <<handled, down, up, sent>>
    BY <1>13 DEF Join, net, history
  <2>2. \A d \in Clients : client'[d].main = "sending" <=> client[d].main = "sending"
    BY <1>13 DEF Join, Moves, Typed, ClientRecords
  <2> QED
    BY <2>1, <2>2, SameSent, QuietInOrder
<1>14. ASSUME NEW c \in Clients, NEW types \in SUBSET Types, Register(c, types)  PROVE InOrder'
  <2>1. UNCHANGED <<handled, down, up, sent>>
    BY <1>14 DEF Register, net, history
  <2>2. \A d \in Clients : client'[d].main = "sending" <=> client[d].main = "sending"
    BY <1>14 DEF Register, Moves, Typed, ClientRecords
  <2> QED
    BY <2>1, <2>2, SameSent, QuietInOrder
<1>15. ASSUME NEW c \in Clients, NEW t \in Types, BeginSend(c, t)  PROVE InOrder'
  <2>1. UNCHANGED <<handled, down, up>> /\ sent' = [sent EXCEPT ![c] = @ + 1]
    BY <1>15 DEF BeginSend, history
  <2>2. /\ client[c].main # "sending" /\ client'[c].main = "sending"
        /\ \A d \in Clients \ {c} : client'[d] = client[d]
    BY <1>15 DEF BeginSend, Moves, Typed, ClientRecords
  <2>3. sent'[c] - 1 = sent[c] /\ \A d \in Senders \ {c} : sent'[d] = sent[d]
    BY <2>1 DEF TypeOK, Senders
  <2>4. LastSent' = LastSent
    BY <2>2, <2>3 DEF LastSent
  <2> QED
    BY <2>1, <2>4, QuietInOrder
<1>16. ASSUME NEW c \in Clients, CreateHeartbeat(c)  PROVE InOrder'
  <2>1. UNCHANGED <<handled, down, up, sent>>
    BY <1>16 DEF CreateHeartbeat, net, history
  <2>2. \A d \in Clients : client'[d].main = "sending" <=> client[d].main = "sending"
    BY <1>16 DEF CreateHeartbeat, Moves, Typed, ClientRecords
  <2> QED
    BY <2>1, <2>2, SameSent, QuietInOrder
<1>17. ASSUME NEW c \in Clients, SetHeartbeat(c)  PROVE InOrder'
  <2>1. UNCHANGED <<handled, down, up, sent>>
    BY <1>17 DEF SetHeartbeat, net, history
  <2>2. \A d \in Clients : client'[d].main = "sending" <=> client[d].main = "sending"
    BY <1>17 DEF SetHeartbeat, Moves, Typed, ClientRecords
  <2> QED
    BY <2>1, <2>2, SameSent, QuietInOrder
<1>18. ASSUME NEW c \in Clients, Subscribe(c)  PROVE InOrder'
  <2>1. UNCHANGED <<handled, down, up, sent>>
    BY <1>18 DEF Subscribe, net, history
  <2>2. \A d \in Clients : client'[d].main = "sending" <=> client[d].main = "sending"
    BY <1>18 DEF Subscribe, Moves, Typed, ClientRecords
  <2> QED
    BY <2>1, <2>2, SameSent, QuietInOrder
<1>19. ASSUME NEW c \in Clients, SetProcessing(c)  PROVE InOrder'
  <2>1. UNCHANGED <<handled, down, up, sent>>
    BY <1>19 DEF SetProcessing, net, history
  <2>2. \A d \in Clients : client'[d].main = "sending" <=> client[d].main = "sending"
    BY <1>19 DEF SetProcessing, Moves, Typed, ClientRecords
  <2> QED
    BY <2>1, <2>2, SameSent, QuietInOrder
<1>20. ASSUME NEW c \in Clients, While(c)  PROVE InOrder'
  <2>1. UNCHANGED <<handled, down, up, sent>>
    BY <1>20 DEF While, net, history
  <2>2. \A d \in Clients : client'[d].main = "sending" <=> client[d].main = "sending"
    BY <1>20 DEF While, Moves, Typed, ClientRecords
  <2> QED
    BY <2>1, <2>2, SameSent, QuietInOrder
<1>21. ASSUME NEW c \in Clients, Poll(c)  PROVE InOrder'
  <2>1. UNCHANGED <<up, sent>> /\ \A d \in Clients : client'[d].main = "sending" <=> client[d].main = "sending"
    BY <1>21 DEF Poll, Moves, Typed, ClientRecords
  <2>2. LastSent' = LastSent
    BY <2>1, SameSent
  <2>3. CASE down[c] = <<>>
    BY <1>21, <2>1, <2>2, <2>3, QuietInOrder DEF Poll
  <2>4. CASE down[c] # <<>>
    <3> DEFINE m == Head(down[c])
    <3>1. m \in Sent /\ handled[c] \in Seq(Sent) /\ down[c] \in Seq(Sent)
      BY <2>4 DEF TypeOK
    <3>2. down'[c] = Tail(down[c]) /\ (handled'[c] = handled[c] \/ handled'[c] = Append(handled[c], m))
      BY <1>21, <2>4 DEF Poll, TypeOK
    <3>3. \A d \in Clients \ {c} : down'[d] = down[d] /\ handled'[d] = handled[d]
      BY <1>21, <2>4 DEF Poll, TypeOK
    <3> HIDE DEF m
    <3>4. UpTo(down'[c], LastSent) /\ m.n <= LastSent[m.from]
      BY <2>4, <3>1, <3>2, UpToTaken DEF InOrder, m
    <3>5. UpTo(handled'[c], LastSent)
      BY <3>1, <3>2, <3>4, UpToAppended DEF InOrder
    <3>6. ASSUME NEW e \in Senders  PROVE Chain(handled'[c], down'[c], up[e])
      <4>1. up[e] \in Seq(Sent) /\ Chain(handled[c], down[c], up[e])
        BY DEF TypeOK, InOrder
      <4> QED
        BY <4>1, <3>1, <3>2, <2>4, ChainHandled DEF m
    <3> QED
      BY <2>1, <2>2, <3>3, <3>4, <3>5, <3>6 DEF InOrder
  <2> QED
    BY <2>3, <2>4
<1>22. ASSUME NEW c \in Clients, Disconnect(c)  PROVE InOrder'
  <2>1. /\ UNCHANGED <<handled, up, sent>> /\ \A d \in Clients : down'[d] = down[d] \/ down'[d] = <<>>
        /\ \A d \in Clients : client'[d].main = "sending" <=> client[d].main = "sending"
    <3>1. CASE client[c].message_processing
      BY <1>22, <3>1 DEF Disconnect, Moves, history, Typed, ClientRecords
    <3>2. CASE ~client[c].message_processing
      <4>1. /\ Moves(c, [client[c] EXCEPT !.loop = "closing", !.open = FALSE])
            /\ UNCHANGED <<handled, up, sent>> /\ down' = [down EXCEPT ![c] = <<>>]
        BY <1>22, <3>2 DEF Disconnect, history
      <4> QED
        BY <1>22, <4>1 DEF Moves, Typed, ClientRecords, TypeOK
    <3> QED
      BY <3>1, <3>2
  <2>2. LastSent' = LastSent
    BY <2>1, SameSent
  <2>3. \A d \in Clients : UpTo(down'[d], LastSent)
    BY <2>1 DEF InOrder, UpTo
  <2> QED
    BY <2>1, <2>2, <2>3, ChainEmpty DEF InOrder
<1>23. ASSUME NEW c \in Clients, TestHeartbeat(c)  PROVE InOrder'
  <2>1. UNCHANGED <<handled, down, up, sent>>
    BY <1>23 DEF TestHeartbeat, net, history
  <2>2. \A d \in Clients : client'[d].main = "sending" <=> client[d].main = "sending"
    BY <1>23 DEF TestHeartbeat, Moves, Typed, ClientRecords
  <2> QED
    BY <2>1, <2>2, SameSent, QuietInOrder
<1>24. ASSUME NEW c \in Clients, BeginBeat(c)  PROVE InOrder'
  <2>1. UNCHANGED <<handled, down, up, sent>>
    BY <1>24 DEF BeginBeat, net, history
  <2>2. \A d \in Clients : client'[d].main = "sending" <=> client[d].main = "sending"
    BY <1>24 DEF BeginBeat, Moves, Typed, ClientRecords
  <2> QED
    BY <2>1, <2>2, SameSent, QuietInOrder
<1>25. ASSUME NEW c \in Clients, EndBeat(c)  PROVE InOrder'
  <2>1. UNCHANGED <<handled, down, up, sent>>
    BY <1>25 DEF EndBeat, net, history
  <2>2. \A d \in Clients : client'[d].main = "sending" <=> client[d].main = "sending"
    <3>1. CASE Moves(c, [client[c] EXCEPT !.hb = "test"])
      BY <1>25, <2>1, <3>1 DEF Moves, Typed, ClientRecords
    <3>2. CASE Moves(c, [client[c] EXCEPT !.hb = "ended", !.heartbeat_start = FALSE])
      BY <1>25, <2>1, <3>2 DEF Moves, Typed, ClientRecords
    <3> QED
      BY <1>25, <3>1, <3>2 DEF EndBeat
  <2> QED
    BY <2>1, <2>2, SameSent, QuietInOrder
<1>26. ASSUME NEW c \in Clients, Crash(c)  PROVE InOrder'
  <2>1. UNCHANGED <<handled, down, up, sent>>
    BY <1>26 DEF Crash, net, history
  <2>2. \A d \in Clients : client'[d].main = "sending" <=> client[d].main = "sending"
    BY <1>26 DEF Crash, Moves, Typed, ClientRecords
  <2> QED
    BY <2>1, <2>2, SameSent, QuietInOrder
<1>27. ASSUME NEW p \in Peers, NEW t \in Types, PeerSends(p, t)  PROVE InOrder'
  <2> DEFINE m == [from |-> p, n |-> sent[p] + 1, type |-> t]
  <2>1. m \in Sent /\ m.from = p /\ m.n = sent[p] + 1 /\ UNCHANGED <<client, handled, down>> /\ Publish(m)
    BY <1>27 DEF PeerSends, Senders, Sent, TypeOK
  <2>2. sent[p] \in Nat /\ sent'[p] = sent[p] + 1 /\ \A d \in Senders \ {p} : sent'[d] = sent[d]
    BY <1>27 DEF PeerSends, TypeOK, Senders
  <2> HIDE DEF m
  <2>3. p \notin Clients /\ p \in Senders
    BY <1>27, BrokerAssumption DEF Senders
  <2>4. /\ LastSent[p] = sent[p] /\ LastSent'[p] = sent[p] + 1
        /\ \A d \in Senders \ {p} : LastSent'[d] = LastSent[d]
    BY <2>1, <2>2, <2>3 DEF LastSent
  <2>5. \A d \in Senders : LastSent[d] <= LastSent'[d]
    BY <2>2, <2>4, LastSentType
  <2> QED
    BY <2>1, <2>2, <2>4, <2>5, PublishedInOrder
<1>28. ASSUME NEW c \in Clients, Destroy(c)  PROVE InOrder'
  <2>1. UNCHANGED <<handled, up, sent>> /\ \A d \in Clients : down'[d] = down[d] \/ down'[d] = <<>>
    BY <1>28 DEF Destroy, history, TypeOK
  <2>2. \A d \in Clients : client'[d].main = "sending" <=> client[d].main = "sending"
    BY <1>28 DEF Destroy, Moves, Typed, ClientRecords
  <2>3. LastSent' = LastSent
    BY <2>1, <2>2, SameSent
  <2>4. \A d \in Clients : UpTo(down'[d], LastSent)
    BY <2>1 DEF InOrder, UpTo
  <2> QED
    BY <2>1, <2>3, <2>4, ChainEmpty DEF InOrder
<1>29. ASSUME NEW c \in Clients, CloseContext(c)  PROVE InOrder'
  <2>1. UNCHANGED <<handled, down, up, sent>>
    BY <1>29 DEF CloseContext, net, history
  <2>2. \A d \in Clients : client'[d].main = "sending" <=> client[d].main = "sending"
    BY <1>29 DEF CloseContext, Moves, Typed, ClientRecords
  <2> QED
    BY <2>1, <2>2, SameSent, QuietInOrder
<1> QED
  BY <1>1, <1>2, <1>3, <1>4, <1>5, <1>6, <1>7, <1>8, <1>9, <1>10, <1>11, <1>12, <1>13, <1>14, <1>15,
       <1>16, <1>17, <1>18, <1>19, <1>20, <1>21, <1>22, <1>23, <1>24, <1>25, <1>26, <1>27, <1>28, <1>29
    DEF Next, Main, Loop, Heartbeat, Proxy, Stopping, StopFails, Terminate

-----------------------------------------------------------------------------
(* The invariant and what it implies. *)

LEMMA InitInv == Init => BrokerInv
<1> SUFFICES ASSUME Init  PROVE BrokerInv
  OBVIOUS
<1>1. Typed
  BY DEF Init, Typed, ClientRecords, Mains, Loops
<1>2. TypeOK
  <2>1. server \in ServerRecords
    BY DEF Init, ServerRecords
  <2> DEFINE none == <<>>
  <2>2. none \in Seq(Sent)
    OBVIOUS
  <2>3. up = [c \in Senders |-> none] /\ down = [c \in Clients |-> none] /\ handled = [c \in Clients |-> none]
    BY DEF Init
  <2> HIDE DEF none
  <2> QED
    BY <1>1, <2>1, <2>2, <2>3 DEF Init, TypeOK
<1>3. Threads /\ Sockets /\ LoopEndsByPrefix /\ QuietStopsNeverCrash
  BY DEF Init, Threads, Sockets, LoopEndsByPrefix, QuietStopsNeverCrash, Loops
<1>4. Subscriptions
  BY MatchNone DEF Init, Subscriptions
<1>5. Dues /\ Underway
  BY DEF Init, Dues, Underway
<1>6. InOrder
  BY DEF Init, InOrder, Ordered, Ahead, AllFrom, UpTo, Chain
<1> QED
  BY <1>2, <1>3, <1>4, <1>5, <1>6 DEF BrokerInv

LEMMA NextInv ==
  ASSUME BrokerInv, Next
  PROVE  BrokerInv'
<1>1. Typed'
  BY ClientStep DEF BrokerInv, TypeOK
<1>2. TypeOK'
  BY <1>1, TypeStep DEF BrokerInv
<1>3. Threads'
  BY ThreadsStep DEF BrokerInv, TypeOK
<1>4. Sockets' /\ QuietStopsNeverCrash'
  BY SocketsStep DEF BrokerInv, TypeOK
<1>5. Subscriptions' /\ LoopEndsByPrefix'
  BY SubscriptionsStep DEF BrokerInv
<1>6. Dues'
  BY DuesStep DEF BrokerInv, TypeOK
<1>7. Underway'
  BY UnderwayStep DEF BrokerInv
<1>8. InOrder'
  BY <1>2, InOrderStep DEF BrokerInv
<1> QED
  BY <1>2, <1>3, <1>4, <1>5, <1>6, <1>7, <1>8 DEF BrokerInv

LEMMA StutterInv ==
  ASSUME BrokerInv, UNCHANGED vars
  PROVE  BrokerInv'
<1>1. UNCHANGED <<client, server, wanted, subs, filter, up, down, sent, due, handled>>
  BY DEF vars, net, history
<1>2. TypeOK' /\ Threads' /\ Sockets' /\ LoopEndsByPrefix' /\ QuietStopsNeverCrash'
  BY <1>1 DEF BrokerInv, TypeOK, Typed, Threads, Sockets, LoopEndsByPrefix, QuietStopsNeverCrash
<1>3. Subscriptions' /\ Dues' /\ Underway'
  BY <1>1 DEF BrokerInv, Subscriptions, Dues, Underway, OnTheWay, Running
<1>4. InOrder'
  BY <1>1 DEF BrokerInv, InOrder, LastSent
<1> QED
  BY <1>2, <1>3, <1>4 DEF BrokerInv

(* Every state of the broker and its clients satisfies the invariant: the  *)
(* threads stand where their flags say, the sockets are open as long as    *)
(* they are used, the server's subscriptions are among the handlers', and  *)
(* every sender's messages are in line from its socket to the handlers     *)
(* (Client.cpp:69-330, Client.h:198-216, Server.cpp:46-100).               *)
THEOREM BrokerInvariant == Spec => []BrokerInv
<1>1. BrokerInv /\ [Next]_vars => BrokerInv'
  BY NextInv, StutterInv
<1> QED
  BY InitInv, <1>1, PTL DEF Spec

(* Nothing due is lost, repeated or out of order (Client.cpp:229-276,      *)
(* Server.cpp:63).                                                         *)
THEOREM DueArrives == Spec => []DueHandled
<1>1. BrokerInv => DueHandled
  BY DEF BrokerInv, Underway, OnTheWay, InOrder, Ordered, Chain, DueHandled, Senders
<1> QED
  BY <1>1, BrokerInvariant, PTL

(* The loop of a client throws only when it has no handler, or a type with *)
(* a handler is a prefix of one without (Client.cpp:225, 231, 272).        *)
THEOREM LoopThrowsByPrefix == Spec => []LoopEndsByPrefix
<1>1. BrokerInv => LoopEndsByPrefix
  BY DEF BrokerInv
<1> QED
  BY <1>1, BrokerInvariant, PTL

(* A client that never sends during a heartbeat, stops neither during one  *)
(* nor before it has been started, and is destroyed when the heartbeat's   *)
(* thread has ended, never uses a socket that is gone or in use            *)
(* (Client.cpp:107, 166-187, Tests/main.cpp:101-150).                      *)
THEOREM SocketsOutliveUsers == Spec => []QuietStopsNeverCrash
<1>1. BrokerInv => QuietStopsNeverCrash
  BY DEF BrokerInv
<1> QED
  BY <1>1, BrokerInvariant, PTL

=============================================================================
