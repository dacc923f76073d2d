-------------------------- MODULE TEClient_proofs --------------------------
(***************************************************************************)
(* Proofs about TEServer and TEClient, for any number of clients,          *)
(* connections, threads, places and any limits.                            *)
(*                                                                         *)
(* The first part is about the running server among arbitrary peers: type  *)
(* correctness, the capacity invariant, the single accept chain, the       *)
(* validity of the iterators the handlers hold, that only clients that     *)
(* have gone are removed, and that of the broken connections only the lost *)
(* ones keep their place.  The second part shows that the client objects   *)
(* are such peers, so that all of it holds beside them, and that what the  *)
(* two ends believe of each other agrees.                                  *)
(***************************************************************************)
EXTENDS TEClient, FiniteSetTheorems, TLAPS

(***************************************************************************)
(*                          The running server                             *)
(***************************************************************************)
-----------------------------------------------------------------------------
LEMMA InitTypeOK == Init => TypeOK
  BY ServerAssumption DEF Init, Fresh, TypeOK, Steps

(* What a write leaves in the send buffers. *)
LEMMA WrittenType ==
  ASSUME outbox \in [Conns -> Seq(Replies)], NEW c \in Conns, NEW m \in Replies
  PROVE  Written(c, m) \in [Conns -> Seq(Replies)]
  BY DEF Written

LEMMA ClosedEndType ==
  ASSUME sock \in [Conns -> {"free", "backlog", "open", "closed", "reset"}], NEW c \in Conns
  PROVE  /\ ClosedEnd(c) \in [Conns -> {"free", "backlog", "open", "closed", "reset"}]
         /\ \A d \in Conns : ClosedEnd(c)[d] \in {"free", "backlog"} <=> sock[d] \in {"free", "backlog"}
  BY DEF ClosedEnd

LEMMA MessageType ==
  /\ \A m \in {"TE_RegisterSuccess", "TE_RegisterFail", "TE_RequestFail"} : Message(m) \in Replies
  /\ \A a \in Areas : TargetsList(a) \in Replies
  BY DEF Replies

LEMMA RemoveOne ==
  ASSUME NEW S, IsFiniteSet(S), NEW x \in S
  PROVE  Cardinality(S \ {x}) = Cardinality(S) - 1
  BY FS_RemoveElement

(* Both sets the counter counts are finite. *)
LEMMA FinitelyMany ==
  ASSUME TypeOK
  PROVE  /\ IsFiniteSet(clients) /\ Cardinality(clients) \in Nat
         /\ IsFiniteSet(Decrementing) /\ Cardinality(Decrementing) \in Nat
<1>1. IsFiniteSet(clients) /\ IsFiniteSet(Decrementing)
  BY ServerAssumption, FS_Subset DEF TypeOK, Decrementing
<1> QED  BY <1>1, FS_CardinalityType

(* One lemma per part of the inductive invariant, one step per action. *)

(* Types: the counter is not decremented below zero because a removal is counted. *)
LEMMA TypeStep ==
  ASSUME IndInv, Next
  PROVE  TypeOK'
<1> USE DEF IndInv, Pick, Goto, Return, vars, listVars, poolVars, linkVars, TypeOK,
    HandlerData, Steps, AcceptSteps, ReadSteps
<1>1. ASSUME NEW w \in Workers, NEW c \in Conns, OnAccept(w, c)  PROVE TypeOK'
  BY <1>1, ServerAssumption, WrittenType, ClosedEndType, MessageType DEF OnAccept
<1>2. ASSUME NEW w \in Workers, NEW c \in Conns, OnRead(w, c)  PROVE TypeOK'
  BY <1>2, ServerAssumption, WrittenType, ClosedEndType, MessageType DEF OnRead
<1>3. ASSUME NEW w \in Workers, NEW c \in Conns, OnReadClosed(w, c)  PROVE TypeOK'
  BY <1>3, ServerAssumption, WrittenType, ClosedEndType, MessageType DEF OnReadClosed
<1>4. ASSUME NEW w \in Workers, Refuse(w)  PROVE TypeOK'
  BY <1>4, ServerAssumption, WrittenType, ClosedEndType, MessageType DEF Refuse
<1>5. ASSUME NEW w \in Workers, Admit(w)  PROVE TypeOK'
  BY <1>5, ServerAssumption, WrittenType, ClosedEndType, MessageType DEF Admit
<1>6. ASSUME NEW w \in Workers, Lock(w)  PROVE TypeOK'
  BY <1>6, ServerAssumption, WrittenType, ClosedEndType, MessageType DEF Lock
<1>7. ASSUME NEW w \in Workers, Insert(w)  PROVE TypeOK'
  BY <1>7, ServerAssumption, WrittenType, ClosedEndType, MessageType DEF Insert
<1>8. ASSUME NEW w \in Workers, InsertFailure(w)  PROVE TypeOK'
  BY <1>8, ServerAssumption, WrittenType, ClosedEndType, MessageType DEF InsertFailure
<1>9. ASSUME NEW w \in Workers, StartRead(w)  PROVE TypeOK'
  BY <1>9, ServerAssumption, WrittenType, ClosedEndType, MessageType DEF StartRead
<1>10. ASSUME NEW w \in Workers, Register(w)  PROVE TypeOK'
  BY <1>10, ServerAssumption, WrittenType, ClosedEndType, MessageType DEF Register
<1>11. ASSUME NEW w \in Workers, StartAccept(w)  PROVE TypeOK'
  BY <1>11, ServerAssumption, WrittenType, ClosedEndType, MessageType DEF StartAccept
<1>12. ASSUME NEW w \in Workers, Shutdown(w)  PROVE TypeOK'
  BY <1>12, ServerAssumption, WrittenType, ClosedEndType, MessageType DEF Shutdown
<1>13. ASSUME NEW w \in Workers, Erase(w)  PROVE TypeOK'
  BY <1>13, ServerAssumption, WrittenType, ClosedEndType, MessageType DEF Erase
<1>14. ASSUME NEW w \in Workers, Decrement(w)  PROVE TypeOK'
  <2>1. Decrementing # {} /\ IsFiniteSet(Decrementing)
    BY <1>14, ServerAssumption, FS_Subset DEF Decrement, Decrementing
  <2>2. Cardinality(Decrementing) \in Nat \ {0}
    BY <2>1, FS_EmptySet, FS_CardinalityType
  <2>3. IsFiniteSet(clients) /\ Cardinality(clients) \in Nat
    BY ServerAssumption, FS_Subset, FS_CardinalityType
  <2>4. counter - 1 \in Nat
    BY <2>2, <2>3 DEF CapacityRespected
  <2> QED  BY <1>14, <2>4, ServerAssumption DEF Decrement
<1>15. ASSUME NEW w \in Workers, RejectLine(w)  PROVE TypeOK'
  <2>1. Written(cur[w], Message("TE_RequestFail")) \in [Conns -> Seq(Replies)]
    BY <1>15, WrittenType, MessageType DEF RejectLine
  <2>2. [lateOut EXCEPT ![cur[w]] = Append(@, Message("TE_RequestFail"))] \in [Conns -> Seq(Replies)]
    BY <1>15, MessageType DEF RejectLine
  <2>3. outbox' \in [Conns -> Seq(Replies)] /\ lateOut' \in [Conns -> Seq(Replies)]
    BY <1>15, <2>1, <2>2 DEF RejectLine
  <2> QED  BY <1>15, <2>3, ServerAssumption DEF RejectLine
<1>16. ASSUME NEW w \in Workers, ProcessRequest(w)  PROVE TypeOK'
  BY <1>16, ServerAssumption, WrittenType, ClosedEndType, MessageType DEF ProcessRequest
<1>17. ASSUME NEW w \in Workers, Respond(w)  PROVE TypeOK'
  BY <1>17, ServerAssumption, WrittenType, ClosedEndType, MessageType DEF Respond
<1>18. ASSUME NEW c \in Conns, OnReadError(c)  PROVE TypeOK'
  BY <1>18, ServerAssumption, WrittenType, ClosedEndType, MessageType DEF OnReadError
<1>19. ASSUME NEW c \in Conns, LateWrite(c)  PROVE TypeOK'
  BY <1>19, ServerAssumption, WrittenType, ClosedEndType, MessageType DEF LateWrite
<1>20. ASSUME OnAcceptError  PROVE TypeOK'
  BY <1>20, ServerAssumption, WrittenType, ClosedEndType, MessageType DEF OnAcceptError
<1>21. ASSUME NEW c \in Conns, PeerConnect(c)  PROVE TypeOK'
  BY <1>21, ServerAssumption, WrittenType, ClosedEndType, MessageType DEF PeerConnect
<1>22. ASSUME NEW c \in Conns, NEW l \in Lines, PeerSend(c, l)  PROVE TypeOK'
  BY <1>22, ServerAssumption, WrittenType, ClosedEndType, MessageType DEF PeerSend
<1>23. ASSUME NEW c \in Conns, PeerReceive(c)  PROVE TypeOK'
  BY <1>23, ServerAssumption, WrittenType, ClosedEndType, MessageType DEF PeerReceive
<1>24. ASSUME NEW c \in Conns, NEW how \in {"fin", "rst", "lost"}, PeerGone(c, how)  PROVE TypeOK'
  BY <1>24, ServerAssumption, WrittenType, ClosedEndType, MessageType DEF PeerGone
<1>25. ASSUME NEW c \in Conns, Release(c)  PROVE TypeOK'
  BY <1>25, ServerAssumption, WrittenType, ClosedEndType, MessageType DEF Release
<1> QED  BY <1>1, <1>2, <1>3, <1>4, <1>5, <1>6, <1>7, <1>8, <1>9, <1>10, <1>11, <1>12,
    <1>13, <1>14, <1>15, <1>16, <1>17, <1>18, <1>19, <1>20, <1>21, <1>22, <1>23, <1>24,
    <1>25 DEF Next, ServerNext, Dispatch, Continue, PeerNext

(* The connection and the line of a handler are set when a thread picks it. *)
LEMMA HandlerDataStep ==
  ASSUME IndInv, Next
  PROVE  HandlerData'
<1> USE DEF IndInv, Pick, Goto, Return, vars, listVars, poolVars, linkVars, TypeOK,
    HandlerData, Lines
<1>1. ASSUME NEW w \in Workers, NEW c \in Conns, OnAccept(w, c)  PROVE HandlerData'
  BY <1>1 DEF OnAccept
<1>2. ASSUME NEW w \in Workers, NEW c \in Conns, OnRead(w, c)  PROVE HandlerData'
  BY <1>2 DEF OnRead
<1>3. ASSUME NEW w \in Workers, NEW c \in Conns, OnReadClosed(w, c)  PROVE HandlerData'
  BY <1>3 DEF OnReadClosed
<1>4. ASSUME NEW w \in Workers, Refuse(w)  PROVE HandlerData'
  BY <1>4 DEF Refuse
<1>5. ASSUME NEW w \in Workers, Admit(w)  PROVE HandlerData'
  BY <1>5 DEF Admit
<1>6. ASSUME NEW w \in Workers, Lock(w)  PROVE HandlerData'
  BY <1>6 DEF Lock
<1>7. ASSUME NEW w \in Workers, Insert(w)  PROVE HandlerData'
  BY <1>7 DEF Insert
<1>8. ASSUME NEW w \in Workers, InsertFailure(w)  PROVE HandlerData'
  BY <1>8 DEF InsertFailure
<1>9. ASSUME NEW w \in Workers, StartRead(w)  PROVE HandlerData'
  BY <1>9 DEF StartRead
<1>10. ASSUME NEW w \in Workers, Register(w)  PROVE HandlerData'
  BY <1>10 DEF Register
<1>11. ASSUME NEW w \in Workers, StartAccept(w)  PROVE HandlerData'
  BY <1>11 DEF StartAccept
<1>12. ASSUME NEW w \in Workers, Shutdown(w)  PROVE HandlerData'
  BY <1>12 DEF Shutdown
<1>13. ASSUME NEW w \in Workers, Erase(w)  PROVE HandlerData'
  BY <1>13 DEF Erase
<1>14. ASSUME NEW w \in Workers, Decrement(w)  PROVE HandlerData'
  BY <1>14 DEF Decrement
<1>15. ASSUME NEW w \in Workers, RejectLine(w)  PROVE HandlerData'
  BY <1>15 DEF RejectLine
<1>16. ASSUME NEW w \in Workers, ProcessRequest(w)  PROVE HandlerData'
  BY <1>16 DEF ProcessRequest
<1>17. ASSUME NEW w \in Workers, Respond(w)  PROVE HandlerData'
  BY <1>17 DEF Respond
<1>18. ASSUME NEW c \in Conns, OnReadError(c)  PROVE HandlerData'
  BY <1>18 DEF OnReadError
<1>19. ASSUME NEW c \in Conns, LateWrite(c)  PROVE HandlerData'
  BY <1>19 DEF LateWrite
<1>20. ASSUME OnAcceptError  PROVE HandlerData'
  BY <1>20 DEF OnAcceptError
<1>21. ASSUME NEW c \in Conns, PeerConnect(c)  PROVE HandlerData'
  BY <1>21 DEF PeerConnect
<1>22. ASSUME NEW c \in Conns, NEW l \in Lines, PeerSend(c, l)  PROVE HandlerData'
  BY <1>22 DEF PeerSend
<1>23. ASSUME NEW c \in Conns, PeerReceive(c)  PROVE HandlerData'
  BY <1>23 DEF PeerReceive
<1>24. ASSUME NEW c \in Conns, NEW how \in {"fin", "rst", "lost"}, PeerGone(c, how)  PROVE HandlerData'
  BY <1>24 DEF PeerGone
<1>25. ASSUME NEW c \in Conns, Release(c)  PROVE HandlerData'
  BY <1>25 DEF Release
<1> QED  BY <1>1, <1>2, <1>3, <1>4, <1>5, <1>6, <1>7, <1>8, <1>9, <1>10, <1>11, <1>12,
    <1>13, <1>14, <1>15, <1>16, <1>17, <1>18, <1>19, <1>20, <1>21, <1>22, <1>23, <1>24,
    <1>25 DEF Next, ServerNext, Dispatch, Continue, PeerNext

(* An accept is started only by the handler of the one before it. *)
LEMMA AcceptStep ==
  ASSUME IndInv, Next
  PROVE  OneAcceptAtATime'
<1> USE DEF IndInv, Pick, Goto, Return, vars, listVars, poolVars, linkVars, TypeOK,
    OneAcceptAtATime, Accepting, AcceptSteps
<1>1. ASSUME NEW w \in Workers, NEW c \in Conns, OnAccept(w, c)  PROVE OneAcceptAtATime'
  BY <1>1 DEF OnAccept
<1>2. ASSUME NEW w \in Workers, NEW c \in Conns, OnRead(w, c)  PROVE OneAcceptAtATime'
  BY <1>2 DEF OnRead
<1>3. ASSUME NEW w \in Workers, NEW c \in Conns, OnReadClosed(w, c)  PROVE OneAcceptAtATime'
  BY <1>3 DEF OnReadClosed
<1>4. ASSUME NEW w \in Workers, Refuse(w)  PROVE OneAcceptAtATime'
  BY <1>4 DEF Refuse
<1>5. ASSUME NEW w \in Workers, Admit(w)  PROVE OneAcceptAtATime'
  BY <1>5 DEF Admit
<1>6. ASSUME NEW w \in Workers, Lock(w)  PROVE OneAcceptAtATime'
  BY <1>6 DEF Lock
<1>7. ASSUME NEW w \in Workers, Insert(w)  PROVE OneAcceptAtATime'
  BY <1>7 DEF Insert
<1>8. ASSUME NEW w \in Workers, InsertFailure(w)  PROVE OneAcceptAtATime'
  BY <1>8 DEF InsertFailure
<1>9. ASSUME NEW w \in Workers, StartRead(w)  PROVE OneAcceptAtATime'
  BY <1>9 DEF StartRead
<1>10. ASSUME NEW w \in Workers, Register(w)  PROVE OneAcceptAtATime'
  BY <1>10 DEF Register
<1>11. ASSUME NEW w \in Workers, StartAccept(w)  PROVE OneAcceptAtATime'
  BY <1>11 DEF StartAccept
<1>12. ASSUME NEW w \in Workers, Shutdown(w)  PROVE OneAcceptAtATime'
  BY <1>12 DEF Shutdown
<1>13. ASSUME NEW w \in Workers, Erase(w)  PROVE OneAcceptAtATime'
  BY <1>13 DEF Erase
<1>14. ASSUME NEW w \in Workers, Decrement(w)  PROVE OneAcceptAtATime'
  BY <1>14 DEF Decrement
<1>15. ASSUME NEW w \in Workers, RejectLine(w)  PROVE OneAcceptAtATime'
  BY <1>15 DEF RejectLine
<1>16. ASSUME NEW w \in Workers, ProcessRequest(w)  PROVE OneAcceptAtATime'
  BY <1>16 DEF ProcessRequest
<1>17. ASSUME NEW w \in Workers, Respond(w)  PROVE OneAcceptAtATime'
  BY <1>17 DEF Respond
<1>18. ASSUME NEW c \in Conns, OnReadError(c)  PROVE OneAcceptAtATime'
  BY <1>18 DEF OnReadError
<1>19. ASSUME NEW c \in Conns, LateWrite(c)  PROVE OneAcceptAtATime'
  BY <1>19 DEF LateWrite
<1>20. ASSUME OnAcceptError  PROVE OneAcceptAtATime'
  BY <1>20 DEF OnAcceptError
<1>21. ASSUME NEW c \in Conns, PeerConnect(c)  PROVE OneAcceptAtATime'
  BY <1>21 DEF PeerConnect
<1>22. ASSUME NEW c \in Conns, NEW l \in Lines, PeerSend(c, l)  PROVE OneAcceptAtATime'
  BY <1>22 DEF PeerSend
<1>23. ASSUME NEW c \in Conns, PeerReceive(c)  PROVE OneAcceptAtATime'
  BY <1>23 DEF PeerReceive
<1>24. ASSUME NEW c \in Conns, NEW how \in {"fin", "rst", "lost"}, PeerGone(c, how)  PROVE OneAcceptAtATime'
  BY <1>24 DEF PeerGone
<1>25. ASSUME NEW c \in Conns, Release(c)  PROVE OneAcceptAtATime'
  BY <1>25 DEF Release
<1> QED  BY <1>1, <1>2, <1>3, <1>4, <1>5, <1>6, <1>7, <1>8, <1>9, <1>10, <1>11, <1>12,
    <1>13, <1>14, <1>15, <1>16, <1>17, <1>18, <1>19, <1>20, <1>21, <1>22, <1>23, <1>24,
    <1>25 DEF Next, ServerNext, Dispatch, Continue, PeerNext

(* A connection enters the list, and gets its first read, from one on_accept only. *)
LEMMA FreshStep ==
  ASSUME IndInv, Next
  PROVE  FreshConnections'
<1> USE DEF IndInv, Pick, Goto, Return, vars, listVars, poolVars, linkVars, TypeOK,
    HandlerData, FreshConnections, IteratorsValid, OneAcceptAtATime, Accepting, AcceptSteps,
    Serving, ReadSteps, ClosedEnd
<1>1. ASSUME NEW w \in Workers, NEW c \in Conns, OnAccept(w, c)  PROVE FreshConnections'
  BY <1>1, ServerAssumption DEF OnAccept
<1>2. ASSUME NEW w \in Workers, NEW c \in Conns, OnRead(w, c)  PROVE FreshConnections'
  BY <1>2, ServerAssumption DEF OnRead
<1>3. ASSUME NEW w \in Workers, NEW c \in Conns, OnReadClosed(w, c)  PROVE FreshConnections'
  BY <1>3, ServerAssumption DEF OnReadClosed
<1>4. ASSUME NEW w \in Workers, Refuse(w)  PROVE FreshConnections'
  BY <1>4, ServerAssumption DEF Refuse
<1>5. ASSUME NEW w \in Workers, Admit(w)  PROVE FreshConnections'
  BY <1>5, ServerAssumption DEF Admit
<1>6. ASSUME NEW w \in Workers, Lock(w)  PROVE FreshConnections'
  BY <1>6, ServerAssumption DEF Lock
<1>7. ASSUME NEW w \in Workers, Insert(w)  PROVE FreshConnections'
  BY <1>7, ServerAssumption DEF Insert
<1>8. ASSUME NEW w \in Workers, InsertFailure(w)  PROVE FreshConnections'
  BY <1>8, ServerAssumption DEF InsertFailure
<1>9. ASSUME NEW w \in Workers, StartRead(w)  PROVE FreshConnections'
  BY <1>9, ServerAssumption DEF StartRead
<1>10. ASSUME NEW w \in Workers, Register(w)  PROVE FreshConnections'
  BY <1>10, ServerAssumption DEF Register
<1>11. ASSUME NEW w \in Workers, StartAccept(w)  PROVE FreshConnections'
  BY <1>11, ServerAssumption DEF StartAccept
<1>12. ASSUME NEW w \in Workers, Shutdown(w)  PROVE FreshConnections'
  BY <1>12, ServerAssumption DEF Shutdown
<1>13. ASSUME NEW w \in Workers, Erase(w)  PROVE FreshConnections'
  BY <1>13, ServerAssumption DEF Erase
<1>14. ASSUME NEW w \in Workers, Decrement(w)  PROVE FreshConnections'
  BY <1>14, ServerAssumption DEF Decrement
<1>15. ASSUME NEW w \in Workers, RejectLine(w)  PROVE FreshConnections'
  BY <1>15, ServerAssumption DEF RejectLine
<1>16. ASSUME NEW w \in Workers, ProcessRequest(w)  PROVE FreshConnections'
  BY <1>16, ServerAssumption DEF ProcessRequest
<1>17. ASSUME NEW w \in Workers, Respond(w)  PROVE FreshConnections'
  BY <1>17, ServerAssumption DEF Respond
<1>18. ASSUME NEW c \in Conns, OnReadError(c)  PROVE FreshConnections'
  BY <1>18, ServerAssumption DEF OnReadError
<1>19. ASSUME NEW c \in Conns, LateWrite(c)  PROVE FreshConnections'
  BY <1>19, ServerAssumption DEF LateWrite
<1>20. ASSUME OnAcceptError  PROVE FreshConnections'
  BY <1>20, ServerAssumption DEF OnAcceptError
<1>21. ASSUME NEW c \in Conns, PeerConnect(c)  PROVE FreshConnections'
  BY <1>21, ServerAssumption DEF PeerConnect
<1>22. ASSUME NEW c \in Conns, NEW l \in Lines, PeerSend(c, l)  PROVE FreshConnections'
  BY <1>22, ServerAssumption DEF PeerSend
<1>23. ASSUME NEW c \in Conns, PeerReceive(c)  PROVE FreshConnections'
  BY <1>23, ServerAssumption DEF PeerReceive
<1>24. ASSUME NEW c \in Conns, NEW how \in {"fin", "rst", "lost"}, PeerGone(c, how)  PROVE FreshConnections'
  BY <1>24, ServerAssumption DEF PeerGone
<1>25. ASSUME NEW c \in Conns, Release(c)  PROVE FreshConnections'
  BY <1>25, ServerAssumption DEF Release
<1> QED  BY <1>1, <1>2, <1>3, <1>4, <1>5, <1>6, <1>7, <1>8, <1>9, <1>10, <1>11, <1>12,
    <1>13, <1>14, <1>15, <1>16, <1>17, <1>18, <1>19, <1>20, <1>21, <1>22, <1>23, <1>24,
    <1>25 DEF Next, ServerNext, Dispatch, Continue, PeerNext

(* A read is started only by the handler that consumed the one before it. *)
LEMMA IteratorStep ==
  ASSUME IndInv, Next
  PROVE  IteratorsValid'
<1> USE DEF IndInv, Pick, Goto, Return, vars, listVars, poolVars, linkVars, TypeOK,
    HandlerData, FreshConnections, IteratorsValid, Serving, ReadSteps
<1>1. ASSUME NEW w \in Workers, NEW c \in Conns, OnAccept(w, c)  PROVE IteratorsValid'
  BY <1>1 DEF OnAccept
<1>2. ASSUME NEW w \in Workers, NEW c \in Conns, OnRead(w, c)  PROVE IteratorsValid'
  BY <1>2 DEF OnRead
<1>3. ASSUME NEW w \in Workers, NEW c \in Conns, OnReadClosed(w, c)  PROVE IteratorsValid'
  BY <1>3 DEF OnReadClosed
<1>4. ASSUME NEW w \in Workers, Refuse(w)  PROVE IteratorsValid'
  BY <1>4 DEF Refuse
<1>5. ASSUME NEW w \in Workers, Admit(w)  PROVE IteratorsValid'
  BY <1>5 DEF Admit
<1>6. ASSUME NEW w \in Workers, Lock(w)  PROVE IteratorsValid'
  <2>1. CASE at[w] = "lock_insert"  BY <1>6, <2>1 DEF Lock
  <2>2. CASE at[w] = "lock_erase"
    <3>1. \A v \in Workers : at'[v] \in ReadSteps <=> at[v] \in ReadSteps
      BY <1>6, <2>2 DEF Lock
    <3>2. \A c \in Conns : Serving(c)' = Serving(c)
      BY <1>6, <3>1 DEF Lock
    <3> QED  BY <1>6, <3>2 DEF Lock
  <2> QED  BY <1>6, <2>1, <2>2 DEF Lock
<1>7. ASSUME NEW w \in Workers, Insert(w)  PROVE IteratorsValid'
  BY <1>7 DEF Insert
<1>8. ASSUME NEW w \in Workers, InsertFailure(w)  PROVE IteratorsValid'
  BY <1>8 DEF InsertFailure
<1>9. ASSUME NEW w \in Workers, StartRead(w)  PROVE IteratorsValid'
  BY <1>9 DEF StartRead
<1>10. ASSUME NEW w \in Workers, Register(w)  PROVE IteratorsValid'
  BY <1>10 DEF Register
<1>11. ASSUME NEW w \in Workers, StartAccept(w)  PROVE IteratorsValid'
  BY <1>11 DEF StartAccept
<1>12. ASSUME NEW w \in Workers, Shutdown(w)  PROVE IteratorsValid'
  BY <1>12 DEF Shutdown
<1>13. ASSUME NEW w \in Workers, Erase(w)  PROVE IteratorsValid'
  BY <1>13 DEF Erase
<1>14. ASSUME NEW w \in Workers, Decrement(w)  PROVE IteratorsValid'
  BY <1>14 DEF Decrement
<1>15. ASSUME NEW w \in Workers, RejectLine(w)  PROVE IteratorsValid'
  BY <1>15 DEF RejectLine
<1>16. ASSUME NEW w \in Workers, ProcessRequest(w)  PROVE IteratorsValid'
  BY <1>16 DEF ProcessRequest
<1>17. ASSUME NEW w \in Workers, Respond(w)  PROVE IteratorsValid'
  BY <1>17 DEF Respond
<1>18. ASSUME NEW c \in Conns, OnReadError(c)  PROVE IteratorsValid'
  BY <1>18 DEF OnReadError
<1>19. ASSUME NEW c \in Conns, LateWrite(c)  PROVE IteratorsValid'
  BY <1>19 DEF LateWrite
<1>20. ASSUME OnAcceptError  PROVE IteratorsValid'
  BY <1>20 DEF OnAcceptError
<1>21. ASSUME NEW c \in Conns, PeerConnect(c)  PROVE IteratorsValid'
  BY <1>21 DEF PeerConnect
<1>22. ASSUME NEW c \in Conns, NEW l \in Lines, PeerSend(c, l)  PROVE IteratorsValid'
  BY <1>22 DEF PeerSend
<1>23. ASSUME NEW c \in Conns, PeerReceive(c)  PROVE IteratorsValid'
  BY <1>23 DEF PeerReceive
<1>24. ASSUME NEW c \in Conns, NEW how \in {"fin", "rst", "lost"}, PeerGone(c, how)  PROVE IteratorsValid'
  BY <1>24 DEF PeerGone
<1>25. ASSUME NEW c \in Conns, Release(c)  PROVE IteratorsValid'
  BY <1>25 DEF Release
<1> QED  BY <1>1, <1>2, <1>3, <1>4, <1>5, <1>6, <1>7, <1>8, <1>9, <1>10, <1>11, <1>12,
    <1>13, <1>14, <1>15, <1>16, <1>17, <1>18, <1>19, <1>20, <1>21, <1>22, <1>23, <1>24,
    <1>25 DEF Next, ServerNext, Dispatch, Continue, PeerNext

(* While one handler is between its check and its insertion no other inserts. *)
LEMMA RoomStep ==
  ASSUME IndInv, Next
  PROVE  RoomKept' /\ counter' <= maxConnections'
<1> USE DEF IndInv, Pick, Goto, Return, vars, listVars, poolVars, linkVars, TypeOK,
    RoomKept, CapacityRespected, OneAcceptAtATime, Accepting, AcceptSteps
<1>1. ASSUME NEW w \in Workers, NEW c \in Conns, OnAccept(w, c)  PROVE RoomKept' /\ counter' <= maxConnections'
  BY <1>1, ServerAssumption DEF OnAccept
<1>2. ASSUME NEW w \in Workers, NEW c \in Conns, OnRead(w, c)  PROVE RoomKept' /\ counter' <= maxConnections'
  BY <1>2, ServerAssumption DEF OnRead
<1>3. ASSUME NEW w \in Workers, NEW c \in Conns, OnReadClosed(w, c)  PROVE RoomKept' /\ counter' <= maxConnections'
  BY <1>3, ServerAssumption DEF OnReadClosed
<1>4. ASSUME NEW w \in Workers, Refuse(w)  PROVE RoomKept' /\ counter' <= maxConnections'
  BY <1>4, ServerAssumption DEF Refuse
<1>5. ASSUME NEW w \in Workers, Admit(w)  PROVE RoomKept' /\ counter' <= maxConnections'
  BY <1>5, ServerAssumption DEF Admit
<1>6. ASSUME NEW w \in Workers, Lock(w)  PROVE RoomKept' /\ counter' <= maxConnections'
  BY <1>6, ServerAssumption DEF Lock
<1>7. ASSUME NEW w \in Workers, Insert(w)  PROVE RoomKept' /\ counter' <= maxConnections'
  BY <1>7, ServerAssumption DEF Insert
<1>8. ASSUME NEW w \in Workers, InsertFailure(w)  PROVE RoomKept' /\ counter' <= maxConnections'
  BY <1>8, ServerAssumption DEF InsertFailure
<1>9. ASSUME NEW w \in Workers, StartRead(w)  PROVE RoomKept' /\ counter' <= maxConnections'
  BY <1>9, ServerAssumption DEF StartRead
<1>10. ASSUME NEW w \in Workers, Register(w)  PROVE RoomKept' /\ counter' <= maxConnections'
  BY <1>10, ServerAssumption DEF Register
<1>11. ASSUME NEW w \in Workers, StartAccept(w)  PROVE RoomKept' /\ counter' <= maxConnections'
  BY <1>11, ServerAssumption DEF StartAccept
<1>12. ASSUME NEW w \in Workers, Shutdown(w)  PROVE RoomKept' /\ counter' <= maxConnections'
  BY <1>12, ServerAssumption DEF Shutdown
<1>13. ASSUME NEW w \in Workers, Erase(w)  PROVE RoomKept' /\ counter' <= maxConnections'
  BY <1>13, ServerAssumption DEF Erase
<1>14. ASSUME NEW w \in Workers, Decrement(w)  PROVE RoomKept' /\ counter' <= maxConnections'
  BY <1>14, ServerAssumption DEF Decrement
<1>15. ASSUME NEW w \in Workers, RejectLine(w)  PROVE RoomKept' /\ counter' <= maxConnections'
  BY <1>15, ServerAssumption DEF RejectLine
<1>16. ASSUME NEW w \in Workers, ProcessRequest(w)  PROVE RoomKept' /\ counter' <= maxConnections'
  BY <1>16, ServerAssumption DEF ProcessRequest
<1>17. ASSUME NEW w \in Workers, Respond(w)  PROVE RoomKept' /\ counter' <= maxConnections'
  BY <1>17, ServerAssumption DEF Respond
<1>18. ASSUME NEW c \in Conns, OnReadError(c)  PROVE RoomKept' /\ counter' <= maxConnections'
  BY <1>18, ServerAssumption DEF OnReadError
<1>19. ASSUME NEW c \in Conns, LateWrite(c)  PROVE RoomKept' /\ counter' <= maxConnections'
  BY <1>19, ServerAssumption DEF LateWrite
<1>20. ASSUME OnAcceptError  PROVE RoomKept' /\ counter' <= maxConnections'
  BY <1>20, ServerAssumption DEF OnAcceptError
<1>21. ASSUME NEW c \in Conns, PeerConnect(c)  PROVE RoomKept' /\ counter' <= maxConnections'
  BY <1>21, ServerAssumption DEF PeerConnect
<1>22. ASSUME NEW c \in Conns, NEW l \in Lines, PeerSend(c, l)  PROVE RoomKept' /\ counter' <= maxConnections'
  BY <1>22, ServerAssumption DEF PeerSend
<1>23. ASSUME NEW c \in Conns, PeerReceive(c)  PROVE RoomKept' /\ counter' <= maxConnections'
  BY <1>23, ServerAssumption DEF PeerReceive
<1>24. ASSUME NEW c \in Conns, NEW how \in {"fin", "rst", "lost"}, PeerGone(c, how)  PROVE RoomKept' /\ counter' <= maxConnections'
  BY <1>24, ServerAssumption DEF PeerGone
<1>25. ASSUME NEW c \in Conns, Release(c)  PROVE RoomKept' /\ counter' <= maxConnections'
  BY <1>25, ServerAssumption DEF Release
<1> QED  BY <1>1, <1>2, <1>3, <1>4, <1>5, <1>6, <1>7, <1>8, <1>9, <1>10, <1>11, <1>12,
    <1>13, <1>14, <1>15, <1>16, <1>17, <1>18, <1>19, <1>20, <1>21, <1>22, <1>23, <1>24,
    <1>25 DEF Next, ServerNext, Dispatch, Continue, PeerNext

(* Peers do not come back: the connection is used again only after the removal. *)
LEMMA RemovalStep ==
  ASSUME IndInv, Next
  PROVE  RemovalsJustified'
<1> USE DEF IndInv, Pick, Goto, Return, vars, listVars, poolVars, linkVars, TypeOK,
    HandlerData, RemovalsJustified
<1>1. ASSUME NEW w \in Workers, NEW c \in Conns, OnAccept(w, c)  PROVE RemovalsJustified'
  BY <1>1 DEF OnAccept
<1>2. ASSUME NEW w \in Workers, NEW c \in Conns, OnRead(w, c)  PROVE RemovalsJustified'
  BY <1>2 DEF OnRead
<1>3. ASSUME NEW w \in Workers, NEW c \in Conns, OnReadClosed(w, c)  PROVE RemovalsJustified'
  BY <1>3 DEF OnReadClosed
<1>4. ASSUME NEW w \in Workers, Refuse(w)  PROVE RemovalsJustified'
  BY <1>4 DEF Refuse
<1>5. ASSUME NEW w \in Workers, Admit(w)  PROVE RemovalsJustified'
  BY <1>5 DEF Admit
<1>6. ASSUME NEW w \in Workers, Lock(w)  PROVE RemovalsJustified'
  BY <1>6 DEF Lock
<1>7. ASSUME NEW w \in Workers, Insert(w)  PROVE RemovalsJustified'
  BY <1>7 DEF Insert
<1>8. ASSUME NEW w \in Workers, InsertFailure(w)  PROVE RemovalsJustified'
  BY <1>8 DEF InsertFailure
<1>9. ASSUME NEW w \in Workers, StartRead(w)  PROVE RemovalsJustified'
  BY <1>9 DEF StartRead
<1>10. ASSUME NEW w \in Workers, Register(w)  PROVE RemovalsJustified'
  BY <1>10 DEF Register
<1>11. ASSUME NEW w \in Workers, StartAccept(w)  PROVE RemovalsJustified'
  BY <1>11 DEF StartAccept
<1>12. ASSUME NEW w \in Workers, Shutdown(w)  PROVE RemovalsJustified'
  BY <1>12 DEF Shutdown
<1>13. ASSUME NEW w \in Workers, Erase(w)  PROVE RemovalsJustified'
  BY <1>13 DEF Erase
<1>14. ASSUME NEW w \in Workers, Decrement(w)  PROVE RemovalsJustified'
  BY <1>14 DEF Decrement
<1>15. ASSUME NEW w \in Workers, RejectLine(w)  PROVE RemovalsJustified'
  BY <1>15 DEF RejectLine
<1>16. ASSUME NEW w \in Workers, ProcessRequest(w)  PROVE RemovalsJustified'
  BY <1>16 DEF ProcessRequest
<1>17. ASSUME NEW w \in Workers, Respond(w)  PROVE RemovalsJustified'
  BY <1>17 DEF Respond
<1>18. ASSUME NEW c \in Conns, OnReadError(c)  PROVE RemovalsJustified'
  BY <1>18 DEF OnReadError
<1>19. ASSUME NEW c \in Conns, LateWrite(c)  PROVE RemovalsJustified'
  BY <1>19 DEF LateWrite
<1>20. ASSUME OnAcceptError  PROVE RemovalsJustified'
  BY <1>20 DEF OnAcceptError
<1>21. ASSUME NEW c \in Conns, PeerConnect(c)  PROVE RemovalsJustified'
  BY <1>21 DEF PeerConnect, FreshConnections
<1>22. ASSUME NEW c \in Conns, NEW l \in Lines, PeerSend(c, l)  PROVE RemovalsJustified'
  BY <1>22 DEF PeerSend
<1>23. ASSUME NEW c \in Conns, PeerReceive(c)  PROVE RemovalsJustified'
  BY <1>23 DEF PeerReceive
<1>24. ASSUME NEW c \in Conns, NEW how \in {"fin", "rst", "lost"}, PeerGone(c, how)  PROVE RemovalsJustified'
  BY <1>24 DEF PeerGone
<1>25. ASSUME NEW c \in Conns, Release(c)  PROVE RemovalsJustified'
  BY <1>25 DEF Release
<1> QED  BY <1>1, <1>2, <1>3, <1>4, <1>5, <1>6, <1>7, <1>8, <1>9, <1>10, <1>11, <1>12,
    <1>13, <1>14, <1>15, <1>16, <1>17, <1>18, <1>19, <1>20, <1>21, <1>22, <1>23, <1>24,
    <1>25 DEF Next, ServerNext, Dispatch, Continue, PeerNext

(* The counter is the length of the list and the removals not yet subtracted. *)
LEMMA CountStep ==
  ASSUME IndInv, Next
  PROVE  counter' = Cardinality(clients') + Cardinality(Decrementing')
<1> USE DEF IndInv, Pick, Goto, Return, vars, listVars, poolVars, linkVars, TypeOK,
    HandlerData, CapacityRespected, Decrementing
<1>1. ASSUME NEW w \in Workers, NEW c \in Conns, OnAccept(w, c)  PROVE counter' = Cardinality(clients') + Cardinality(Decrementing')
  BY <1>1 DEF OnAccept
<1>2. ASSUME NEW w \in Workers, NEW c \in Conns, OnRead(w, c)  PROVE counter' = Cardinality(clients') + Cardinality(Decrementing')
  BY <1>2 DEF OnRead
<1>3. ASSUME NEW w \in Workers, NEW c \in Conns, OnReadClosed(w, c)  PROVE counter' = Cardinality(clients') + Cardinality(Decrementing')
  BY <1>3 DEF OnReadClosed
<1>4. ASSUME NEW w \in Workers, Refuse(w)  PROVE counter' = Cardinality(clients') + Cardinality(Decrementing')
  BY <1>4 DEF Refuse
<1>5. ASSUME NEW w \in Workers, Admit(w)  PROVE counter' = Cardinality(clients') + Cardinality(Decrementing')
  BY <1>5 DEF Admit
<1>6. ASSUME NEW w \in Workers, Lock(w)  PROVE counter' = Cardinality(clients') + Cardinality(Decrementing')
  BY <1>6 DEF Lock
<1>7. ASSUME NEW w \in Workers, Insert(w)  PROVE counter' = Cardinality(clients') + Cardinality(Decrementing')
  <2>0. IsFiniteSet(clients) /\ Cardinality(clients) \in Nat /\ Cardinality(Decrementing) \in Nat
    BY FinitelyMany
  <2>1. cur[w] \notin clients
    BY <1>7 DEF Insert, FreshConnections
  <2>2. Cardinality(clients \cup {cur[w]}) = Cardinality(clients) + 1
    BY <2>0, <2>1, FS_AddElement
  <2>3. Decrementing' = Decrementing
    BY <1>7 DEF Insert
  <2>4. counter' = counter + 1 /\ clients' = clients \cup {cur[w]}
    BY <1>7 DEF Insert
  <2>5. counter = Cardinality(clients) + Cardinality(Decrementing)
    OBVIOUS
  <2> HIDE DEF Decrementing
  <2> QED  BY <2>0, <2>2, <2>3, <2>4, <2>5
<1>8. ASSUME NEW w \in Workers, InsertFailure(w)  PROVE counter' = Cardinality(clients') + Cardinality(Decrementing')
  BY <1>8 DEF InsertFailure
<1>9. ASSUME NEW w \in Workers, StartRead(w)  PROVE counter' = Cardinality(clients') + Cardinality(Decrementing')
  BY <1>9 DEF StartRead
<1>10. ASSUME NEW w \in Workers, Register(w)  PROVE counter' = Cardinality(clients') + Cardinality(Decrementing')
  BY <1>10 DEF Register
<1>11. ASSUME NEW w \in Workers, StartAccept(w)  PROVE counter' = Cardinality(clients') + Cardinality(Decrementing')
  BY <1>11 DEF StartAccept
<1>12. ASSUME NEW w \in Workers, Shutdown(w)  PROVE counter' = Cardinality(clients') + Cardinality(Decrementing')
  BY <1>12 DEF Shutdown
<1>13. ASSUME NEW w \in Workers, Erase(w)  PROVE counter' = Cardinality(clients') + Cardinality(Decrementing')
  <2>0. IsFiniteSet(clients) /\ Cardinality(clients) \in Nat /\ IsFiniteSet(Decrementing) /\ Cardinality(Decrementing) \in Nat
    BY FinitelyMany
  <2>1. cur[w] \in clients
    BY <1>13 DEF Erase, IteratorsValid, Serving, ReadSteps
  <2>2. Decrementing' = Decrementing \cup {w} /\ w \notin Decrementing
    BY <1>13 DEF Erase
  <2>3. counter' = counter /\ clients' = clients \ {cur[w]}
    BY <1>13 DEF Erase
  <2>4. counter = Cardinality(clients) + Cardinality(Decrementing)
    OBVIOUS
  <2> HIDE DEF Decrementing
  <2>5. Cardinality(clients \ {cur[w]}) = Cardinality(clients) - 1
    BY <2>0, <2>1, RemoveOne
  <2>6. Cardinality(Decrementing \cup {w}) = Cardinality(Decrementing) + 1
    BY <2>0, <2>2, FS_AddElement
  <2> QED  BY <2>0, <2>2, <2>3, <2>4, <2>5, <2>6
<1>14. ASSUME NEW w \in Workers, Decrement(w)  PROVE counter' = Cardinality(clients') + Cardinality(Decrementing')
  <2>0. Cardinality(clients) \in Nat /\ IsFiniteSet(Decrementing) /\ Cardinality(Decrementing) \in Nat
    BY FinitelyMany
  <2>1. Decrementing' = Decrementing \ {w} /\ w \in Decrementing
    BY <1>14 DEF Decrement
  <2>2. counter' = counter - 1 /\ clients' = clients
    BY <1>14 DEF Decrement
  <2>3. counter = Cardinality(clients) + Cardinality(Decrementing)
    OBVIOUS
  <2> HIDE DEF Decrementing
  <2>4. Cardinality(Decrementing \ {w}) = Cardinality(Decrementing) - 1
    BY <2>0, <2>1, FS_RemoveElement
  <2> QED  BY <2>0, <2>1, <2>2, <2>3, <2>4
<1>15. ASSUME NEW w \in Workers, RejectLine(w)  PROVE counter' = Cardinality(clients') + Cardinality(Decrementing')
  BY <1>15 DEF RejectLine
<1>16. ASSUME NEW w \in Workers, ProcessRequest(w)  PROVE counter' = Cardinality(clients') + Cardinality(Decrementing')
  BY <1>16 DEF ProcessRequest
<1>17. ASSUME NEW w \in Workers, Respond(w)  PROVE counter' = Cardinality(clients') + Cardinality(Decrementing')
  BY <1>17 DEF Respond
<1>18. ASSUME NEW c \in Conns, OnReadError(c)  PROVE counter' = Cardinality(clients') + Cardinality(Decrementing')
  BY <1>18 DEF OnReadError
<1>19. ASSUME NEW c \in Conns, LateWrite(c)  PROVE counter' = Cardinality(clients') + Cardinality(Decrementing')
  BY <1>19 DEF LateWrite
<1>20. ASSUME OnAcceptError  PROVE counter' = Cardinality(clients') + Cardinality(Decrementing')
  BY <1>20 DEF OnAcceptError
<1>21. ASSUME NEW c \in Conns, PeerConnect(c)  PROVE counter' = Cardinality(clients') + Cardinality(Decrementing')
  BY <1>21 DEF PeerConnect
<1>22. ASSUME NEW c \in Conns, NEW l \in Lines, PeerSend(c, l)  PROVE counter' = Cardinality(clients') + Cardinality(Decrementing')
  BY <1>22 DEF PeerSend
<1>23. ASSUME NEW c \in Conns, PeerReceive(c)  PROVE counter' = Cardinality(clients') + Cardinality(Decrementing')
  BY <1>23 DEF PeerReceive
<1>24. ASSUME NEW c \in Conns, NEW how \in {"fin", "rst", "lost"}, PeerGone(c, how)  PROVE counter' = Cardinality(clients') + Cardinality(Decrementing')
  BY <1>24 DEF PeerGone
<1>25. ASSUME NEW c \in Conns, Release(c)  PROVE counter' = Cardinality(clients') + Cardinality(Decrementing')
  BY <1>25 DEF Release
<1> QED  BY <1>1, <1>2, <1>3, <1>4, <1>5, <1>6, <1>7, <1>8, <1>9, <1>10, <1>11, <1>12,
    <1>13, <1>14, <1>15, <1>16, <1>17, <1>18, <1>19, <1>20, <1>21, <1>22, <1>23, <1>24,
    <1>25 DEF Next, ServerNext, Dispatch, Continue, PeerNext

-----------------------------------------------------------------------------
LEMMA InitInv == Init => IndInv
<1> SUFFICES ASSUME Init  PROVE IndInv
  OBVIOUS
<1>1. TypeOK
  BY InitTypeOK
<1>2. HandlerData /\ FreshConnections /\ OneAcceptAtATime /\ IteratorsValid /\ RoomKept /\ RemovalsJustified
  BY ServerAssumption DEF Init, Fresh, HandlerData, FreshConnections, OneAcceptAtATime, Accepting,
       IteratorsValid, Serving, RoomKept, RemovalsJustified, AcceptSteps, ReadSteps
<1>3. clients = {} /\ Decrementing = {} /\ counter = 0 /\ maxConnections \in Nat
  BY ServerAssumption DEF Init, Fresh, Decrementing
<1>4. CapacityRespected
  BY <1>3, FS_EmptySet DEF CapacityRespected
<1> QED  BY <1>1, <1>2, <1>4 DEF IndInv

LEMMA NextInv == IndInv /\ [Next]_vars => IndInv'
<1> SUFFICES ASSUME IndInv, [Next]_vars  PROVE IndInv'
  OBVIOUS
<1>1. CASE Next
  <2>1. TypeOK' /\ HandlerData' /\ OneAcceptAtATime' /\ FreshConnections' /\ IteratorsValid' /\ RoomKept' /\ RemovalsJustified'
    BY <1>1, TypeStep, HandlerDataStep, AcceptStep, FreshStep, IteratorStep, RoomStep, RemovalStep
  <2>2. maxConnections' = maxConnections
    BY <1>1 DEF Next, ServerNext, Dispatch, Continue, PeerNext, OnAccept, OnRead, OnReadClosed,
         Refuse, Admit, Lock, Insert, InsertFailure, StartRead, Register, StartAccept, Shutdown,
         Erase, Decrement, RejectLine, ProcessRequest, Respond, OnReadError, LateWrite,
         OnAcceptError, PeerConnect, PeerSend, PeerReceive, PeerGone, Release
  <2>3. CapacityRespected'
    BY <1>1, <2>2, RoomStep, CountStep DEF CapacityRespected
  <2> QED  BY <2>1, <2>3 DEF IndInv
<1>2. CASE UNCHANGED vars
  BY <1>2 DEF vars, listVars, poolVars, linkVars, IndInv, TypeOK, HandlerData, FreshConnections,
       OneAcceptAtATime, Accepting, IteratorsValid, Serving, RoomKept, RemovalsJustified, CapacityRespected, Decrementing
<1> QED  BY <1>1, <1>2

(* The inductive invariant holds in every reachable state of a server with    *)
(* any number of connections and threads (on_accept, on_read and the list     *)
(* operations they make).                                                     *)
THEOREM Inductive == Spec => []IndInv
<1>1. Init => IndInv
  BY InitInv
<1>2. IndInv /\ [Next]_vars => IndInv'
  BY NextInv
<1> QED  BY <1>1, <1>2, PTL DEF Spec

(* Every variable of the running server has its type: the counter, an         *)
(* unsigned atomic, is never decremented below zero.                          *)
THEOREM TypeCorrect == Spec => []TypeOK
<1>1. IndInv => TypeOK
  BY DEF IndInv
<1> QED  BY <1>1, Inductive, PTL

(* The limit on clients is never passed, although the check, the insertion    *)
(* and the decrement are done on different threads without a common lock.     *)
THEOREM Capacity == Spec => []CapacityRespected
<1>1. IndInv => CapacityRespected
  BY DEF IndInv
<1> QED  BY <1>1, Inductive, PTL

(* At most one accept is outstanding or being handled.                        *)
THEOREM SingleAccept == Spec => []OneAcceptAtATime
<1>1. IndInv => OneAcceptAtATime
  BY DEF IndInv
<1> QED  BY <1>1, Inductive, PTL

(* No handler of a running server uses the iterator of an erased client.      *)
THEOREM Iterators == Spec => []IteratorsValid
<1>1. IndInv => IteratorsValid
  BY DEF IndInv
<1> QED  BY <1>1, Inductive, PTL

(* A running server removes a client only after its peer has closed or reset  *)
(* the connection, whatever that client has sent.                             *)
THEOREM GoneClients == Spec => OnlyGoneClientsRemoved
<1> DEFINE A == \A c \in clients \ clients' : peer[c] \in {"fin", "rst"}
<1>1. IndInv /\ [Next]_vars => A
  <2> SUFFICES ASSUME IndInv, [Next]_vars, NEW c \in clients, c \notin clients'
               PROVE  peer[c] \in {"fin", "rst"}
    OBVIOUS
  <2>1. PICK w \in Workers : Erase(w)
    BY DEF vars, listVars, Next, ServerNext, Dispatch, Continue, PeerNext, OnAccept, OnRead, OnReadClosed,
         Refuse, Admit, Lock, Insert, InsertFailure, StartRead, Register, StartAccept, Shutdown,
         Decrement, RejectLine, ProcessRequest, Respond, OnReadError, LateWrite,
         OnAcceptError, PeerConnect, PeerSend, PeerReceive, PeerGone, Release
  <2> QED  BY <2>1 DEF Erase, IndInv, RemovalsJustified
<1>2. IndInv /\ [Next]_vars => [A]_vars
  BY <1>1
<1> QED  BY <1>2, Inductive, PTL DEF Spec, OnlyGoneClientsRemoved

-----------------------------------------------------------------------------
(* A connection is attended to: a read is outstanding, or a handler is about *)
(* to start one or has to deal with the last one.                           *)
Attended(c) ==
  \/ c \in reading
  \/ \E w \in Workers : cur[w] = c /\ at[w] \in ReadSteps \cup {"start_read"}

ClientsAttended == \A c \in clients : peer[c] = "lost" \/ Attended(c)

LEMMA AttendedImplies == ClientsAttended => OnlyLostClientsStranded
<1>1. \A c : Attended(c) => c \in reading \/ Serving(c) # {} \/ \E w \in Accepting : cur[w] = c
  BY DEF Attended, Serving, Accepting, AcceptSteps
<1> QED  BY <1>1 DEF OnlyLostClientsStranded, ClientsAttended

(* Whoever stops reading a connection hands it on: to a handler that will read
   it again or remove it, unless the read fails because the peer is lost. *)
LEMMA AttendedStep ==
  ASSUME IndInv, Next, NEW d \in clients',
         d \in clients => peer[d] = "lost" \/ Attended(d)
  PROVE  (peer[d] = "lost" \/ Attended(d))'
<1> USE DEF IndInv, Pick, Goto, Return, vars, listVars, poolVars, linkVars, TypeOK, HandlerData,
    FreshConnections, Attended, ReadSteps
<1>1. ASSUME NEW w \in Workers, NEW c \in Conns, OnAccept(w, c)  PROVE (peer[d] = "lost" \/ Attended(d))'
  BY <1>1 DEF OnAccept
<1>2. ASSUME NEW w \in Workers, NEW c \in Conns, OnRead(w, c)  PROVE (peer[d] = "lost" \/ Attended(d))'
  BY <1>2 DEF OnRead
<1>3. ASSUME NEW w \in Workers, NEW c \in Conns, OnReadClosed(w, c)  PROVE (peer[d] = "lost" \/ Attended(d))'
  BY <1>3 DEF OnReadClosed
<1>4. ASSUME NEW w \in Workers, Refuse(w)  PROVE (peer[d] = "lost" \/ Attended(d))'
  BY <1>4 DEF Refuse
<1>5. ASSUME NEW w \in Workers, Admit(w)  PROVE (peer[d] = "lost" \/ Attended(d))'
  BY <1>5 DEF Admit
<1>6. ASSUME NEW w \in Workers, Lock(w)  PROVE (peer[d] = "lost" \/ Attended(d))'
  BY <1>6 DEF Lock
<1>7. ASSUME NEW w \in Workers, Insert(w)  PROVE (peer[d] = "lost" \/ Attended(d))'
  BY <1>7 DEF Insert
<1>8. ASSUME NEW w \in Workers, InsertFailure(w)  PROVE (peer[d] = "lost" \/ Attended(d))'
  BY <1>8 DEF InsertFailure
<1>9. ASSUME NEW w \in Workers, StartRead(w)  PROVE (peer[d] = "lost" \/ Attended(d))'
  BY <1>9 DEF StartRead
<1>10. ASSUME NEW w \in Workers, Register(w)  PROVE (peer[d] = "lost" \/ Attended(d))'
  BY <1>10 DEF Register
<1>11. ASSUME NEW w \in Workers, StartAccept(w)  PROVE (peer[d] = "lost" \/ Attended(d))'
  BY <1>11 DEF StartAccept
<1>12. ASSUME NEW w \in Workers, Shutdown(w)  PROVE (peer[d] = "lost" \/ Attended(d))'
  BY <1>12 DEF Shutdown
<1>13. ASSUME NEW w \in Workers, Erase(w)  PROVE (peer[d] = "lost" \/ Attended(d))'
  BY <1>13 DEF Erase
<1>14. ASSUME NEW w \in Workers, Decrement(w)  PROVE (peer[d] = "lost" \/ Attended(d))'
  BY <1>14 DEF Decrement
<1>15. ASSUME NEW w \in Workers, RejectLine(w)  PROVE (peer[d] = "lost" \/ Attended(d))'
  BY <1>15 DEF RejectLine
<1>16. ASSUME NEW w \in Workers, ProcessRequest(w)  PROVE (peer[d] = "lost" \/ Attended(d))'
  BY <1>16 DEF ProcessRequest
<1>17. ASSUME NEW w \in Workers, Respond(w)  PROVE (peer[d] = "lost" \/ Attended(d))'
  BY <1>17 DEF Respond
<1>18. ASSUME NEW c \in Conns, OnReadError(c)  PROVE (peer[d] = "lost" \/ Attended(d))'
  BY <1>18 DEF OnReadError
<1>19. ASSUME NEW c \in Conns, LateWrite(c)  PROVE (peer[d] = "lost" \/ Attended(d))'
  BY <1>19 DEF LateWrite
<1>20. ASSUME OnAcceptError  PROVE (peer[d] = "lost" \/ Attended(d))'
  BY <1>20 DEF OnAcceptError
<1>21. ASSUME NEW c \in Conns, PeerConnect(c)  PROVE (peer[d] = "lost" \/ Attended(d))'
  BY <1>21 DEF PeerConnect
<1>22. ASSUME NEW c \in Conns, NEW l \in Lines, PeerSend(c, l)  PROVE (peer[d] = "lost" \/ Attended(d))'
  BY <1>22 DEF PeerSend
<1>23. ASSUME NEW c \in Conns, PeerReceive(c)  PROVE (peer[d] = "lost" \/ Attended(d))'
  BY <1>23 DEF PeerReceive
<1>24. ASSUME NEW c \in Conns, NEW how \in {"fin", "rst", "lost"}, PeerGone(c, how)  PROVE (peer[d] = "lost" \/ Attended(d))'
  BY <1>24 DEF PeerGone
<1>25. ASSUME NEW c \in Conns, Release(c)  PROVE (peer[d] = "lost" \/ Attended(d))'
  BY <1>25 DEF Release
<1> QED  BY <1>1, <1>2, <1>3, <1>4, <1>5, <1>6, <1>7, <1>8, <1>9, <1>10, <1>11, <1>12, <1>13,
    <1>14, <1>15, <1>16, <1>17, <1>18, <1>19, <1>20, <1>21, <1>22, <1>23, <1>24, <1>25 DEF Next,
    ServerNext, Dispatch, Continue, PeerNext

(* A broken connection on which nothing is read any more, and which nobody is  *)
(* about to remove, is one that was lost: on_read leaves no other client in   *)
(* the list without a handler.                                                *)
THEOREM OnlyLostStranded == Spec => []OnlyLostClientsStranded
<1>1. Init => ClientsAttended
  BY DEF Init, Fresh, ClientsAttended
<1>2. IndInv /\ ClientsAttended /\ [Next]_vars => ClientsAttended'
  <2>1. CASE Next
    BY <2>1, AttendedStep DEF ClientsAttended
  <2>2. CASE UNCHANGED vars
    BY <2>2 DEF vars, listVars, poolVars, linkVars, ClientsAttended, Attended
  <2> QED  BY <2>1, <2>2
<1> QED  BY <1>1, <1>2, Inductive, AttendedImplies, PTL DEF Spec

-----------------------------------------------------------------------------
(***************************************************************************)
(*                       The server and its clients                        *)
(***************************************************************************)
-----------------------------------------------------------------------------
(* The inductive invariant *)

Calls == {"none", "idle", "registering", "formatting", "waiting"}

ClientTypes ==
  /\ call \in [Clients -> Calls]
  /\ socket \in [Clients -> Conns \cup Unusable]
  /\ connected \in [Clients -> BOOLEAN]
  /\ asked \in [Clients -> Areas \cup {NoLine}]

(* A request is made by a connected client, and only a client that is not     *)
(* connected waits for its registration.                                      *)
CallsFit ==
  \A k \in Clients :
    /\ call[k] \in {"formatting", "waiting"} => connected[k] /\ asked[k] \in Areas
    /\ call[k] = "registering" => ~connected[k]
    /\ connected[k] => socket[k] \in Conns \cup {Dead, Lost}

(* An open peer is the socket of exactly one client.                          *)
EndsMeet ==
  /\ \A k \in Clients : Bound(k) => peer[socket[k]] = "open"
  /\ \A j, k \in Clients : Bound(k) /\ socket[j] = socket[k] => j = k
  /\ \A c \in Conns : peer[c] = "open" => \E k \in Clients : socket[k] = c

(* A connection is free for both ends or for none, and a free one is empty.    *)
FreeIsEmpty(c) ==
  /\ peer[c] = "none" <=> sock[c] = "free"
  /\ sock[c] = "free" => inbox[c] = << >> /\ outbox[c] = << >> /\ lateOut[c] = << >>

FreeAreEmpty == \A c \in Conns : FreeIsEmpty(c)

(* The server closes its end of a connection only after the peer has gone, or  *)
(* when it has not inserted it.                                               *)
JoinSteps == {"accepted", "lock_insert", "insert", "start_read", "register"}

ServerEnd(c) ==
  peer[c] = "open" =>
    /\ \A w \in Workers : cur[w] = c /\ at[w] \in JoinSteps =>
         sock[c] = "open" /\ (at[w] = "register" => c \in clients)
    /\ c \in clients => sock[c] = "open"

ServerEnds == \A c \in Conns : ServerEnd(c)

(* What is on its way on one connection.                                      *)
Joining(c) == sock[c] = "backlog" \/ \E w \in Workers : cur[w] = c /\ at[w] \in JoinSteps
NoneIn(c) == inbox[c] = << >> /\ lateOut[c] = << >> /\ InHand(c) = {}
Silent(c) == NoneIn(c) /\ outbox[c] = << >>

(* One message of the request for area a, somewhere between write and read.   *)
OneFor(c, a) ==
  \/ /\ InHand(c) = {} /\ outbox[c] = << >> /\ lateOut[c] = << >>
     /\ inbox[c] \in {<<a>>, <<Malformed>>}
  \/ /\ InHand(c) # {} /\ inbox[c] = << >> /\ outbox[c] = << >> /\ lateOut[c] = << >>
     /\ \A w \in InHand(c) : line[w] = a \/ (at[w] = "parse" /\ line[w] = Malformed)
  \/ /\ InHand(c) = {} /\ inbox[c] = << >> /\ lateOut[c] = << >>
     /\ outbox[c] \in {<<TargetsList(a)>>, <<Message("TE_RequestFail")>>}
  \/ /\ InHand(c) = {} /\ inbox[c] = << >> /\ outbox[c] = << >>
     /\ lateOut[c] = <<Message("TE_RequestFail")>>

(* A client that has not been answered has nothing else under way; one that    *)
(* has been admitted is in the list; and a request is under way once.         *)
Exchange(k) ==
  LET c == socket[k] IN
    /\ call[k] = "registering" =>
         /\ NoneIn(c)
         /\ outbox[c] # << >> => ~Joining(c)
         /\ \/ outbox[c] \in {<< >>, <<Message("TE_RegisterFail")>>}
            \/ outbox[c] = <<Message("TE_RegisterSuccess")>> /\ c \in clients
    /\ connected[k] =>
         /\ c \in clients /\ ~Joining(c)
         /\ call[k] # "waiting" => Silent(c)
         /\ call[k] = "waiting" => OneFor(c, asked[k])

Exchanges == \A k \in Clients : Bound(k) => Exchange(k)

ClientInv == ClientTypes /\ CallsFit /\ EndsMeet /\ FreeAreEmpty /\ ServerEnds /\ Exchanges
SystemInv == IndInv /\ ClientInv

-----------------------------------------------------------------------------
(* Small facts about one-message buffers.                                     *)

LEMMA OneMessage ==
  ASSUME NEW S, NEW x \in S
  PROVE  /\ Append(<< >>, x) = <<x>> /\ Head(<<x>>) = x /\ Tail(<<x>>) = << >> /\ <<x>> # << >>
         /\ Len(<<x>>) = 1 /\ <<x>> \in Seq(S)
<1> QED  OBVIOUS

LEMMA OneLine == \A x \in Lines : Head(<<x>>) = x /\ Tail(<<x>>) = << >>
  BY OneMessage

LEMMA OneReply ==
  \A m \in Replies : Append(<< >>, m) = <<m>> /\ Head(<<m>>) = m /\ Tail(<<m>>) = << >>
  BY OneMessage

LEMMA WrittenIs ==
  ASSUME TypeOK, NEW c \in Conns, NEW d \in Conns, NEW m \in Replies
  PROVE  /\ d # c => Written(c, m)[d] = outbox[d]
         /\ peer[c] = "open" /\ sock[c] = "open" /\ outbox[c] = << >> => Written(c, m)[c] = <<m>>
         /\ ~(peer[c] = "open" /\ sock[c] = "open") => Written(c, m) = outbox
<1>1. outbox \in [Conns -> Seq(Replies)]
  BY DEF TypeOK
<1> QED  BY <1>1, OneMessage DEF Written

LEMMA WrittenAt ==
  ASSUME TypeOK, NEW c \in Conns, NEW d \in Conns, NEW m
  PROVE  sock[d] # "open" \/ d # c => Written(c, m)[d] = outbox[d]
<1> QED  BY DEF Written, TypeOK

LEMMA ClosedEndIs ==
  ASSUME TypeOK, NEW c \in Conns, NEW d \in Conns
  PROVE  /\ d # c => ClosedEnd(c)[d] = sock[d]
         /\ ClosedEnd(c)[c] \in IF sock[c] = "open" THEN {"closed", "reset"} ELSE {sock[c]}
<1> QED  BY DEF ClosedEnd, TypeOK

(* A step of the server, or a connection used again.                          *)
ServerStep == ServerNext \/ \E c \in Conns : Release(c)

(* The two ends *)
LEMMA EndsMeetServer ==
  ASSUME SystemInv, ServerStep, UNCHANGED clientVars
  PROVE  EndsMeet'
<1> USE DEF listVars, poolVars, linkVars, clientVars, Pick, Goto, Return, SystemInv, IndInv,
    ClientInv, EndsMeet, FreshConnections, HandlerData, Bound, TypeOK
<1>1. ASSUME NEW w \in Workers, NEW c \in Conns, OnAccept(w, c)  PROVE EndsMeet'
  BY <1>1 DEF OnAccept
<1>2. ASSUME NEW w \in Workers, NEW c \in Conns, OnRead(w, c)  PROVE EndsMeet'
  BY <1>2 DEF OnRead
<1>3. ASSUME NEW w \in Workers, NEW c \in Conns, OnReadClosed(w, c)  PROVE EndsMeet'
  BY <1>3 DEF OnReadClosed
<1>4. ASSUME NEW w \in Workers, Refuse(w)  PROVE EndsMeet'
  BY <1>4 DEF Refuse
<1>5. ASSUME NEW w \in Workers, Admit(w)  PROVE EndsMeet'
  BY <1>5 DEF Admit
<1>6. ASSUME NEW w \in Workers, Lock(w)  PROVE EndsMeet'
  BY <1>6 DEF Lock
<1>7. ASSUME NEW w \in Workers, Insert(w)  PROVE EndsMeet'
  BY <1>7 DEF Insert
<1>8. ASSUME NEW w \in Workers, InsertFailure(w)  PROVE EndsMeet'
  BY <1>8 DEF InsertFailure
<1>9. ASSUME NEW w \in Workers, StartRead(w)  PROVE EndsMeet'
  BY <1>9 DEF StartRead
<1>10. ASSUME NEW w \in Workers, Register(w)  PROVE EndsMeet'
  BY <1>10 DEF Register
<1>11. ASSUME NEW w \in Workers, StartAccept(w)  PROVE EndsMeet'
  BY <1>11 DEF StartAccept
<1>12. ASSUME NEW w \in Workers, Shutdown(w)  PROVE EndsMeet'
  BY <1>12 DEF Shutdown
<1>13. ASSUME NEW w \in Workers, Erase(w)  PROVE EndsMeet'
  BY <1>13 DEF Erase
<1>14. ASSUME NEW w \in Workers, Decrement(w)  PROVE EndsMeet'
  BY <1>14 DEF Decrement
<1>15. ASSUME NEW w \in Workers, RejectLine(w)  PROVE EndsMeet'
  BY <1>15 DEF RejectLine
<1>16. ASSUME NEW w \in Workers, ProcessRequest(w)  PROVE EndsMeet'
  BY <1>16 DEF ProcessRequest
<1>17. ASSUME NEW w \in Workers, Respond(w)  PROVE EndsMeet'
  BY <1>17 DEF Respond
<1>18. ASSUME NEW c \in Conns, OnReadError(c)  PROVE EndsMeet'
  BY <1>18 DEF OnReadError
<1>19. ASSUME NEW c \in Conns, LateWrite(c)  PROVE EndsMeet'
  BY <1>19 DEF LateWrite
<1>20. ASSUME OnAcceptError  PROVE EndsMeet'
  BY <1>20 DEF OnAcceptError
<1>21. ASSUME NEW c \in Conns, Release(c)  PROVE EndsMeet'
  BY <1>21 DEF Release
<1> QED  BY <1>1, <1>2, <1>3, <1>4, <1>5, <1>6, <1>7, <1>8, <1>9, <1>10, <1>11, <1>12, <1>13,
    <1>14, <1>15, <1>16, <1>17, <1>18, <1>19, <1>20, <1>21 DEF ServerStep, ServerNext, Dispatch,
    Continue

(* Free connections *)
LEMMA FreeServer ==
  ASSUME SystemInv, ServerStep, UNCHANGED clientVars, NEW d \in Conns
  PROVE  FreeIsEmpty(d)'
<1> USE DEF listVars, poolVars, linkVars, clientVars, Pick, Goto, Return, SystemInv, IndInv,
    ClientInv, FreeAreEmpty, FreeIsEmpty, FreshConnections, HandlerData
<1>1. ASSUME NEW w \in Workers, NEW c \in Conns, OnAccept(w, c)  PROVE FreeIsEmpty(d)'
  BY <1>1, WrittenAt, ClosedEndIs DEF OnAccept
<1>2. ASSUME NEW w \in Workers, NEW c \in Conns, OnRead(w, c)  PROVE FreeIsEmpty(d)'
  BY <1>2, WrittenAt, ClosedEndIs DEF OnRead
<1>3. ASSUME NEW w \in Workers, NEW c \in Conns, OnReadClosed(w, c)  PROVE FreeIsEmpty(d)'
  BY <1>3, WrittenAt, ClosedEndIs DEF OnReadClosed
<1>4. ASSUME NEW w \in Workers, Refuse(w)  PROVE FreeIsEmpty(d)'
  BY <1>4, WrittenAt, ClosedEndIs DEF Refuse
<1>5. ASSUME NEW w \in Workers, Admit(w)  PROVE FreeIsEmpty(d)'
  BY <1>5, WrittenAt, ClosedEndIs DEF Admit
<1>6. ASSUME NEW w \in Workers, Lock(w)  PROVE FreeIsEmpty(d)'
  BY <1>6, WrittenAt, ClosedEndIs DEF Lock
<1>7. ASSUME NEW w \in Workers, Insert(w)  PROVE FreeIsEmpty(d)'
  BY <1>7, WrittenAt, ClosedEndIs DEF Insert
<1>8. ASSUME NEW w \in Workers, InsertFailure(w)  PROVE FreeIsEmpty(d)'
  BY <1>8, WrittenAt, ClosedEndIs DEF InsertFailure
<1>9. ASSUME NEW w \in Workers, StartRead(w)  PROVE FreeIsEmpty(d)'
  BY <1>9, WrittenAt, ClosedEndIs DEF StartRead
<1>10. ASSUME NEW w \in Workers, Register(w)  PROVE FreeIsEmpty(d)'
  BY <1>10, WrittenAt, ClosedEndIs DEF Register
<1>11. ASSUME NEW w \in Workers, StartAccept(w)  PROVE FreeIsEmpty(d)'
  <2>1. cur[w] \in Conns /\ sock' \in {sock, ClosedEnd(cur[w])}
    BY <1>11 DEF StartAccept
  <2>2. sock'[d] = "free" <=> sock[d] = "free"
    BY <2>1 DEF ClosedEnd, TypeOK
  <2> QED  BY <1>11, <2>2 DEF StartAccept
<1>12. ASSUME NEW w \in Workers, Shutdown(w)  PROVE FreeIsEmpty(d)'
  <2>1. cur[w] \in Conns /\ sock' = ClosedEnd(cur[w])
    BY <1>12 DEF Shutdown
  <2>2. sock'[d] = "free" <=> sock[d] = "free"
    BY <2>1 DEF ClosedEnd, TypeOK
  <2>3. lateOut'[d] \in {lateOut[d], << >>}
    BY <1>12, <2>1 DEF Shutdown, TypeOK
  <2> QED  BY <1>12, <2>2, <2>3 DEF Shutdown
<1>13. ASSUME NEW w \in Workers, Erase(w)  PROVE FreeIsEmpty(d)'
  BY <1>13, WrittenAt, ClosedEndIs DEF Erase
<1>14. ASSUME NEW w \in Workers, Decrement(w)  PROVE FreeIsEmpty(d)'
  BY <1>14, WrittenAt, ClosedEndIs DEF Decrement
<1>15. ASSUME NEW w \in Workers, RejectLine(w)  PROVE FreeIsEmpty(d)'
  <2>1. cur[w] \in Conns /\ sock[cur[w]] # "free" /\ sock' = sock /\ inbox' = inbox /\ peer' = peer
    BY <1>15 DEF RejectLine
  <2>2. d # cur[w] => lateOut'[d] = lateOut[d]
    BY <1>15, <2>1 DEF RejectLine, TypeOK
  <2>3. sock[d] = "free" => outbox'[d] = outbox[d]
    BY <1>15, <2>1, WrittenAt DEF RejectLine
  <2> QED  BY <2>1, <2>2, <2>3
<1>16. ASSUME NEW w \in Workers, ProcessRequest(w)  PROVE FreeIsEmpty(d)'
  BY <1>16, WrittenAt, ClosedEndIs DEF ProcessRequest
<1>17. ASSUME NEW w \in Workers, Respond(w)  PROVE FreeIsEmpty(d)'
  BY <1>17, WrittenAt, ClosedEndIs DEF Respond
<1>18. ASSUME NEW c \in Conns, OnReadError(c)  PROVE FreeIsEmpty(d)'
  BY <1>18, WrittenAt, ClosedEndIs DEF OnReadError
<1>19. ASSUME NEW c \in Conns, LateWrite(c)  PROVE FreeIsEmpty(d)'
  BY <1>19, WrittenAt, ClosedEndIs DEF LateWrite
<1>20. ASSUME OnAcceptError  PROVE FreeIsEmpty(d)'
  BY <1>20, WrittenAt, ClosedEndIs DEF OnAcceptError
<1>21. ASSUME NEW c \in Conns, Release(c)  PROVE FreeIsEmpty(d)'
  <2>1. sock' = [sock EXCEPT ![c] = "free"] /\ peer' = [peer EXCEPT ![c] = "none"]
    BY <1>21 DEF Release
  <2>2. d = c => FreeIsEmpty(d)'
    BY <1>21 DEF Release, TypeOK
  <2>3. d # c => FreeIsEmpty(d)'
    BY <1>21 DEF Release, TypeOK
  <2> QED  BY <2>2, <2>3
<1> QED  BY <1>1, <1>2, <1>3, <1>4, <1>5, <1>6, <1>7, <1>8, <1>9, <1>10, <1>11, <1>12, <1>13,
    <1>14, <1>15, <1>16, <1>17, <1>18, <1>19, <1>20, <1>21 DEF ServerStep, ServerNext, Dispatch,
    Continue

(* The server's end *)
LEMMA ServerEndServer ==
  ASSUME SystemInv, ServerStep, UNCHANGED clientVars, NEW d \in Conns
  PROVE  ServerEnd(d)'
<1> USE DEF listVars, poolVars, linkVars, clientVars, Pick, Goto, Return, SystemInv, IndInv,
    ClientInv, ServerEnds, ServerEnd, FreshConnections, HandlerData, JoinSteps,
    RemovalsJustified, OneAcceptAtATime, Accepting, AcceptSteps
<1>1. ASSUME NEW w \in Workers, NEW c \in Conns, OnAccept(w, c)  PROVE ServerEnd(d)'
  <2>1. sock'[d] = "open" \/ sock'[d] = sock[d]
    BY <1>1 DEF OnAccept, TypeOK
  <2>2. ASSUME NEW v \in Workers, at'[v] \in JoinSteps, cur'[v] = d
        PROVE  \/ cur[v] = d /\ at[v] = at'[v]
               \/ sock'[d] = "open" /\ at'[v] = "accepted"
    BY <1>1, <2>2 DEF OnAccept, TypeOK
  <2> QED  BY <1>1, <2>1, <2>2 DEF OnAccept
<1>2. ASSUME NEW w \in Workers, NEW c \in Conns, OnRead(w, c)  PROVE ServerEnd(d)'
  BY <1>2, ClosedEndIs DEF OnRead
<1>3. ASSUME NEW w \in Workers, NEW c \in Conns, OnReadClosed(w, c)  PROVE ServerEnd(d)'
  BY <1>3, ClosedEndIs DEF OnReadClosed
<1>4. ASSUME NEW w \in Workers, Refuse(w)  PROVE ServerEnd(d)'
  BY <1>4, ClosedEndIs DEF Refuse
<1>5. ASSUME NEW w \in Workers, Admit(w)  PROVE ServerEnd(d)'
  BY <1>5, ClosedEndIs DEF Admit
<1>6. ASSUME NEW w \in Workers, Lock(w)  PROVE ServerEnd(d)'
  <2>1. ASSUME NEW v \in Workers, at'[v] \in JoinSteps, cur'[v] = d
        PROVE  cur[v] = d /\ at[v] \in JoinSteps /\ (at'[v] = "register" => at[v] = "register")
    BY <1>6, <2>1 DEF Lock, TypeOK
  <2> QED  BY <1>6, <2>1 DEF Lock
<1>7. ASSUME NEW w \in Workers, Insert(w)  PROVE ServerEnd(d)'
  BY <1>7, ClosedEndIs DEF Insert
<1>8. ASSUME NEW w \in Workers, InsertFailure(w)  PROVE ServerEnd(d)'
  BY <1>8, ClosedEndIs DEF InsertFailure
<1>9. ASSUME NEW w \in Workers, StartRead(w)  PROVE ServerEnd(d)'
  BY <1>9, ClosedEndIs DEF StartRead
<1>10. ASSUME NEW w \in Workers, Register(w)  PROVE ServerEnd(d)'
  BY <1>10, ClosedEndIs DEF Register
<1>11. ASSUME NEW w \in Workers, StartAccept(w)  PROVE ServerEnd(d)'
  <2>1. cur[w] \in Conns /\ w \in Accepting
    BY <1>11 DEF StartAccept
  <2>2. ASSUME NEW v \in Workers, at'[v] \in JoinSteps, cur'[v] = d
        PROVE  FALSE
    BY <1>11, <2>1, <2>2 DEF StartAccept, TypeOK
  <2>3. d \in clients => sock'[d] = sock[d]
    BY <1>11, <2>1 DEF StartAccept, ClosedEnd, TypeOK
  <2> QED  BY <1>11, <2>2, <2>3 DEF StartAccept
<1>12. ASSUME NEW w \in Workers, Shutdown(w)  PROVE ServerEnd(d)'
  <2>1. cur[w] \in Conns /\ peer[cur[w]] # "open" /\ sock' = ClosedEnd(cur[w])
    BY <1>12 DEF Shutdown
  <2>2. d # cur[w] => sock'[d] = sock[d]
    BY <2>1 DEF ClosedEnd, TypeOK
  <2>3. ASSUME NEW v \in Workers, at'[v] \in JoinSteps, cur'[v] = d
        PROVE  cur[v] = d /\ at[v] = at'[v]
    BY <1>12, <2>3 DEF Shutdown, TypeOK
  <2> QED  BY <1>12, <2>1, <2>2, <2>3 DEF Shutdown
<1>13. ASSUME NEW w \in Workers, Erase(w)  PROVE ServerEnd(d)'
  BY <1>13, ClosedEndIs DEF Erase
<1>14. ASSUME NEW w \in Workers, Decrement(w)  PROVE ServerEnd(d)'
  BY <1>14, ClosedEndIs DEF Decrement
<1>15. ASSUME NEW w \in Workers, RejectLine(w)  PROVE ServerEnd(d)'
  BY <1>15, ClosedEndIs DEF RejectLine
<1>16. ASSUME NEW w \in Workers, ProcessRequest(w)  PROVE ServerEnd(d)'
  BY <1>16, ClosedEndIs DEF ProcessRequest
<1>17. ASSUME NEW w \in Workers, Respond(w)  PROVE ServerEnd(d)'
  BY <1>17, ClosedEndIs DEF Respond
<1>18. ASSUME NEW c \in Conns, OnReadError(c)  PROVE ServerEnd(d)'
  BY <1>18, ClosedEndIs DEF OnReadError
<1>19. ASSUME NEW c \in Conns, LateWrite(c)  PROVE ServerEnd(d)'
  BY <1>19, ClosedEndIs DEF LateWrite
<1>20. ASSUME OnAcceptError  PROVE ServerEnd(d)'
  BY <1>20, ClosedEndIs DEF OnAcceptError
<1>21. ASSUME NEW c \in Conns, Release(c)  PROVE ServerEnd(d)'
  BY <1>21, ClosedEndIs DEF Release
<1> QED  BY <1>1, <1>2, <1>3, <1>4, <1>5, <1>6, <1>7, <1>8, <1>9, <1>10, <1>11, <1>12, <1>13,
    <1>14, <1>15, <1>16, <1>17, <1>18, <1>19, <1>20, <1>21 DEF ServerStep, ServerNext, Dispatch,
    Continue

(* What a step leaves as it is on connection c.                               *)
Handling(w, c) == cur[w] = c /\ at[w] \in {"parse", "respond"}

Same(c) ==
  /\ inbox'[c] = inbox[c] /\ outbox'[c] = outbox[c] /\ lateOut'[c] = lateOut[c]
  /\ \A w \in Workers : Handling(w, c)' <=> Handling(w, c)
  /\ \A w \in Workers : Handling(w, c) => line'[w] = line[w] /\ at'[w] = at[w]
  /\ Joining(c)' => Joining(c)
  /\ c \in clients => c \in clients'

LEMMA Unaffected ==
  ASSUME NEW k \in Clients, Exchange(k), Same(socket[k]),
         UNCHANGED <<call[k], socket[k], connected[k], asked[k]>>
  PROVE  Exchange(k)'
<1> DEFINE c == socket[k]
<1>1. InHand(c)' = InHand(c) /\ \A w \in InHand(c) : line'[w] = line[w] /\ at'[w] = at[w]
  BY DEF Same, InHand, Handling
<1>2. OneFor(c, asked[k]) => OneFor(c, asked[k])'
  <2>1. (\A w \in InHand(c) : line[w] = asked[k] \/ (at[w] = "parse" /\ line[w] = Malformed))
          => \A w \in InHand(c) : line'[w] = asked[k] \/ (at'[w] = "parse" /\ line'[w] = Malformed)
    BY <1>1
  <2> QED  BY <1>1, <2>1 DEF OneFor, Same
<1>3. NoneIn(c)' = NoneIn(c) /\ Silent(c)' = Silent(c)
  BY <1>1 DEF NoneIn, Silent, Same
<1> QED  BY <1>1, <1>2, <1>3 DEF Exchange, Same

(* The steps that move a message.                                             *)
Talks ==
  \/ \E w \in Workers :
       \/ Refuse(w) \/ Register(w) \/ RejectLine(w) \/ ProcessRequest(w) \/ Respond(w)
       \/ \E c \in Conns : OnRead(w, c)
  \/ \E c \in Conns : LateWrite(c)

(* Every other step leaves the exchange of a client as it is.                 *)
LEMMA SameServer ==
  ASSUME SystemInv, ServerStep, ~Talks, UNCHANGED clientVars, NEW k \in Clients, Bound(k)
  PROVE  Same(socket[k])
<1> USE DEF listVars, poolVars, linkVars, clientVars, Pick, Goto, Return, SystemInv, IndInv,
    ClientInv, EndsMeet, ServerEnds, FreshConnections, HandlerData, RemovalsJustified, Bound,
    Joining, JoinSteps, Same, Handling, TypeOK
<1>1. ASSUME NEW w \in Workers, NEW c \in Conns, OnAccept(w, c)  PROVE Same(socket[k])
  BY <1>1 DEF OnAccept
<1>2. ASSUME NEW w \in Workers, NEW c \in Conns, OnReadClosed(w, c)  PROVE Same(socket[k])
  BY <1>2 DEF OnReadClosed
<1>3. ASSUME NEW w \in Workers, Admit(w)  PROVE Same(socket[k])
  BY <1>3 DEF Admit
<1>4. ASSUME NEW w \in Workers, Lock(w)  PROVE Same(socket[k])
  BY <1>4 DEF Lock
<1>5. ASSUME NEW w \in Workers, Insert(w)  PROVE Same(socket[k])
  BY <1>5 DEF Insert
<1>6. ASSUME NEW w \in Workers, InsertFailure(w)  PROVE Same(socket[k])
  BY <1>6 DEF InsertFailure
<1>7. ASSUME NEW w \in Workers, StartRead(w)  PROVE Same(socket[k])
  BY <1>7 DEF StartRead
<1>8. ASSUME NEW w \in Workers, StartAccept(w)  PROVE Same(socket[k])
  <2>1. cur[w] \in Conns /\ (sock'[socket[k]] = "backlog" => sock[socket[k]] = "backlog")
    BY <1>8 DEF StartAccept, ClosedEnd
  <2> QED  BY <1>8, <2>1 DEF StartAccept
<1>9. ASSUME NEW w \in Workers, Shutdown(w)  PROVE Same(socket[k])
  <2>1. cur[w] \in Conns /\ cur[w] # socket[k] /\ (sock'[socket[k]] = "backlog" => sock[socket[k]] = "backlog")
    BY <1>9 DEF Shutdown, ClosedEnd
  <2> QED  BY <1>9, <2>1 DEF Shutdown
<1>10. ASSUME NEW w \in Workers, Erase(w)  PROVE Same(socket[k])
  <2>1. cur[w] \in Conns /\ cur[w] # socket[k]
    BY <1>10 DEF Erase
  <2> QED  BY <1>10, <2>1 DEF Erase
<1>11. ASSUME NEW w \in Workers, Decrement(w)  PROVE Same(socket[k])
  BY <1>11 DEF Decrement
<1>12. ASSUME NEW c \in Conns, OnReadError(c)  PROVE Same(socket[k])
  BY <1>12 DEF OnReadError
<1>13. ASSUME OnAcceptError  PROVE Same(socket[k])
  BY <1>13 DEF OnAcceptError
<1>14. ASSUME NEW c \in Conns, Release(c)  PROVE Same(socket[k])
  BY <1>14 DEF Release
<1> QED  BY <1>1, <1>2, <1>3, <1>4, <1>5, <1>6, <1>7, <1>8, <1>9, <1>10, <1>11, <1>12, <1>13,
    <1>14 DEF ServerStep, ServerNext, Dispatch, Continue, Talks

(* A step that moves a message leaves it so for every other connection.        *)
LEMMA ExchangeServer ==
  ASSUME SystemInv, ServerStep, UNCHANGED clientVars, NEW k \in Clients, Bound(k)
  PROVE  Exchange(k)'
<1> USE DEF listVars, poolVars, linkVars, clientVars, Pick, Goto, Return
<1>same. ASSUME Same(socket[k])  PROVE Exchange(k)'
  BY <1>same, Unaffected DEF SystemInv, ClientInv, Exchanges
<1>1. ASSUME NEW w \in Workers, NEW c \in Conns, OnRead(w, c)  PROVE Exchange(k)'
  <2>1. CASE c # socket[k]
    BY <1>1, <2>1, <1>same, WrittenIs, MessageType DEF OnRead, SystemInv, IndInv, ClientInv,
         EndsMeet, ServerEnds, FreshConnections, HandlerData, RemovalsJustified, Bound, Joining,
         JoinSteps, Same, Handling, TypeOK
  <2>2. CASE c = socket[k]
    <3>1. /\ call[k] # "registering"
          /\ connected[k] => call[k] = "waiting" /\ c \in clients /\ ~Joining(c)
          /\ connected[k] => InHand(c) = {} /\ inbox[c] \in {<<asked[k]>>, <<Malformed>>}
                             /\ outbox[c] = << >> /\ lateOut[c] = << >>
      BY <1>1, <2>2 DEF OnRead, SystemInv, IndInv, ClientInv, Exchanges, Exchange, Bound, TypeOK,
           Silent, NoneIn, OneFor
    <3>2. ASSUME connected[k]
          PROVE  /\ inbox'[c] = << >> /\ outbox'[c] = << >> /\ lateOut'[c] = << >>
                 /\ line'[w] \in {asked[k], Malformed}
      <4>1. PICK x \in {asked[k], Malformed} : inbox[c] = <<x>>
        BY <3>1, <3>2
      <4>2. x \in Lines
        BY <3>1, <3>2 DEF SystemInv, ClientInv, CallsFit, Lines
      <4>3. Head(inbox[c]) = x /\ Tail(inbox[c]) = << >>
        BY <4>1, <4>2, OneLine
      <4>4. inbox'[c] = Tail(inbox[c]) /\ line'[w] = Head(inbox[c]) /\ outbox' = outbox /\ lateOut' = lateOut
        BY <1>1, <2>2 DEF OnRead, SystemInv, IndInv, TypeOK
      <4> QED  BY <2>2, <3>1, <3>2, <4>3, <4>4
    <3>3. connected[k] => InHand(c)' = {w} /\ at'[w] = "parse"
      BY <1>1, <2>2, <3>1 DEF OnRead, SystemInv, IndInv, ClientInv, Exchanges, Exchange, Bound,
           TypeOK, InHand
    <3>4. connected[k] => ~Joining(c)'
      BY <1>1, <2>2, <3>1 DEF OnRead, SystemInv, IndInv, ClientInv, Exchanges, Exchange, Bound,
           TypeOK, Joining, JoinSteps
    <3>5. connected[k] => OneFor(c, asked[k])'
      BY <3>2, <3>3 DEF OneFor, clientVars
    <3>6. clients' = clients
      BY <1>1 DEF OnRead
    <3> QED  BY <2>2, <3>1, <3>4, <3>5, <3>6 DEF Exchange, clientVars
  <2> QED  BY <2>1, <2>2
<1>2. ASSUME NEW w \in Workers, Refuse(w)  PROVE Exchange(k)'
  <2>1. CASE cur[w] # socket[k]
    <3>1. outbox' = Written(cur[w], Message("TE_RegisterFail")) /\ Message("TE_RegisterFail") \in Replies /\ cur[w] \in Conns
      BY <1>2, MessageType DEF Refuse, SystemInv, IndInv, ClientInv, EndsMeet, ServerEnds,
           FreshConnections, HandlerData, RemovalsJustified, Bound, Joining, JoinSteps, Same,
           Handling, TypeOK
    <3>2. outbox'[socket[k]] = outbox[socket[k]]
      BY <2>1, <3>1, WrittenIs DEF SystemInv, IndInv, ClientInv, Exchanges, Exchange, Bound, TypeOK
    <3>3. Same(socket[k])
      BY <1>2, <2>1, <3>2 DEF Refuse, SystemInv, IndInv, ClientInv, EndsMeet, ServerEnds,
           FreshConnections, HandlerData, RemovalsJustified, Bound, Joining, JoinSteps, Same,
           Handling, TypeOK
    <3> QED  BY <3>3, <1>same
  <2>2. CASE cur[w] = socket[k]
    <3> DEFINE c == socket[k]
    <3>1. /\ sock[c] = "open" /\ peer[c] = "open" /\ Joining(c) /\ w \in Accepting
          /\ at[w] = "register" => c \in clients
      BY <1>2, <2>2 DEF Refuse, SystemInv, IndInv, ClientInv, EndsMeet, ServerEnds,
           FreshConnections, HandlerData, RemovalsJustified, Bound, Joining, JoinSteps, Same,
           Handling, TypeOK, SystemInv, IndInv, ClientInv, Exchanges, Exchange, Bound, TypeOK,
           ServerEnd, Accepting, AcceptSteps
    <3>2. /\ ~connected[k]
          /\ call[k] = "registering" => NoneIn(c) /\ outbox[c] = << >>
      BY <3>1 DEF SystemInv, IndInv, ClientInv, Exchanges, Exchange, Bound, TypeOK
    <3>3. ~Joining(c)'
      BY <1>2, <2>2, <3>1 DEF Refuse, SystemInv, IndInv, ClientInv, Exchanges, Exchange, Bound,
           TypeOK, Joining, JoinSteps, OneAcceptAtATime, Accepting, AcceptSteps
    <3>4. call[k] = "registering" => NoneIn(c)'
      BY <1>2, <2>2, <3>2 DEF Refuse, SystemInv, IndInv, ClientInv, Exchanges, Exchange, Bound,
           TypeOK, NoneIn, InHand
    <3>5. call[k] = "registering" => outbox'[c] = <<Message("TE_RegisterFail")>>
      <4>1. outbox' = Written(c, Message("TE_RegisterFail")) /\ Message("TE_RegisterFail") \in Replies /\ c \in Conns
        BY <1>2, <2>2, MessageType DEF Refuse, SystemInv, IndInv, ClientInv, Exchanges, Exchange,
             Bound, TypeOK
      <4> QED  BY <3>1, <3>2, <4>1, WrittenIs DEF SystemInv, IndInv, ClientInv, Exchanges, Exchange,
           Bound, TypeOK
    <3>6. clients' = clients
      BY <1>2 DEF Refuse
    <3> QED  BY <1>2, <3>1, <3>2, <3>3, <3>4, <3>5, <3>6 DEF Refuse, Exchange, clientVars
  <2> QED  BY <2>1, <2>2
<1>3. ASSUME NEW w \in Workers, Register(w)  PROVE Exchange(k)'
  <2>1. CASE cur[w] # socket[k]
    <3>1. outbox' = Written(cur[w], Message("TE_RegisterSuccess")) /\ Message("TE_RegisterSuccess") \in Replies /\ cur[w] \in Conns
      BY <1>3, MessageType DEF Register, SystemInv, IndInv, ClientInv, EndsMeet, ServerEnds,
           FreshConnections, HandlerData, RemovalsJustified, Bound, Joining, JoinSteps, Same,
           Handling, TypeOK
    <3>2. outbox'[socket[k]] = outbox[socket[k]]
      BY <2>1, <3>1, WrittenIs DEF SystemInv, IndInv, ClientInv, Exchanges, Exchange, Bound, TypeOK
    <3>3. Same(socket[k])
      BY <1>3, <2>1, <3>2 DEF Register, SystemInv, IndInv, ClientInv, EndsMeet, ServerEnds,
           FreshConnections, HandlerData, RemovalsJustified, Bound, Joining, JoinSteps, Same,
           Handling, TypeOK
    <3> QED  BY <3>3, <1>same
  <2>2. CASE cur[w] = socket[k]
    <3> DEFINE c == socket[k]
    <3>1. /\ sock[c] = "open" /\ peer[c] = "open" /\ Joining(c) /\ w \in Accepting
          /\ at[w] = "register" => c \in clients
      BY <1>3, <2>2 DEF Register, SystemInv, IndInv, ClientInv, EndsMeet, ServerEnds,
           FreshConnections, HandlerData, RemovalsJustified, Bound, Joining, JoinSteps, Same,
           Handling, TypeOK, SystemInv, IndInv, ClientInv, Exchanges, Exchange, Bound, TypeOK,
           ServerEnd, Accepting, AcceptSteps
    <3>2. /\ ~connected[k]
          /\ call[k] = "registering" => NoneIn(c) /\ outbox[c] = << >>
      BY <3>1 DEF SystemInv, IndInv, ClientInv, Exchanges, Exchange, Bound, TypeOK
    <3>3. ~Joining(c)'
      BY <1>3, <2>2, <3>1 DEF Register, SystemInv, IndInv, ClientInv, Exchanges, Exchange, Bound,
           TypeOK, Joining, JoinSteps, OneAcceptAtATime, Accepting, AcceptSteps
    <3>4. call[k] = "registering" => NoneIn(c)'
      BY <1>3, <2>2, <3>2 DEF Register, SystemInv, IndInv, ClientInv, Exchanges, Exchange, Bound,
           TypeOK, NoneIn, InHand
    <3>5. call[k] = "registering" => outbox'[c] = <<Message("TE_RegisterSuccess")>>
      <4>1. outbox' = Written(c, Message("TE_RegisterSuccess")) /\ Message("TE_RegisterSuccess") \in Replies /\ c \in Conns
        BY <1>3, <2>2, MessageType DEF Register, SystemInv, IndInv, ClientInv, Exchanges, Exchange,
             Bound, TypeOK
      <4> QED  BY <3>1, <3>2, <4>1, WrittenIs DEF SystemInv, IndInv, ClientInv, Exchanges, Exchange,
           Bound, TypeOK
    <3>6. clients' = clients
      BY <1>3 DEF Register
    <3> QED  BY <1>3, <3>1, <3>2, <3>3, <3>4, <3>5, <3>6 DEF Register, Exchange, clientVars
  <2> QED  BY <2>1, <2>2
<1>4. ASSUME NEW w \in Workers, RejectLine(w)  PROVE Exchange(k)'
  <2>1. CASE cur[w] # socket[k]
    BY <1>4, <2>1, <1>same, WrittenIs, MessageType DEF RejectLine, SystemInv, IndInv, ClientInv,
         EndsMeet, ServerEnds, FreshConnections, HandlerData, RemovalsJustified, Bound, Joining,
         JoinSteps, Same, Handling, TypeOK
  <2>2. CASE cur[w] = socket[k]
    <3> DEFINE c == socket[k]
    <3>1. /\ w \in InHand(c) /\ w \in Serving(c) /\ call[k] # "registering"
          /\ connected[k] => call[k] = "waiting" /\ c \in clients /\ ~Joining(c)
          /\ connected[k] => /\ inbox[c] = << >> /\ outbox[c] = << >> /\ lateOut[c] = << >>
                             /\ line[w] = asked[k] \/ (at[w] = "parse" /\ line[w] = Malformed)
      BY <1>4, <2>2 DEF RejectLine, SystemInv, IndInv, ClientInv, Exchanges, Exchange, Bound,
           TypeOK, Silent, NoneIn, OneFor, InHand, Serving, ReadSteps
    <3>2. connected[k] => ~Joining(c)'
      BY <1>4, <2>2, <3>1 DEF RejectLine, SystemInv, IndInv, ClientInv, Exchanges, Exchange, Bound,
           TypeOK, Joining, JoinSteps
    <3>3. InHand(c)' = {}
      BY <1>4, <2>2, <3>1 DEF RejectLine, SystemInv, IndInv, ClientInv, Exchanges, Exchange, Bound,
           TypeOK, InHand, IteratorsValid, Serving, ReadSteps
    <3>4. connected[k] => peer[c] = "open" /\ sock[c] = "open"
      BY <3>1 DEF SystemInv, IndInv, ClientInv, Exchanges, Exchange, Bound, TypeOK, EndsMeet,
           ServerEnds, ServerEnd
    <3>5. ASSUME connected[k]
          PROVE  \/ outbox'[c] = <<Message("TE_RequestFail")>> /\ lateOut'[c] = << >>
                 \/ lateOut'[c] = <<Message("TE_RequestFail")>> /\ outbox'[c] = << >>
      <4>1. Message("TE_RequestFail") \in Replies
        BY MessageType
      <4>2. Append(<< >>, Message("TE_RequestFail")) = <<Message("TE_RequestFail")>>
        BY <4>1, OneReply
      <4>3. CASE lateOut[c] = << >> /\ HasRoom(c)
        <5>1. outbox' = Written(c, Message("TE_RequestFail")) /\ lateOut' = lateOut
          BY <1>4, <2>2, <4>3 DEF RejectLine
        <5> QED  BY <3>1, <3>4, <3>5, <4>1, <5>1, WrittenIs DEF SystemInv, IndInv, ClientInv,
             Exchanges, Exchange, Bound, TypeOK
      <4>4. CASE ~(lateOut[c] = << >> /\ HasRoom(c))
        <5>1. lateOut'[c] = Append(lateOut[c], Message("TE_RequestFail")) /\ outbox' = outbox
          BY <1>4, <2>2, <4>4 DEF RejectLine, SystemInv, IndInv, ClientInv, Exchanges, Exchange,
               Bound, TypeOK
        <5> QED  BY <3>1, <3>5, <4>2, <5>1
      <4> QED  BY <4>3, <4>4
    <3>6. clients' = clients /\ inbox' = inbox
      BY <1>4 DEF RejectLine
    <3>7. connected[k] => OneFor(c, asked[k])'
      BY <3>1, <3>3, <3>5, <3>6 DEF OneFor, clientVars
    <3> QED  BY <3>1, <3>2, <3>6, <3>7 DEF Exchange, clientVars
  <2> QED  BY <2>1, <2>2
<1>5. ASSUME NEW w \in Workers, ProcessRequest(w)  PROVE Exchange(k)'
  <2>1. CASE cur[w] # socket[k]
    BY <1>5, <2>1, <1>same, WrittenIs, MessageType DEF ProcessRequest, SystemInv, IndInv, ClientInv,
         EndsMeet, ServerEnds, FreshConnections, HandlerData, RemovalsJustified, Bound, Joining,
         JoinSteps, Same, Handling, TypeOK
  <2>2. CASE cur[w] = socket[k]
    <3> DEFINE c == socket[k]
    <3>1. /\ w \in InHand(c) /\ w \in Serving(c) /\ call[k] # "registering"
          /\ connected[k] => call[k] = "waiting" /\ c \in clients /\ ~Joining(c)
          /\ connected[k] => /\ inbox[c] = << >> /\ outbox[c] = << >> /\ lateOut[c] = << >>
                             /\ line[w] = asked[k] \/ (at[w] = "parse" /\ line[w] = Malformed)
      BY <1>5, <2>2 DEF ProcessRequest, SystemInv, IndInv, ClientInv, Exchanges, Exchange, Bound,
           TypeOK, Silent, NoneIn, OneFor, InHand, Serving, ReadSteps
    <3>2. connected[k] => ~Joining(c)'
      BY <1>5, <2>2, <3>1 DEF ProcessRequest, SystemInv, IndInv, ClientInv, Exchanges, Exchange,
           Bound, TypeOK, Joining, JoinSteps
    <3>3. InHand(c)' = InHand(c) /\ \A v \in InHand(c) : v = w
      BY <1>5, <2>2, <3>1 DEF ProcessRequest, SystemInv, IndInv, ClientInv, Exchanges, Exchange,
           Bound, TypeOK, InHand, IteratorsValid, Serving, ReadSteps
    <3>4. connected[k] => OneFor(c, asked[k])'
      BY <1>5, <3>1, <3>3 DEF ProcessRequest, OneFor, clientVars, linkVars
    <3>5. clients' = clients
      BY <1>5 DEF ProcessRequest
    <3> QED  BY <3>1, <3>2, <3>4, <3>5 DEF Exchange, clientVars
  <2> QED  BY <2>1, <2>2
<1>6. ASSUME NEW w \in Workers, Respond(w)  PROVE Exchange(k)'
  <2>1. CASE cur[w] # socket[k]
    BY <1>6, <2>1, <1>same, WrittenIs, MessageType DEF Respond, SystemInv, IndInv, ClientInv,
         EndsMeet, ServerEnds, FreshConnections, HandlerData, RemovalsJustified, Bound, Joining,
         JoinSteps, Same, Handling, TypeOK
  <2>2. CASE cur[w] = socket[k]
    <3> DEFINE c == socket[k]
    <3>1. /\ w \in InHand(c) /\ w \in Serving(c) /\ call[k] # "registering"
          /\ connected[k] => call[k] = "waiting" /\ c \in clients /\ ~Joining(c)
          /\ connected[k] => /\ inbox[c] = << >> /\ outbox[c] = << >> /\ lateOut[c] = << >>
                             /\ line[w] = asked[k] \/ (at[w] = "parse" /\ line[w] = Malformed)
      BY <1>6, <2>2 DEF Respond, SystemInv, IndInv, ClientInv, Exchanges, Exchange, Bound, TypeOK,
           Silent, NoneIn, OneFor, InHand, Serving, ReadSteps
    <3>2. connected[k] => ~Joining(c)'
      BY <1>6, <2>2, <3>1 DEF Respond, SystemInv, IndInv, ClientInv, Exchanges, Exchange, Bound,
           TypeOK, Joining, JoinSteps
    <3>3. InHand(c)' = {}
      BY <1>6, <2>2, <3>1 DEF Respond, SystemInv, IndInv, ClientInv, Exchanges, Exchange, Bound,
           TypeOK, InHand, IteratorsValid, Serving, ReadSteps
    <3>4. connected[k] => peer[c] = "open" /\ sock[c] = "open" /\ line[w] = asked[k] /\ asked[k] \in Areas
      BY <1>6, <3>1 DEF Respond, SystemInv, IndInv, ClientInv, Exchanges, Exchange, Bound, TypeOK,
           EndsMeet, ServerEnds, ServerEnd, CallsFit
    <3>5. connected[k] => outbox'[c] = <<TargetsList(asked[k])>>
      BY <1>6, <2>2, <3>1, <3>4, WrittenIs, MessageType DEF Respond, SystemInv, IndInv, ClientInv,
           Exchanges, Exchange, Bound, TypeOK
    <3>6. clients' = clients /\ inbox' = inbox /\ lateOut' = lateOut
      BY <1>6 DEF Respond
    <3>7. connected[k] => OneFor(c, asked[k])'
      BY <3>1, <3>3, <3>5, <3>6 DEF OneFor, clientVars
    <3> QED  BY <3>1, <3>2, <3>6, <3>7 DEF Exchange, clientVars
  <2> QED  BY <2>1, <2>2
<1>7. ASSUME NEW c \in Conns, LateWrite(c)  PROVE Exchange(k)'
  <2>1. CASE c # socket[k]
    BY <1>7, <2>1, <1>same, WrittenIs, MessageType DEF LateWrite, SystemInv, IndInv, ClientInv,
         EndsMeet, ServerEnds, FreshConnections, HandlerData, RemovalsJustified, Bound, Joining,
         JoinSteps, Same, Handling, TypeOK
  <2>2. CASE c = socket[k]
    <3>1. /\ call[k] # "registering"
          /\ connected[k] => call[k] = "waiting" /\ c \in clients /\ ~Joining(c)
          /\ connected[k] => InHand(c) = {} /\ inbox[c] = << >> /\ outbox[c] = << >>
                             /\ lateOut[c] = <<Message("TE_RequestFail")>>
      BY <1>7, <2>2 DEF LateWrite, SystemInv, IndInv, ClientInv, Exchanges, Exchange, Bound, TypeOK,
           Silent, NoneIn, OneFor
    <3>2. connected[k] => peer[c] = "open" /\ sock[c] = "open"
      BY <2>2, <3>1 DEF SystemInv, IndInv, ClientInv, Exchanges, Exchange, Bound, TypeOK, EndsMeet,
           ServerEnds, ServerEnd
    <3>3. connected[k] => outbox'[c] = <<Message("TE_RequestFail")>> /\ lateOut'[c] = << >>
      <4>1. Message("TE_RequestFail") \in Replies
        BY MessageType
      <4>2. connected[k] => Head(lateOut[c]) = Message("TE_RequestFail") /\ Tail(lateOut[c]) = << >>
        BY <3>1, <4>1, OneReply
      <4>3. outbox' = Written(c, Head(lateOut[c])) /\ lateOut'[c] = Tail(lateOut[c])
        BY <1>7 DEF LateWrite, SystemInv, IndInv, ClientInv, Exchanges, Exchange, Bound, TypeOK
      <4> QED  BY <3>1, <3>2, <4>1, <4>2, <4>3, WrittenIs DEF SystemInv, IndInv, ClientInv,
           Exchanges, Exchange, Bound, TypeOK
    <3>4. InHand(c)' = InHand(c) /\ Joining(c)' = Joining(c) /\ inbox' = inbox /\ clients' = clients
      BY <1>7 DEF LateWrite, InHand, Joining
    <3>5. connected[k] => OneFor(c, asked[k])'
      BY <3>1, <3>3, <3>4 DEF OneFor, clientVars
    <3> QED  BY <2>2, <3>1, <3>4, <3>5 DEF Exchange, clientVars
  <2> QED  BY <2>1, <2>2
<1> QED  BY <1>same, SameServer, <1>1, <1>2, <1>3, <1>4, <1>5, <1>6, <1>7 DEF Talks

-----------------------------------------------------------------------------
(* The steps of the clients                                                   *)

(* Each is a step of a peer, or no step of the server at all. *)
LEMMA ClientStepIsPeerStep ==
  ASSUME SystemInv, NEW k \in Clients, ClientStep(k) \/ Network(k)
  PROVE  [Next]_vars
<1> USE DEF Back, Bound, CloseBound, CloseClient, vars, listVars, poolVars, linkVars, SystemInv,
    ClientInv, ClientTypes, CallsFit, Next, PeerNext, Lines
<1>1. ASSUME Construct(k)  PROVE [Next]_vars
  BY <1>1 DEF Construct
<1>2. ASSUME Destroy(k)  PROVE [Next]_vars
  BY <1>2 DEF Destroy
<1>3. ASSUME LoadConfig(k)  PROVE [Next]_vars
  BY <1>3 DEF LoadConfig
<1>4. ASSUME Connect(k)  PROVE [Next]_vars
  BY <1>4 DEF Connect
<1>5. ASSUME ConnectError(k)  PROVE [Next]_vars
  BY <1>5 DEF ConnectError
<1>6. ASSUME Registered(k)  PROVE [Next]_vars
  BY <1>6 DEF Registered
<1>7. ASSUME RegisterError(k)  PROVE [Next]_vars
  BY <1>7 DEF RegisterError
<1>8. ASSUME Disconnect(k)  PROVE [Next]_vars
  BY <1>8 DEF Disconnect
<1>9. ASSUME NEW a \in Areas, GetTargets(k, a)  PROVE [Next]_vars
  BY <1>9 DEF GetTargets
<1>10. ASSUME Write(k)  PROVE [Next]_vars
  BY <1>10 DEF Write
<1>11. ASSUME Answered(k)  PROVE [Next]_vars
  BY <1>11 DEF Answered
<1>12. ASSUME RequestError(k)  PROVE [Next]_vars
  BY <1>12 DEF RequestError
<1>13. ASSUME Network(k)  PROVE [Next]_vars
  BY <1>13 DEF Network, ConnectionReset, ConnectionLost
<1> QED  BY <1>1, <1>2, <1>3, <1>4, <1>5, <1>6, <1>7, <1>8, <1>9, <1>10, <1>11, <1>12, <1>13 DEF
    ClientStep

(* Types *)
LEMMA TypesClient ==
  ASSUME SystemInv, NEW k \in Clients, ClientStep(k) \/ Network(k)
  PROVE  ClientTypes'
<1> USE DEF Back, Bound, CloseBound, CloseClient, vars, listVars, poolVars, linkVars, SystemInv,
    ClientInv, ClientTypes, CallsFit, Calls, Unusable
<1>1. ASSUME Construct(k)  PROVE ClientTypes'
  BY <1>1, ClientAssumption DEF Construct
<1>2. ASSUME Destroy(k)  PROVE ClientTypes'
  BY <1>2, ClientAssumption DEF Destroy
<1>3. ASSUME LoadConfig(k)  PROVE ClientTypes'
  BY <1>3, ClientAssumption DEF LoadConfig
<1>4. ASSUME Connect(k)  PROVE ClientTypes'
  BY <1>4, ClientAssumption DEF Connect
<1>5. ASSUME ConnectError(k)  PROVE ClientTypes'
  BY <1>5, ClientAssumption DEF ConnectError
<1>6. ASSUME Registered(k)  PROVE ClientTypes'
  BY <1>6, ClientAssumption DEF Registered
<1>7. ASSUME RegisterError(k)  PROVE ClientTypes'
  BY <1>7, ClientAssumption DEF RegisterError
<1>8. ASSUME Disconnect(k)  PROVE ClientTypes'
  BY <1>8, ClientAssumption DEF Disconnect
<1>9. ASSUME NEW a \in Areas, GetTargets(k, a)  PROVE ClientTypes'
  BY <1>9, ClientAssumption DEF GetTargets
<1>10. ASSUME Write(k)  PROVE ClientTypes'
  BY <1>10, ClientAssumption DEF Write
<1>11. ASSUME Answered(k)  PROVE ClientTypes'
  BY <1>11, ClientAssumption DEF Answered
<1>12. ASSUME RequestError(k)  PROVE ClientTypes'
  BY <1>12, ClientAssumption DEF RequestError
<1>13. ASSUME Network(k)  PROVE ClientTypes'
  BY <1>13, ClientAssumption DEF Network, ConnectionReset, ConnectionLost
<1> QED  BY <1>1, <1>2, <1>3, <1>4, <1>5, <1>6, <1>7, <1>8, <1>9, <1>10, <1>11, <1>12, <1>13 DEF
    ClientStep

(* What a call needs *)
LEMMA CallsClient ==
  ASSUME SystemInv, NEW k \in Clients, ClientStep(k) \/ Network(k)
  PROVE  CallsFit'
<1> USE DEF Back, Bound, CloseBound, CloseClient, vars, listVars, poolVars, linkVars, SystemInv,
    ClientInv, ClientTypes, CallsFit, Calls, Unusable, Closed, Unbound, Dead, Lost
<1>1. ASSUME Construct(k)  PROVE CallsFit'
  BY <1>1, ClientAssumption DEF Construct
<1>2. ASSUME Destroy(k)  PROVE CallsFit'
  BY <1>2, ClientAssumption DEF Destroy
<1>3. ASSUME LoadConfig(k)  PROVE CallsFit'
  BY <1>3, ClientAssumption DEF LoadConfig
<1>4. ASSUME Connect(k)  PROVE CallsFit'
  BY <1>4, ClientAssumption DEF Connect
<1>5. ASSUME ConnectError(k)  PROVE CallsFit'
  BY <1>5, ClientAssumption DEF ConnectError
<1>6. ASSUME Registered(k)  PROVE CallsFit'
  BY <1>6, ClientAssumption DEF Registered
<1>7. ASSUME RegisterError(k)  PROVE CallsFit'
  BY <1>7, ClientAssumption DEF RegisterError
<1>8. ASSUME Disconnect(k)  PROVE CallsFit'
  BY <1>8, ClientAssumption DEF Disconnect
<1>9. ASSUME NEW a \in Areas, GetTargets(k, a)  PROVE CallsFit'
  BY <1>9, ClientAssumption DEF GetTargets
<1>10. ASSUME Write(k)  PROVE CallsFit'
  BY <1>10, ClientAssumption DEF Write
<1>11. ASSUME Answered(k)  PROVE CallsFit'
  BY <1>11, ClientAssumption DEF Answered
<1>12. ASSUME RequestError(k)  PROVE CallsFit'
  BY <1>12, ClientAssumption DEF RequestError
<1>13. ASSUME Network(k)  PROVE CallsFit'
  BY <1>13, ClientAssumption DEF Network, ConnectionReset, ConnectionLost
<1> QED  BY <1>1, <1>2, <1>3, <1>4, <1>5, <1>6, <1>7, <1>8, <1>9, <1>10, <1>11, <1>12, <1>13 DEF
    ClientStep

(* A client lets go of what it has, and its connection, if any, is gone.        *)
LetsGo(k) ==
  /\ socket'[k] \notin Conns
  /\ \A j \in Clients : j = k \/ socket'[j] = socket[j]
  /\ \A c \in Conns : IF c = socket[k] THEN peer'[c] # "open" ELSE peer'[c] = peer[c]

LEMMA EndsPart ==
  ASSUME EndsMeet, NEW k \in Clients, LetsGo(k)
  PROVE  EndsMeet'
<1> USE DEF EndsMeet, Bound, LetsGo
<1>1. ASSUME NEW j \in Clients, socket'[j] \in Conns  PROVE peer'[socket'[j]] = "open"
  <2>1. j # k /\ socket'[j] = socket[j]
    BY <1>1
  <2>2. socket[j] # socket[k]
    BY <1>1, <2>1
  <2> QED  BY <1>1, <2>1, <2>2
<1>2. ASSUME NEW i \in Clients, NEW j \in Clients, socket'[j] \in Conns, socket'[i] = socket'[j]
      PROVE  i = j
  <2>1. i # k /\ j # k /\ socket'[i] = socket[i] /\ socket'[j] = socket[j]
    BY <1>2
  <2> QED  BY <1>2, <2>1
<1>3. ASSUME NEW c \in Conns, peer'[c] = "open"  PROVE \E j \in Clients : socket'[j] = c
  <2>1. c # socket[k] /\ peer[c] = "open"
    BY <1>3
  <2>2. PICK j \in Clients : socket[j] = c
    BY <2>1
  <2>3. socket'[j] = c
    BY <2>1, <2>2
  <2> QED  BY <2>3
<1> QED  BY <1>1, <1>2, <1>3

(* A client without a connection takes one that nobody has.                   *)
Takes(k, c) ==
  /\ peer[c] # "open" /\ socket[k] \notin Conns
  /\ socket'[k] = c /\ \A j \in Clients : j = k \/ socket'[j] = socket[j]
  /\ \A d \in Conns : IF d = c THEN peer'[d] = "open" ELSE peer'[d] = peer[d]

LEMMA EndsJoin ==
  ASSUME EndsMeet, NEW k \in Clients, NEW c \in Conns, Takes(k, c)
  PROVE  EndsMeet'
<1> USE DEF EndsMeet, Bound, Takes
<1>1. \A j \in Clients : j = k \/ socket[j] # c
  OBVIOUS
<1>2. ASSUME NEW j \in Clients, socket'[j] \in Conns  PROVE peer'[socket'[j]] = "open"
  BY <1>2
<1>3. ASSUME NEW i \in Clients, NEW j \in Clients, socket'[j] \in Conns, socket'[i] = socket'[j]
      PROVE  i = j
  <2>1. CASE socket'[j] = c
    BY <1>1, <1>3, <2>1
  <2>2. CASE socket'[j] # c
    <3>1. i # k /\ j # k /\ socket'[i] = socket[i] /\ socket'[j] = socket[j]
      BY <1>3, <2>2
    <3>2. socket[j] \in Conns /\ socket[i] = socket[j]
      BY <1>3, <3>1
    <3> QED  BY <3>2
  <2> QED  BY <2>1, <2>2
<1>4. ASSUME NEW d \in Conns, peer'[d] = "open"  PROVE \E j \in Clients : socket'[j] = d
  <2>1. CASE d = c
    BY <2>1
  <2>2. CASE d # c
    <3>1. PICK j \in Clients : socket[j] = d
      BY <1>4, <2>2
    <3>2. socket'[j] = d
      BY <3>1
    <3> QED  BY <3>2
  <2> QED  BY <2>1, <2>2
<1> QED  BY <1>2, <1>3, <1>4

(* The two ends *)
LEMMA EndsMeetClient ==
  ASSUME SystemInv, NEW k \in Clients, ClientStep(k) \/ Network(k)
  PROVE  EndsMeet'
<1> USE DEF Back, Bound, CloseBound, CloseClient, vars, listVars, poolVars, linkVars, SystemInv,
    ClientInv, ClientTypes, EndsMeet, FreeAreEmpty, FreeIsEmpty, IndInv, TypeOK, Unusable,
    Closed, Unbound, Dead, Lost, PeerConnect, PeerSend, PeerReceive, PeerGone
<1>1. ASSUME Construct(k)  PROVE EndsMeet'
  BY <1>1 DEF Construct
<1>2. ASSUME Destroy(k)  PROVE EndsMeet'
  <2>1. \A c \in Conns : IF c = socket[k] THEN peer'[c] # "open" ELSE peer'[c] = peer[c]
    BY <1>2, ClientAssumption DEF Destroy
  <2>2. socket'[k] \notin Conns /\ \A j \in Clients : j = k \/ socket'[j] = socket[j]
    BY <1>2, ClientAssumption DEF Destroy
  <2>3. EndsMeet
    OBVIOUS
  <2>4. LetsGo(k)
    BY <2>1, <2>2 DEF LetsGo
  <2> HIDE DEF EndsMeet
  <2> QED  BY <2>3, <2>4, EndsPart
<1>3. ASSUME LoadConfig(k)  PROVE EndsMeet'
  BY <1>3 DEF LoadConfig
<1>4. ASSUME Connect(k)  PROVE EndsMeet'
  <2>1. PICK c \in Conns : PeerConnect(c) /\ socket' = [socket EXCEPT ![k] = c]
    BY <1>4 DEF Connect
  <2>2. peer[c] # "open" /\ socket[k] \notin Conns
    BY <1>4, <2>1, ClientAssumption DEF Connect
  <2>3. socket'[k] = c /\ \A j \in Clients : j = k \/ socket'[j] = socket[j]
    BY <2>1
  <2>4. \A d \in Conns : IF d = c THEN peer'[d] = "open" ELSE peer'[d] = peer[d]
    BY <2>1
  <2>5. EndsMeet
    OBVIOUS
  <2>6. Takes(k, c)
    BY <2>2, <2>3, <2>4 DEF Takes
  <2> HIDE DEF EndsMeet
  <2> QED  BY <2>5, <2>6, EndsJoin
<1>5. ASSUME ConnectError(k)  PROVE EndsMeet'
  <2>1. \A c \in Conns : IF c = socket[k] THEN peer'[c] # "open" ELSE peer'[c] = peer[c]
    BY <1>5, ClientAssumption DEF ConnectError
  <2>2. socket'[k] \notin Conns /\ \A j \in Clients : j = k \/ socket'[j] = socket[j]
    BY <1>5, ClientAssumption DEF ConnectError
  <2>3. EndsMeet
    OBVIOUS
  <2>4. LetsGo(k)
    BY <2>1, <2>2 DEF LetsGo
  <2> HIDE DEF EndsMeet
  <2> QED  BY <2>3, <2>4, EndsPart
<1>6. ASSUME Registered(k)  PROVE EndsMeet'
  BY <1>6 DEF Registered
<1>7. ASSUME RegisterError(k)  PROVE EndsMeet'
  BY <1>7 DEF RegisterError
<1>8. ASSUME Disconnect(k)  PROVE EndsMeet'
  <2>1. \A c \in Conns : IF c = socket[k] THEN peer'[c] # "open" ELSE peer'[c] = peer[c]
    BY <1>8, ClientAssumption DEF Disconnect
  <2>2. socket'[k] \notin Conns /\ \A j \in Clients : j = k \/ socket'[j] = socket[j]
    BY <1>8, ClientAssumption DEF Disconnect
  <2>3. EndsMeet
    OBVIOUS
  <2>4. LetsGo(k)
    BY <2>1, <2>2 DEF LetsGo
  <2> HIDE DEF EndsMeet
  <2> QED  BY <2>3, <2>4, EndsPart
<1>9. ASSUME NEW a \in Areas, GetTargets(k, a)  PROVE EndsMeet'
  BY <1>9 DEF GetTargets
<1>10. ASSUME Write(k)  PROVE EndsMeet'
  BY <1>10 DEF Write
<1>11. ASSUME Answered(k)  PROVE EndsMeet'
  BY <1>11 DEF Answered
<1>12. ASSUME RequestError(k)  PROVE EndsMeet'
  BY <1>12 DEF RequestError
<1>13. ASSUME Network(k)  PROVE EndsMeet'
  <2>1. \A c \in Conns : IF c = socket[k] THEN peer'[c] # "open" ELSE peer'[c] = peer[c]
    BY <1>13, ClientAssumption DEF Network, ConnectionReset, ConnectionLost
  <2>2. socket'[k] \notin Conns /\ \A j \in Clients : j = k \/ socket'[j] = socket[j]
    BY <1>13, ClientAssumption DEF Network, ConnectionReset, ConnectionLost
  <2>3. EndsMeet
    OBVIOUS
  <2>4. LetsGo(k)
    BY <2>1, <2>2 DEF LetsGo
  <2> HIDE DEF EndsMeet
  <2> QED  BY <2>3, <2>4, EndsPart
<1> QED  BY <1>1, <1>2, <1>3, <1>4, <1>5, <1>6, <1>7, <1>8, <1>9, <1>10, <1>11, <1>12, <1>13 DEF
    ClientStep

(* Free connections *)
LEMMA FreeClient ==
  ASSUME SystemInv, NEW k \in Clients, ClientStep(k) \/ Network(k), NEW d \in Conns
  PROVE  FreeIsEmpty(d)'
<1> USE DEF Back, Bound, CloseBound, CloseClient, vars, listVars, poolVars, linkVars, SystemInv,
    ClientInv, ClientTypes, EndsMeet, FreeAreEmpty, FreeIsEmpty, IndInv, TypeOK, PeerConnect,
    PeerSend, PeerReceive, PeerGone
<1>1. ASSUME Construct(k)  PROVE FreeIsEmpty(d)'
  BY <1>1 DEF Construct
<1>2. ASSUME Destroy(k)  PROVE FreeIsEmpty(d)'
  BY <1>2 DEF Destroy
<1>3. ASSUME LoadConfig(k)  PROVE FreeIsEmpty(d)'
  BY <1>3 DEF LoadConfig
<1>4. ASSUME Connect(k)  PROVE FreeIsEmpty(d)'
  BY <1>4 DEF Connect
<1>5. ASSUME ConnectError(k)  PROVE FreeIsEmpty(d)'
  BY <1>5 DEF ConnectError
<1>6. ASSUME Registered(k)  PROVE FreeIsEmpty(d)'
  BY <1>6 DEF Registered
<1>7. ASSUME RegisterError(k)  PROVE FreeIsEmpty(d)'
  BY <1>7 DEF RegisterError
<1>8. ASSUME Disconnect(k)  PROVE FreeIsEmpty(d)'
  BY <1>8 DEF Disconnect
<1>9. ASSUME NEW a \in Areas, GetTargets(k, a)  PROVE FreeIsEmpty(d)'
  BY <1>9 DEF GetTargets
<1>10. ASSUME Write(k)  PROVE FreeIsEmpty(d)'
  BY <1>10 DEF Write
<1>11. ASSUME Answered(k)  PROVE FreeIsEmpty(d)'
  BY <1>11 DEF Answered
<1>12. ASSUME RequestError(k)  PROVE FreeIsEmpty(d)'
  BY <1>12 DEF RequestError
<1>13. ASSUME Network(k)  PROVE FreeIsEmpty(d)'
  BY <1>13 DEF Network, ConnectionReset, ConnectionLost
<1> QED  BY <1>1, <1>2, <1>3, <1>4, <1>5, <1>6, <1>7, <1>8, <1>9, <1>10, <1>11, <1>12, <1>13 DEF
    ClientStep

(* The server's end *)
LEMMA ServerEndClient ==
  ASSUME SystemInv, NEW k \in Clients, ClientStep(k) \/ Network(k), NEW d \in Conns
  PROVE  ServerEnd(d)'
<1> USE DEF Back, Bound, CloseBound, CloseClient, vars, listVars, poolVars, linkVars, SystemInv,
    ClientInv, ClientTypes, FreeAreEmpty, FreeIsEmpty, ServerEnds, ServerEnd, IndInv,
    FreshConnections, TypeOK, PeerConnect, PeerSend, PeerReceive, PeerGone
<1>1. ASSUME Construct(k)  PROVE ServerEnd(d)'
  BY <1>1 DEF Construct
<1>2. ASSUME Destroy(k)  PROVE ServerEnd(d)'
  BY <1>2 DEF Destroy
<1>3. ASSUME LoadConfig(k)  PROVE ServerEnd(d)'
  BY <1>3 DEF LoadConfig
<1>4. ASSUME Connect(k)  PROVE ServerEnd(d)'
  BY <1>4 DEF Connect
<1>5. ASSUME ConnectError(k)  PROVE ServerEnd(d)'
  BY <1>5 DEF ConnectError
<1>6. ASSUME Registered(k)  PROVE ServerEnd(d)'
  BY <1>6 DEF Registered
<1>7. ASSUME RegisterError(k)  PROVE ServerEnd(d)'
  BY <1>7 DEF RegisterError
<1>8. ASSUME Disconnect(k)  PROVE ServerEnd(d)'
  BY <1>8 DEF Disconnect
<1>9. ASSUME NEW a \in Areas, GetTargets(k, a)  PROVE ServerEnd(d)'
  BY <1>9 DEF GetTargets
<1>10. ASSUME Write(k)  PROVE ServerEnd(d)'
  BY <1>10 DEF Write
<1>11. ASSUME Answered(k)  PROVE ServerEnd(d)'
  BY <1>11 DEF Answered
<1>12. ASSUME RequestError(k)  PROVE ServerEnd(d)'
  BY <1>12 DEF RequestError
<1>13. ASSUME Network(k)  PROVE ServerEnd(d)'
  BY <1>13 DEF Network, ConnectionReset, ConnectionLost
<1> QED  BY <1>1, <1>2, <1>3, <1>4, <1>5, <1>6, <1>7, <1>8, <1>9, <1>10, <1>11, <1>12, <1>13 DEF
    ClientStep

(* A step of one client leaves the others their sockets. *)
LEMMA OthersKeep ==
  ASSUME SystemInv, NEW k \in Clients, ClientStep(k) \/ Network(k), NEW j \in Clients, j # k
  PROVE  socket'[j] = socket[j]
<1> USE DEF Back, Bound, CloseBound, CloseClient, vars, listVars, poolVars, linkVars, SystemInv,
    ClientInv, ClientTypes
<1>1. ASSUME Construct(k)  PROVE socket'[j] = socket[j]
  BY <1>1 DEF Construct
<1>2. ASSUME Destroy(k)  PROVE socket'[j] = socket[j]
  BY <1>2 DEF Destroy
<1>3. ASSUME LoadConfig(k)  PROVE socket'[j] = socket[j]
  BY <1>3 DEF LoadConfig
<1>4. ASSUME Connect(k)  PROVE socket'[j] = socket[j]
  BY <1>4 DEF Connect
<1>5. ASSUME ConnectError(k)  PROVE socket'[j] = socket[j]
  BY <1>5 DEF ConnectError
<1>6. ASSUME Registered(k)  PROVE socket'[j] = socket[j]
  BY <1>6 DEF Registered
<1>7. ASSUME RegisterError(k)  PROVE socket'[j] = socket[j]
  BY <1>7 DEF RegisterError
<1>8. ASSUME Disconnect(k)  PROVE socket'[j] = socket[j]
  BY <1>8 DEF Disconnect
<1>9. ASSUME NEW a \in Areas, GetTargets(k, a)  PROVE socket'[j] = socket[j]
  BY <1>9 DEF GetTargets
<1>10. ASSUME Write(k)  PROVE socket'[j] = socket[j]
  BY <1>10 DEF Write
<1>11. ASSUME Answered(k)  PROVE socket'[j] = socket[j]
  BY <1>11 DEF Answered
<1>12. ASSUME RequestError(k)  PROVE socket'[j] = socket[j]
  BY <1>12 DEF RequestError
<1>13. ASSUME Network(k)  PROVE socket'[j] = socket[j]
  BY <1>13 DEF Network, ConnectionReset, ConnectionLost
<1> QED  BY <1>1, <1>2, <1>3, <1>4, <1>5, <1>6, <1>7, <1>8, <1>9, <1>10, <1>11, <1>12, <1>13 DEF
    ClientStep

(* The exchanges of the other clients *)
LEMMA OtherExchanges ==
  ASSUME SystemInv, NEW k \in Clients, ClientStep(k) \/ Network(k), NEW j \in Clients, j # k, Bound(j)
  PROVE  Same(socket[j]) /\ UNCHANGED <<call[j], socket[j], connected[j], asked[j]>>
<1> USE DEF Back, Bound, CloseBound, CloseClient, vars, listVars, poolVars, linkVars, SystemInv,
    ClientInv, ClientTypes, EndsMeet, FreeAreEmpty, FreeIsEmpty, IndInv, TypeOK, Same, Handling,
    Joining, PeerConnect, PeerSend, PeerReceive, PeerGone
<1>1. ASSUME Construct(k)
      PROVE  Same(socket[j]) /\ UNCHANGED <<call[j], socket[j], connected[j], asked[j]>>
  BY <1>1 DEF Construct
<1>2. ASSUME Destroy(k)
      PROVE  Same(socket[j]) /\ UNCHANGED <<call[j], socket[j], connected[j], asked[j]>>
  BY <1>2 DEF Destroy
<1>3. ASSUME LoadConfig(k)
      PROVE  Same(socket[j]) /\ UNCHANGED <<call[j], socket[j], connected[j], asked[j]>>
  BY <1>3 DEF LoadConfig
<1>4. ASSUME Connect(k)
      PROVE  Same(socket[j]) /\ UNCHANGED <<call[j], socket[j], connected[j], asked[j]>>
  <2>1. PICK c \in Conns : PeerConnect(c)
    BY <1>4 DEF Connect
  <2>2. peer[c] # "open" /\ socket[j] # c
    BY <2>1
  <2> QED  BY <1>4, <2>1, <2>2 DEF Connect
<1>5. ASSUME ConnectError(k)
      PROVE  Same(socket[j]) /\ UNCHANGED <<call[j], socket[j], connected[j], asked[j]>>
  BY <1>5 DEF ConnectError
<1>6. ASSUME Registered(k)
      PROVE  Same(socket[j]) /\ UNCHANGED <<call[j], socket[j], connected[j], asked[j]>>
  BY <1>6 DEF Registered
<1>7. ASSUME RegisterError(k)
      PROVE  Same(socket[j]) /\ UNCHANGED <<call[j], socket[j], connected[j], asked[j]>>
  BY <1>7 DEF RegisterError
<1>8. ASSUME Disconnect(k)
      PROVE  Same(socket[j]) /\ UNCHANGED <<call[j], socket[j], connected[j], asked[j]>>
  BY <1>8 DEF Disconnect
<1>9. ASSUME NEW a \in Areas, GetTargets(k, a)
      PROVE  Same(socket[j]) /\ UNCHANGED <<call[j], socket[j], connected[j], asked[j]>>
  BY <1>9 DEF GetTargets
<1>10. ASSUME Write(k)
       PROVE  Same(socket[j]) /\ UNCHANGED <<call[j], socket[j], connected[j], asked[j]>>
  BY <1>10 DEF Write
<1>11. ASSUME Answered(k)
       PROVE  Same(socket[j]) /\ UNCHANGED <<call[j], socket[j], connected[j], asked[j]>>
  BY <1>11 DEF Answered
<1>12. ASSUME RequestError(k)
       PROVE  Same(socket[j]) /\ UNCHANGED <<call[j], socket[j], connected[j], asked[j]>>
  BY <1>12 DEF RequestError
<1>13. ASSUME Network(k)
       PROVE  Same(socket[j]) /\ UNCHANGED <<call[j], socket[j], connected[j], asked[j]>>
  BY <1>13 DEF Network, ConnectionReset, ConnectionLost
<1> QED  BY <1>1, <1>2, <1>3, <1>4, <1>5, <1>6, <1>7, <1>8, <1>9, <1>10, <1>11, <1>12, <1>13 DEF
    ClientStep

(* The exchange of the client itself *)
LEMMA OwnExchange ==
  ASSUME SystemInv, NEW k \in Clients, ClientStep(k) \/ Network(k)
  PROVE  Bound(k)' => Exchange(k)'
<1> USE DEF Back, Bound, CloseBound, CloseClient, vars, listVars, poolVars, linkVars, SystemInv,
    ClientInv, ClientTypes, CallsFit, Exchanges, IndInv, TypeOK
<1> DEFINE c == socket[k]
<1>1. ASSUME Construct(k)  PROVE Bound(k)' => Exchange(k)'
  <2>1. inbox' = inbox /\ outbox' = outbox /\ lateOut' = lateOut /\ clients' = clients /\ socket'[k] = c
    BY <1>1 DEF Construct
  <2>2. InHand(c)' = InHand(c) /\ Joining(c)' = Joining(c)
    BY <1>1 DEF Construct, InHand, Joining
  <2> QED  BY <1>1, <2>1, <2>2 DEF Construct, Exchange, Silent, NoneIn
<1>2. ASSUME Destroy(k)  PROVE Bound(k)' => Exchange(k)'
  <2>1. socket'[k] \notin Conns
    BY <1>2, ClientAssumption DEF Destroy, Unusable, Closed, Unbound, Dead, Lost
  <2> QED  BY <2>1
<1>3. ASSUME LoadConfig(k)  PROVE Bound(k)' => Exchange(k)'
  <2>1. inbox' = inbox /\ outbox' = outbox /\ lateOut' = lateOut /\ clients' = clients /\ socket'[k] = c
    BY <1>3 DEF LoadConfig
  <2>2. InHand(c)' = InHand(c) /\ Joining(c)' = Joining(c)
    BY <1>3 DEF LoadConfig, InHand, Joining
  <2> QED  BY <1>3, <2>1, <2>2 DEF LoadConfig, Exchange, Silent, NoneIn
<1>4. ASSUME Connect(k)  PROVE Bound(k)' => Exchange(k)'
  <2>1. PICK d \in Conns : PeerConnect(d) /\ socket' = [socket EXCEPT ![k] = d]
    BY <1>4 DEF Connect
  <2>2. inbox'[d] = << >> /\ outbox'[d] = << >> /\ lateOut'[d] = << >> /\ socket'[k] = d
    BY <2>1 DEF PeerConnect, FreeAreEmpty, FreeIsEmpty
  <2>3. InHand(d)' = {}
    BY <2>1 DEF PeerConnect, InHand, FreshConnections
  <2>4. ~connected'[k]
    BY <1>4 DEF Connect
  <2> QED  BY <2>2, <2>3, <2>4 DEF Exchange, NoneIn
<1>5. ASSUME ConnectError(k)  PROVE Bound(k)' => Exchange(k)'
  <2>1. socket'[k] \notin Conns
    BY <1>5, ClientAssumption DEF ConnectError, Unusable, Closed, Unbound, Dead, Lost
  <2> QED  BY <2>1
<1>6. ASSUME Registered(k)  PROVE Bound(k)' => Exchange(k)'
  <2>1. /\ outbox[c] # << >> /\ NoneIn(c) /\ ~Joining(c)
        /\ \/ outbox[c] = <<Message("TE_RegisterFail")>>
           \/ outbox[c] = <<Message("TE_RegisterSuccess")>> /\ c \in clients
    BY <1>6 DEF Registered, PeerReceive, Exchange
  <2>2. Message("TE_RegisterFail") \in Replies /\ Message("TE_RegisterSuccess") \in Replies
    BY MessageType
  <2>3. outbox'[c] = Tail(outbox[c]) /\ socket' = socket /\ call'[k] = "idle"
    BY <1>6 DEF Registered, PeerReceive
  <2>4. outbox'[c] = << >>
    BY <2>1, <2>2, <2>3, OneReply
  <2>5. connected'[k] => c \in clients
    <3>1. CASE outbox[c] = <<Message("TE_RegisterFail")>>
      <4>1. Head(outbox[c]) = Message("TE_RegisterFail")
        BY <2>2, <3>1, OneReply
      <4> QED  BY <1>6, <4>1 DEF Registered, Message
    <3> QED  BY <2>1, <3>1
  <2>6. NoneIn(c)' = NoneIn(c) /\ Joining(c)' = Joining(c) /\ clients' = clients
    BY <1>6 DEF Registered, PeerReceive, NoneIn, InHand, Joining
  <2> QED  BY <2>1, <2>3, <2>4, <2>5, <2>6 DEF Exchange, Silent
<1>7. ASSUME RegisterError(k)  PROVE Bound(k)' => Exchange(k)'
  <2>1. inbox' = inbox /\ outbox' = outbox /\ lateOut' = lateOut /\ clients' = clients /\ socket'[k] = c
    BY <1>7 DEF RegisterError
  <2>2. InHand(c)' = InHand(c) /\ Joining(c)' = Joining(c)
    BY <1>7 DEF RegisterError, InHand, Joining
  <2> QED  BY <1>7, <2>1, <2>2 DEF RegisterError, Exchange, Silent, NoneIn
<1>8. ASSUME Disconnect(k)  PROVE Bound(k)' => Exchange(k)'
  <2>1. socket'[k] \notin Conns
    BY <1>8, ClientAssumption DEF Disconnect, Unusable, Closed, Unbound, Dead, Lost
  <2> QED  BY <2>1
<1>9. ASSUME NEW a \in Areas, GetTargets(k, a)  PROVE Bound(k)' => Exchange(k)'
  <2>1. inbox' = inbox /\ outbox' = outbox /\ lateOut' = lateOut /\ clients' = clients /\ socket'[k] = c
    BY <1>9 DEF GetTargets
  <2>2. InHand(c)' = InHand(c) /\ Joining(c)' = Joining(c)
    BY <1>9 DEF GetTargets, InHand, Joining
  <2> QED  BY <1>9, <2>1, <2>2 DEF GetTargets, Exchange, Silent, NoneIn
<1>10. ASSUME Write(k)  PROVE Bound(k)' => Exchange(k)'
  <2>1. connected[k] /\ asked[k] \in Areas /\ c \in clients /\ ~Joining(c) /\ Silent(c)
    BY <1>10 DEF Write, Exchange, CallsFit
  <2>2. PICK l \in {asked[k], Malformed} : PeerSend(c, l)
    BY <1>10 DEF Write
  <2>3. inbox'[c] = <<l>>
    BY <2>1, <2>2, OneLine DEF PeerSend, Silent, NoneIn, Lines
  <2>4. /\ InHand(c)' = InHand(c) /\ Joining(c)' = Joining(c)
        /\ clients' = clients /\ outbox' = outbox /\ lateOut' = lateOut
    <3>1. /\ at' = at /\ cur' = cur /\ sock' = sock /\ clients' = clients /\ outbox' = outbox /\ lateOut' = lateOut
          /\ socket' = socket
      BY <1>10, <2>2 DEF Write, PeerSend
    <3> QED  BY <3>1 DEF InHand, Joining
  <2>5. OneFor(c, asked[k])'
    BY <1>10, <2>1, <2>3, <2>4 DEF Write, OneFor, Silent, NoneIn
  <2>6. socket' = socket /\ asked' = asked /\ call'[k] = "waiting"
    BY <1>10 DEF Write
  <2> QED  BY <2>1, <2>4, <2>5, <2>6 DEF Exchange
<1>11. ASSUME Answered(k)  PROVE Bound(k)' => Exchange(k)'
  <2>1. connected[k] /\ c \in clients /\ ~Joining(c) /\ OneFor(c, asked[k]) /\ asked[k] \in Areas
    BY <1>11 DEF Answered, Exchange, CallsFit
  <2>2. PICK m \in {TargetsList(asked[k]), Message("TE_RequestFail")} : outbox[c] = <<m>>
    BY <1>11, <2>1 DEF Answered, OneFor, PeerReceive
  <2>3. m \in Replies /\ NoneIn(c)
    BY <1>11, <2>1, MessageType DEF Answered, OneFor, PeerReceive, NoneIn
  <2>4. outbox'[c] = << >> /\ socket' = socket /\ call'[k] = "idle" /\ connected' = connected
    BY <1>11, <2>2, <2>3, OneReply DEF Answered, PeerReceive
  <2>5. NoneIn(c)' = NoneIn(c) /\ Joining(c)' = Joining(c) /\ clients' = clients
    BY <1>11 DEF Answered, PeerReceive, NoneIn, InHand, Joining
  <2> QED  BY <2>1, <2>3, <2>4, <2>5 DEF Exchange, Silent
<1>12. ASSUME RequestError(k)  PROVE Bound(k)' => Exchange(k)'
  <2>1. socket'[k] \notin Conns
    BY <1>12, ClientAssumption DEF RequestError, Unusable, Closed, Unbound, Dead, Lost
  <2> QED  BY <2>1
<1>13. ASSUME Network(k)  PROVE Bound(k)' => Exchange(k)'
  <2>1. socket'[k] \notin Conns
    BY <1>13, ClientAssumption DEF Network, ConnectionReset, ConnectionLost, Unusable, Closed, Unbound, Dead, Lost
  <2> QED  BY <2>1
<1> QED  BY <1>1, <1>2, <1>3, <1>4, <1>5, <1>6, <1>7, <1>8, <1>9, <1>10, <1>11, <1>12, <1>13 DEF
    ClientStep

-----------------------------------------------------------------------------
LEMMA SystemStart == SystemInit => SystemInv
<1> SUFFICES ASSUME SystemInit  PROVE SystemInv
  OBVIOUS
<1>1. IndInv
  BY InitInv DEF SystemInit
<1>2. ClientTypes /\ CallsFit
  BY DEF SystemInit, ClientTypes, CallsFit, Calls, Unusable
<1>3. \A k \in Clients : ~Bound(k)
  BY ClientAssumption DEF SystemInit, Bound, Unusable
<1>4. EndsMeet
  BY <1>3 DEF SystemInit, Init, Fresh, EndsMeet
<1>5. FreeAreEmpty /\ ServerEnds
  BY DEF SystemInit, Init, Fresh, FreeAreEmpty, FreeIsEmpty, ServerEnds, ServerEnd
<1>6. Exchanges
  BY <1>3 DEF Exchanges
<1> QED  BY <1>1, <1>2, <1>4, <1>5, <1>6 DEF SystemInv, ClientInv

(* Every step of the system is a step of the running server, of a peer, or     *)
(* neither.                                                                   *)
LEMMA SystemStepMaps == SystemInv /\ [SystemNext]_systemVars => [Next]_vars
<1>1. ASSUME ServerNext  PROVE [Next]_vars
  BY <1>1 DEF Next
<1>2. ASSUME NEW c \in Conns, Release(c)  PROVE [Next]_vars
  BY <1>2 DEF Next, PeerNext
<1>3. ASSUME SystemInv, NEW k \in Clients, ClientStep(k) \/ Network(k)  PROVE [Next]_vars
  BY <1>3, ClientStepIsPeerStep
<1>4. UNCHANGED systemVars => [Next]_vars
  BY DEF systemVars
<1> QED  BY <1>1, <1>2, <1>3, <1>4 DEF SystemNext

LEMMA SystemStep == SystemInv /\ [SystemNext]_systemVars => SystemInv'
<1> SUFFICES ASSUME SystemInv, [SystemNext]_systemVars  PROVE SystemInv'
  OBVIOUS
<1>1. IndInv'
  BY SystemStepMaps, NextInv DEF SystemInv
<1>2. ASSUME ServerStep, UNCHANGED clientVars  PROVE ClientInv'
  <2>1. ClientTypes' /\ CallsFit'
    BY <1>2 DEF SystemInv, ClientInv, ClientTypes, CallsFit, clientVars
  <2>2. EndsMeet'
    BY <1>2, EndsMeetServer
  <2>3. FreeAreEmpty' /\ ServerEnds'
    BY <1>2, FreeServer, ServerEndServer DEF FreeAreEmpty, ServerEnds
  <2>4. ASSUME NEW k \in Clients, Bound(k)'  PROVE Exchange(k)'
    <3>1. Bound(k)
      BY <1>2, <2>4 DEF Bound, clientVars
    <3> QED  BY <1>2, <3>1, ExchangeServer
  <2>5. Exchanges'
    BY <2>4 DEF Exchanges
  <2> QED  BY <2>1, <2>2, <2>3, <2>5 DEF ClientInv
<1>3. ASSUME NEW k \in Clients, ClientStep(k) \/ Network(k)  PROVE ClientInv'
  <2>1. ClientTypes' /\ CallsFit' /\ EndsMeet'
    BY <1>3, TypesClient, CallsClient, EndsMeetClient
  <2>2. FreeAreEmpty' /\ ServerEnds'
    BY <1>3, FreeClient, ServerEndClient DEF FreeAreEmpty, ServerEnds
  <2>3. ASSUME NEW j \in Clients, j # k, Bound(j)'  PROVE Exchange(j)'
    <3>1. socket'[j] = socket[j]
      BY <1>3, <2>3, OthersKeep
    <3>2. Bound(j)
      BY <2>3, <3>1 DEF Bound
    <3>3. Exchange(j)
      BY <3>2 DEF SystemInv, ClientInv, Exchanges
    <3> QED  BY <1>3, <2>3, <3>2, <3>3, OtherExchanges, Unaffected
  <2>4. Bound(k)' => Exchange(k)'
    BY <1>3, OwnExchange
  <2>5. Exchanges'
    BY <2>3, <2>4 DEF Exchanges
  <2> QED  BY <2>1, <2>2, <2>5 DEF ClientInv
<1>4. ASSUME UNCHANGED systemVars  PROVE ClientInv'
  <2> USE <1>4 DEF systemVars, vars, listVars, poolVars, linkVars, clientVars, SystemInv, ClientInv
  <2>1. ClientTypes' /\ CallsFit' /\ EndsMeet'
    BY DEF ClientTypes, CallsFit, EndsMeet, Bound
  <2>2. FreeAreEmpty' /\ ServerEnds'
    BY DEF FreeAreEmpty, FreeIsEmpty, ServerEnds, ServerEnd
  <2>3. \A k \in Clients : Same(socket[k])
    BY DEF Same, Handling, Joining
  <2>4. Exchanges'
    BY <2>3, Unaffected DEF Exchanges, Bound
  <2> QED  BY <2>1, <2>2, <2>4
<1> QED  BY <1>1, <1>2, <1>3, <1>4 DEF SystemInv, SystemNext, ServerStep

(* The inductive invariant of the server and its clients.                     *)
THEOREM SystemInvariant == SystemSpec => []SystemInv
<1> QED  BY SystemStart, SystemStep, PTL DEF SystemSpec

(* The clients of Client.cpp are peers of the server as TEServer lets peers    *)
(* be, and less free than those: every behaviour of the system is one of the  *)
(* running server, and what is proved of the server holds beside its clients. *)
THEOREM ClientsArePeers == SystemSpec => Spec
<1>1. SystemInit => Init
  BY DEF SystemInit
<1> QED  BY <1>1, SystemStepMaps, SystemInvariant, PTL DEF SystemSpec, Spec

(* A client that believes it is connected is in the server's list or its       *)
(* connection is broken, and no two clients share a connection.                *)
THEOREM ConnectedRegistered == SystemSpec => []ConnectedAreRegistered
<1>1. SystemInv => ConnectedAreRegistered
  <2> SUFFICES ASSUME SystemInv  PROVE ConnectedAreRegistered
    OBVIOUS
  <2>1. ASSUME NEW k \in Clients, connected[k]  PROVE socket[k] \in clients \cup {Dead, Lost}
    BY <2>1 DEF SystemInv, ClientInv, CallsFit, Exchanges, Exchange, Bound
  <2>2. ASSUME NEW k \in Clients, Bound(k), NEW j \in Clients \ {k}  PROVE socket[j] # socket[k]
    BY <2>2 DEF SystemInv, ClientInv, EndsMeet
  <2> QED  BY <2>1, <2>2 DEF ConnectedAreRegistered
<1> QED  BY <1>1, SystemInvariant, PTL

(* A place of the server is held by a live client object, or is on its way     *)
(* back, or lost: a client in the list has its object on the other end or has *)
(* gone, in order, by a reset or without a word.                              *)
THEOREM PlacesHeld == SystemSpec => []PlacesHeldByClients
<1>1. SystemInv => PlacesHeldByClients
  <2> SUFFICES ASSUME SystemInv, NEW c \in clients, peer[c] \notin {"fin", "rst", "lost"}
               PROVE  \E k \in Clients : socket[k] = c
    BY DEF PlacesHeldByClients
  <2>1. c \in Conns /\ peer[c] \in {"none", "open"}
    BY DEF SystemInv, IndInv, TypeOK
  <2>2. sock[c] # "free"
    BY <2>1 DEF SystemInv, IndInv, FreshConnections
  <2>3. peer[c] = "open"
    BY <2>1, <2>2 DEF SystemInv, ClientInv, FreeAreEmpty, FreeIsEmpty
  <2> QED  BY <2>1, <2>3 DEF SystemInv, ClientInv, EndsMeet
<1> QED  BY <1>1, SystemInvariant, PTL

(* Requests and answers stay in step: while a connected client waits exactly   *)
(* one message of its request is somewhere on the way, otherwise none is, and *)
(* what it can read is the answer to what it asked.                           *)
THEOREM InStep == SystemSpec => []RequestsInStep
<1>1. SystemInv => RequestsInStep
  <2> SUFFICES ASSUME SystemInv, NEW k \in Clients, connected[k], Bound(k)
               PROVE  /\ OnTheWay(socket[k]) = (IF call[k] = "waiting" THEN 1 ELSE 0)
                      /\ \A i \in DOMAIN outbox[socket[k]] :
                           outbox[socket[k]][i] \in {TargetsList(asked[k]), Message("TE_RequestFail")}
    BY DEF RequestsInStep
  <2> DEFINE c == socket[k]
  <2>1. /\ call[k] # "waiting" => Silent(c)
        /\ call[k] = "waiting" => OneFor(c, asked[k]) /\ asked[k] \in Areas
    BY DEF SystemInv, ClientInv, Exchanges, Exchange, CallsFit
  <2>2. Cardinality({}) = 0 /\ \A w : Cardinality({w}) = 1
    BY FS_EmptySet, FS_Singleton
  <2>3. InHand(c) # {} => \E w \in Workers : InHand(c) = {w}
    BY DEF SystemInv, IndInv, IteratorsValid, Serving, ReadSteps, InHand, Bound
  <2>4. Cardinality(InHand(c)) = IF InHand(c) = {} THEN 0 ELSE 1
    BY <2>2, <2>3
  <2>5. Len(<< >>) = 0 /\ DOMAIN << >> = {}
    OBVIOUS
  <2>6. \A x : Len(<<x>>) = 1 /\ DOMAIN <<x>> = {1} /\ <<x>>[1] = x
    OBVIOUS
  <2>7. CASE call[k] # "waiting"
    <3>1. inbox[c] = << >> /\ outbox[c] = << >> /\ lateOut[c] = << >> /\ InHand(c) = {}
      BY <2>1, <2>7 DEF Silent, NoneIn
    <3>2. Cardinality(InHand(c)) = 0
      BY <2>4, <3>1
    <3> QED  BY <2>5, <2>7, <3>1, <3>2 DEF OnTheWay
  <2>8. CASE call[k] = "waiting"
    <3>1. OneFor(c, asked[k])
      BY <2>1, <2>8
    <3>2. /\ inbox[c] = << >> \/ \E x : inbox[c] = <<x>>
          /\ lateOut[c] = << >> \/ \E x : lateOut[c] = <<x>>
          /\ outbox[c] = << >> \/ \E x \in {TargetsList(asked[k]), Message("TE_RequestFail")} : outbox[c] = <<x>>
      BY <3>1 DEF OneFor
    <3>3. /\ Len(inbox[c]) = IF inbox[c] = << >> THEN 0 ELSE 1
          /\ Len(lateOut[c]) = IF lateOut[c] = << >> THEN 0 ELSE 1
          /\ Len(outbox[c]) = IF outbox[c] = << >> THEN 0 ELSE 1
      BY <2>5, <2>6, <3>2
    <3>4. OnTheWay(c) = 1
      <4>1. \/ InHand(c) = {} /\ outbox[c] = << >> /\ lateOut[c] = << >> /\ inbox[c] # << >>
            \/ InHand(c) # {} /\ inbox[c] = << >> /\ outbox[c] = << >> /\ lateOut[c] = << >>
            \/ InHand(c) = {} /\ inbox[c] = << >> /\ lateOut[c] = << >> /\ outbox[c] # << >>
            \/ InHand(c) = {} /\ inbox[c] = << >> /\ outbox[c] = << >> /\ lateOut[c] # << >>
        BY <2>5, <2>6, <3>1 DEF OneFor
      <4> QED  BY <2>4, <3>3, <4>1 DEF OnTheWay
    <3>5. \A i \in DOMAIN outbox[c] : outbox[c][i] \in {TargetsList(asked[k]), Message("TE_RequestFail")}
      BY <2>5, <2>6, <3>2
    <3> QED  BY <2>8, <3>4, <3>5
  <2> QED  BY <2>7, <2>8
<1> QED  BY <1>1, SystemInvariant, PTL
==================================================================================
