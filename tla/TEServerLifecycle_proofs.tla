------------------------ MODULE TEServerLifecycle_proofs ------------------------
(***************************************************************************)
(* Proofs about TEServerLifecycle for any number of threads, connections,  *)
(* starts and loads of the catalogue: nothing runs once stop() has         *)
(* returned, and the limit on clients holds through the first run, the     *)
(* stop that ends it included.                                             *)
(***************************************************************************)
EXTENDS TEServerLifecycle, Integers, TLAPS

-----------------------------------------------------------------------------
(* The inductive invariant *)

LifeTypes ==
  /\ maxConnections \in MaxChoices /\ counter \in Int /\ acceptPending \in BOOLEAN
  /\ at \in [Workers -> Steps] /\ alive \in SUBSET Workers
  /\ \A h \in completed : h.step \in {"accepted", "parse", "shutdown"}

(* A handler runs on a thread that has not returned from run(), and the holder *)
(* of the mutex is one that will let go of it.                                *)
HandlersHaveThreads ==
  /\ control = "down" => alive = {}
  /\ control # "crashed" => \A w \in Workers : at[w] # "idle" => w \in alive
  /\ mutex # NoWorker => mutex \in Workers /\ at[mutex] \in {"insert", "erase"}

Taken == {h \in completed : h.step = "accepted"}

(* Up to the end of the first run there is one accept chain: an accept that is *)
(* outstanding, one that has completed, or one that is being handled.          *)
OneChain ==
  starts <= 1 =>
    /\ \A v, w \in Accepting : v = w
    /\ \A g, h \in Taken : g = h
    /\ acceptPending => Accepting = {} /\ Taken = {}
    /\ Taken # {} => Accepting = {}

(* Nothing happens before the first start; after it, as long as there are      *)
(* threads, no client is counted past the limit, nor admitted without a place. *)
LimitKept ==
  /\ starts \in Nat
  /\ starts = 0 => /\ counter = 0 /\ ~acceptPending /\ ~acceptorOpen /\ completed = {} /\ alive = {}
                   /\ clients = {} /\ reading = {} /\ \A w \in Workers : at[w] = "idle"
  /\ starts <= 1 =>
       /\ alive # {} => counter <= maxConnections
       /\ \A w \in alive : at[w] \in {"lock_insert", "insert"} => counter < maxConnections

LifeInv == LifeTypes /\ HandlersHaveThreads /\ OneChain /\ LimitKept

-----------------------------------------------------------------------------
(* The steps of the handlers: one case for each, under what RunHandler adds.  *)

(* Types *)
LEMMA TypesStep ==
  ASSUME LifeInv, LifecycleNext
  PROVE  LifeTypes'
<1> USE DEF LifeInv, vars, listVars, poolVars, linkVars, lifeVars, controlVars, Pick, Goto,
    Return, LifeTypes, Steps, AcceptSteps, ReadSteps
<1> DEFINE Rest == UNCHANGED lifeVars
             Beside == UNCHANGED completed /\ HandlerDone
<1>1. ASSUME NEW w \in alive, NEW c \in Conns, OnAccept(w, c), Beside  PROVE LifeTypes'
  BY <1>1, LifecycleAssumption, ServerAssumption DEF OnAccept, HandlerDone
<1>2. ASSUME NEW w \in alive, NEW c \in Conns, OnRead(w, c), Beside  PROVE LifeTypes'
  BY <1>2, LifecycleAssumption, ServerAssumption DEF OnRead, HandlerDone
<1>3. ASSUME NEW w \in alive, NEW c \in Conns, OnReadClosed(w, c), Beside  PROVE LifeTypes'
  BY <1>3, LifecycleAssumption, ServerAssumption DEF OnReadClosed, HandlerDone
<1>4. ASSUME NEW w \in alive, Refuse(w), Beside  PROVE LifeTypes'
  BY <1>4, LifecycleAssumption, ServerAssumption DEF Refuse, HandlerDone
<1>5. ASSUME NEW w \in alive, Admit(w), Beside  PROVE LifeTypes'
  BY <1>5, LifecycleAssumption, ServerAssumption DEF Admit, HandlerDone
<1>6. ASSUME NEW w \in alive, Lock(w), Beside  PROVE LifeTypes'
  BY <1>6, LifecycleAssumption, ServerAssumption DEF Lock, HandlerDone
<1>7. ASSUME NEW w \in alive, Insert(w), Beside  PROVE LifeTypes'
  BY <1>7, LifecycleAssumption, ServerAssumption DEF Insert, HandlerDone
<1>8. ASSUME NEW w \in alive, InsertFailure(w), Beside  PROVE LifeTypes'
  BY <1>8, LifecycleAssumption, ServerAssumption DEF InsertFailure, HandlerDone
<1>9. ASSUME NEW w \in alive, StartRead(w), Beside  PROVE LifeTypes'
  BY <1>9, LifecycleAssumption, ServerAssumption DEF StartRead, HandlerDone
<1>10. ASSUME NEW w \in alive, Register(w), Beside  PROVE LifeTypes'
  BY <1>10, LifecycleAssumption, ServerAssumption DEF Register, HandlerDone
<1>11. ASSUME NEW w \in alive, StartAccept(w), Beside  PROVE LifeTypes'
  BY <1>11, LifecycleAssumption, ServerAssumption DEF StartAccept, HandlerDone
<1>12. ASSUME NEW w \in alive, Shutdown(w), Beside  PROVE LifeTypes'
  BY <1>12, LifecycleAssumption, ServerAssumption DEF Shutdown, HandlerDone
<1>13. ASSUME NEW w \in alive, Erase(w), Beside  PROVE LifeTypes'
  BY <1>13, LifecycleAssumption, ServerAssumption DEF Erase, HandlerDone
<1>14. ASSUME NEW w \in alive, Decrement(w), Beside  PROVE LifeTypes'
  BY <1>14, LifecycleAssumption, ServerAssumption DEF Decrement, HandlerDone
<1>15. ASSUME NEW w \in alive, RejectLine(w), Beside  PROVE LifeTypes'
  BY <1>15, LifecycleAssumption, ServerAssumption DEF RejectLine, HandlerDone
<1>16. ASSUME NEW w \in alive, ProcessRequest(w), Beside  PROVE LifeTypes'
  BY <1>16, LifecycleAssumption, ServerAssumption DEF ProcessRequest, HandlerDone
<1>17. ASSUME NEW w \in alive, Respond(w), Beside  PROVE LifeTypes'
  BY <1>17, LifecycleAssumption, ServerAssumption DEF Respond, HandlerDone
<1>18. ASSUME NEW c \in Conns, OnReadError(c), Idle, Beside  PROVE LifeTypes'
  BY <1>18, LifecycleAssumption, ServerAssumption DEF OnReadError, HandlerDone, Idle
<1>19. ASSUME NEW c \in Conns, LateWrite(c), alive # {}, Beside  PROVE LifeTypes'
  BY <1>19, LifecycleAssumption, ServerAssumption DEF LateWrite, HandlerDone
<1>20. ASSUME OnAcceptError, Idle, Beside  PROVE LifeTypes'
  BY <1>20, LifecycleAssumption, ServerAssumption DEF OnAcceptError, HandlerDone, Idle
<1>21. ASSUME NEW c \in Conns, PeerConnect(c), Rest  PROVE LifeTypes'
  BY <1>21, LifecycleAssumption, ServerAssumption DEF PeerConnect
<1>22. ASSUME NEW c \in Conns, NEW l \in Lines, PeerSend(c, l), Rest  PROVE LifeTypes'
  BY <1>22, LifecycleAssumption, ServerAssumption DEF PeerSend
<1>23. ASSUME NEW c \in Conns, PeerReceive(c), Rest  PROVE LifeTypes'
  BY <1>23, LifecycleAssumption, ServerAssumption DEF PeerReceive
<1>24. ASSUME NEW c \in Conns, NEW how \in {"fin", "rst", "lost"}, PeerGone(c, how), Rest  PROVE LifeTypes'
  BY <1>24, LifecycleAssumption, ServerAssumption DEF PeerGone
<1>25. ASSUME NEW c \in Conns, Release(c), Rest  PROVE LifeTypes'
  BY <1>25, LifecycleAssumption, ServerAssumption DEF Release
<1>26. ASSUME NEW m \in MaxChoices, LoadConfig(m)  PROVE LifeTypes'
  BY <1>26, LifecycleAssumption, ServerAssumption DEF LoadConfig
<1>27. ASSUME StartFails  PROVE LifeTypes'
  BY <1>27, LifecycleAssumption, ServerAssumption DEF StartFails
<1>28. ASSUME Start  PROVE LifeTypes'
  BY <1>28, LifecycleAssumption, ServerAssumption DEF Start
<1>29. ASSUME Stop  PROVE LifeTypes'
  BY <1>29, LifecycleAssumption, ServerAssumption DEF Stop
<1>30. ASSUME StopAcceptor  PROVE LifeTypes'
  BY <1>30, LifecycleAssumption, ServerAssumption DEF StopAcceptor
<1>31. ASSUME StopAcceptorFails  PROVE LifeTypes'
  BY <1>31, LifecycleAssumption, ServerAssumption DEF StopAcceptorFails
<1>32. ASSUME StopSockets  PROVE LifeTypes'
  BY <1>32, LifecycleAssumption, ServerAssumption DEF StopSockets, CloseSockets
<1>33. ASSUME StopClear  PROVE LifeTypes'
  BY <1>33, LifecycleAssumption, ServerAssumption DEF StopClear
<1>34. ASSUME StopService  PROVE LifeTypes'
  BY <1>34, LifecycleAssumption, ServerAssumption DEF StopService
<1>35. ASSUME StopJoin  PROVE LifeTypes'
  BY <1>35, LifecycleAssumption, ServerAssumption DEF StopJoin
<1>36. ASSUME RunCompleted  PROVE LifeTypes'
  BY <1>36, LifecycleAssumption, ServerAssumption DEF RunCompleted, HandlerDone
<1>37. ASSUME FailedRead  PROVE LifeTypes'
  BY <1>37, LifecycleAssumption, ServerAssumption DEF FailedRead, HandlerDone
<1>38. ASSUME FailedAccept  PROVE LifeTypes'
  BY <1>38, LifecycleAssumption, ServerAssumption DEF FailedAccept, HandlerDone
<1>39. ASSUME NEW w \in Workers, LeaveRun(w)  PROVE LifeTypes'
  BY <1>39, LifecycleAssumption, ServerAssumption DEF LeaveRun
<1>40. ASSUME Crash  PROVE LifeTypes'
  BY <1>40, LifecycleAssumption, ServerAssumption DEF Crash
<1> QED  BY <1>1, <1>2, <1>3, <1>4, <1>5, <1>6, <1>7, <1>8, <1>9, <1>10, <1>11, <1>12, <1>13,
    <1>14, <1>15, <1>16, <1>17, <1>18, <1>19, <1>20, <1>21, <1>22, <1>23, <1>24, <1>25, <1>26,
    <1>27, <1>28, <1>29, <1>30, <1>31, <1>32, <1>33, <1>34, <1>35, <1>36, <1>37, <1>38, <1>39,
    <1>40 DEF LifecycleNext, Control, Threads, RunHandler, Peers, Dispatch, Continue

(* A thread leaves run() only between handlers, and stop() waits for all. *)
LEMMA ThreadsStep ==
  ASSUME LifeInv, LifecycleNext
  PROVE  HandlersHaveThreads'
<1> USE DEF LifeInv, vars, listVars, poolVars, linkVars, lifeVars, controlVars, Pick, Goto,
    Return, LifeTypes, HandlersHaveThreads
<1> DEFINE Rest == UNCHANGED lifeVars
             Beside == UNCHANGED completed /\ HandlerDone
<1>1. ASSUME NEW w \in alive, NEW c \in Conns, OnAccept(w, c), Beside  PROVE HandlersHaveThreads'
  BY <1>1, ServerAssumption DEF OnAccept, HandlerDone
<1>2. ASSUME NEW w \in alive, NEW c \in Conns, OnRead(w, c), Beside  PROVE HandlersHaveThreads'
  BY <1>2, ServerAssumption DEF OnRead, HandlerDone
<1>3. ASSUME NEW w \in alive, NEW c \in Conns, OnReadClosed(w, c), Beside  PROVE HandlersHaveThreads'
  BY <1>3, ServerAssumption DEF OnReadClosed, HandlerDone
<1>4. ASSUME NEW w \in alive, Refuse(w), Beside  PROVE HandlersHaveThreads'
  BY <1>4, ServerAssumption DEF Refuse, HandlerDone
<1>5. ASSUME NEW w \in alive, Admit(w), Beside  PROVE HandlersHaveThreads'
  BY <1>5, ServerAssumption DEF Admit, HandlerDone
<1>6. ASSUME NEW w \in alive, Lock(w), Beside  PROVE HandlersHaveThreads'
  BY <1>6, ServerAssumption DEF Lock, HandlerDone
<1>7. ASSUME NEW w \in alive, Insert(w), Beside  PROVE HandlersHaveThreads'
  BY <1>7, ServerAssumption DEF Insert, HandlerDone
<1>8. ASSUME NEW w \in alive, InsertFailure(w), Beside  PROVE HandlersHaveThreads'
  BY <1>8, ServerAssumption DEF InsertFailure, HandlerDone
<1>9. ASSUME NEW w \in alive, StartRead(w), Beside  PROVE HandlersHaveThreads'
  BY <1>9, ServerAssumption DEF StartRead, HandlerDone
<1>10. ASSUME NEW w \in alive, Register(w), Beside  PROVE HandlersHaveThreads'
  BY <1>10, ServerAssumption DEF Register, HandlerDone
<1>11. ASSUME NEW w \in alive, StartAccept(w), Beside  PROVE HandlersHaveThreads'
  BY <1>11, ServerAssumption DEF StartAccept, HandlerDone
<1>12. ASSUME NEW w \in alive, Shutdown(w), Beside  PROVE HandlersHaveThreads'
  BY <1>12, ServerAssumption DEF Shutdown, HandlerDone
<1>13. ASSUME NEW w \in alive, Erase(w), Beside  PROVE HandlersHaveThreads'
  BY <1>13, ServerAssumption DEF Erase, HandlerDone
<1>14. ASSUME NEW w \in alive, Decrement(w), Beside  PROVE HandlersHaveThreads'
  BY <1>14, ServerAssumption DEF Decrement, HandlerDone
<1>15. ASSUME NEW w \in alive, RejectLine(w), Beside  PROVE HandlersHaveThreads'
  BY <1>15, ServerAssumption DEF RejectLine, HandlerDone
<1>16. ASSUME NEW w \in alive, ProcessRequest(w), Beside  PROVE HandlersHaveThreads'
  BY <1>16, ServerAssumption DEF ProcessRequest, HandlerDone
<1>17. ASSUME NEW w \in alive, Respond(w), Beside  PROVE HandlersHaveThreads'
  BY <1>17, ServerAssumption DEF Respond, HandlerDone
<1>18. ASSUME NEW c \in Conns, OnReadError(c), Idle, Beside  PROVE HandlersHaveThreads'
  BY <1>18, ServerAssumption DEF OnReadError, HandlerDone, Idle
<1>19. ASSUME NEW c \in Conns, LateWrite(c), alive # {}, Beside  PROVE HandlersHaveThreads'
  BY <1>19, ServerAssumption DEF LateWrite, HandlerDone
<1>20. ASSUME OnAcceptError, Idle, Beside  PROVE HandlersHaveThreads'
  BY <1>20, ServerAssumption DEF OnAcceptError, HandlerDone, Idle
<1>21. ASSUME NEW c \in Conns, PeerConnect(c), Rest  PROVE HandlersHaveThreads'
  BY <1>21, ServerAssumption DEF PeerConnect
<1>22. ASSUME NEW c \in Conns, NEW l \in Lines, PeerSend(c, l), Rest  PROVE HandlersHaveThreads'
  BY <1>22, ServerAssumption DEF PeerSend
<1>23. ASSUME NEW c \in Conns, PeerReceive(c), Rest  PROVE HandlersHaveThreads'
  BY <1>23, ServerAssumption DEF PeerReceive
<1>24. ASSUME NEW c \in Conns, NEW how \in {"fin", "rst", "lost"}, PeerGone(c, how), Rest  PROVE HandlersHaveThreads'
  BY <1>24, ServerAssumption DEF PeerGone
<1>25. ASSUME NEW c \in Conns, Release(c), Rest  PROVE HandlersHaveThreads'
  BY <1>25, ServerAssumption DEF Release
<1>26. ASSUME NEW m \in MaxChoices, LoadConfig(m)  PROVE HandlersHaveThreads'
  BY <1>26, ServerAssumption DEF LoadConfig
<1>27. ASSUME StartFails  PROVE HandlersHaveThreads'
  BY <1>27, ServerAssumption DEF StartFails
<1>28. ASSUME Start  PROVE HandlersHaveThreads'
  BY <1>28, ServerAssumption DEF Start
<1>29. ASSUME Stop  PROVE HandlersHaveThreads'
  BY <1>29, ServerAssumption DEF Stop
<1>30. ASSUME StopAcceptor  PROVE HandlersHaveThreads'
  BY <1>30, ServerAssumption DEF StopAcceptor
<1>31. ASSUME StopAcceptorFails  PROVE HandlersHaveThreads'
  BY <1>31, ServerAssumption DEF StopAcceptorFails
<1>32. ASSUME StopSockets  PROVE HandlersHaveThreads'
  BY <1>32, ServerAssumption DEF StopSockets, CloseSockets
<1>33. ASSUME StopClear  PROVE HandlersHaveThreads'
  BY <1>33, ServerAssumption DEF StopClear
<1>34. ASSUME StopService  PROVE HandlersHaveThreads'
  BY <1>34, ServerAssumption DEF StopService
<1>35. ASSUME StopJoin  PROVE HandlersHaveThreads'
  BY <1>35, ServerAssumption DEF StopJoin
<1>36. ASSUME RunCompleted  PROVE HandlersHaveThreads'
  BY <1>36, ServerAssumption DEF RunCompleted, HandlerDone
<1>37. ASSUME FailedRead  PROVE HandlersHaveThreads'
  BY <1>37, ServerAssumption DEF FailedRead, HandlerDone
<1>38. ASSUME FailedAccept  PROVE HandlersHaveThreads'
  BY <1>38, ServerAssumption DEF FailedAccept, HandlerDone
<1>39. ASSUME NEW w \in Workers, LeaveRun(w)  PROVE HandlersHaveThreads'
  BY <1>39, ServerAssumption DEF LeaveRun
<1>40. ASSUME Crash  PROVE HandlersHaveThreads'
  BY <1>40, ServerAssumption DEF Crash
<1> QED  BY <1>1, <1>2, <1>3, <1>4, <1>5, <1>6, <1>7, <1>8, <1>9, <1>10, <1>11, <1>12, <1>13,
    <1>14, <1>15, <1>16, <1>17, <1>18, <1>19, <1>20, <1>21, <1>22, <1>23, <1>24, <1>25, <1>26,
    <1>27, <1>28, <1>29, <1>30, <1>31, <1>32, <1>33, <1>34, <1>35, <1>36, <1>37, <1>38, <1>39,
    <1>40 DEF LifecycleNext, Control, Threads, RunHandler, Peers, Dispatch, Continue

(* on_accept hands the chain on, and stop() takes it over. *)
LEMMA ChainStep ==
  ASSUME LifeInv, LifecycleNext
  PROVE  OneChain'
<1> USE DEF LifeInv, vars, listVars, poolVars, linkVars, lifeVars, controlVars, Pick, Goto,
    Return, LifeTypes, LimitKept, OneChain, Taken, Accepting, AcceptSteps
<1> DEFINE Rest == UNCHANGED lifeVars
             Beside == UNCHANGED completed /\ HandlerDone
<1>1. ASSUME NEW w \in alive, NEW c \in Conns, OnAccept(w, c), Beside  PROVE OneChain'
  BY <1>1, ServerAssumption DEF OnAccept, HandlerDone
<1>2. ASSUME NEW w \in alive, NEW c \in Conns, OnRead(w, c), Beside  PROVE OneChain'
  BY <1>2, ServerAssumption DEF OnRead, HandlerDone
<1>3. ASSUME NEW w \in alive, NEW c \in Conns, OnReadClosed(w, c), Beside  PROVE OneChain'
  BY <1>3, ServerAssumption DEF OnReadClosed, HandlerDone
<1>4. ASSUME NEW w \in alive, Refuse(w), Beside  PROVE OneChain'
  BY <1>4, ServerAssumption DEF Refuse, HandlerDone
<1>5. ASSUME NEW w \in alive, Admit(w), Beside  PROVE OneChain'
  BY <1>5, ServerAssumption DEF Admit, HandlerDone
<1>6. ASSUME NEW w \in alive, Lock(w), Beside  PROVE OneChain'
  BY <1>6, ServerAssumption DEF Lock, HandlerDone
<1>7. ASSUME NEW w \in alive, Insert(w), Beside  PROVE OneChain'
  BY <1>7, ServerAssumption DEF Insert, HandlerDone
<1>8. ASSUME NEW w \in alive, InsertFailure(w), Beside  PROVE OneChain'
  BY <1>8, ServerAssumption DEF InsertFailure, HandlerDone
<1>9. ASSUME NEW w \in alive, StartRead(w), Beside  PROVE OneChain'
  BY <1>9, ServerAssumption DEF StartRead, HandlerDone
<1>10. ASSUME NEW w \in alive, Register(w), Beside  PROVE OneChain'
  BY <1>10, ServerAssumption DEF Register, HandlerDone
<1>11. ASSUME NEW w \in alive, StartAccept(w), Beside  PROVE OneChain'
  BY <1>11, ServerAssumption DEF StartAccept, HandlerDone
<1>12. ASSUME NEW w \in alive, Shutdown(w), Beside  PROVE OneChain'
  BY <1>12, ServerAssumption DEF Shutdown, HandlerDone
<1>13. ASSUME NEW w \in alive, Erase(w), Beside  PROVE OneChain'
  BY <1>13, ServerAssumption DEF Erase, HandlerDone
<1>14. ASSUME NEW w \in alive, Decrement(w), Beside  PROVE OneChain'
  BY <1>14, ServerAssumption DEF Decrement, HandlerDone
<1>15. ASSUME NEW w \in alive, RejectLine(w), Beside  PROVE OneChain'
  BY <1>15, ServerAssumption DEF RejectLine, HandlerDone
<1>16. ASSUME NEW w \in alive, ProcessRequest(w), Beside  PROVE OneChain'
  BY <1>16, ServerAssumption DEF ProcessRequest, HandlerDone
<1>17. ASSUME NEW w \in alive, Respond(w), Beside  PROVE OneChain'
  BY <1>17, ServerAssumption DEF Respond, HandlerDone
<1>18. ASSUME NEW c \in Conns, OnReadError(c), Idle, Beside  PROVE OneChain'
  BY <1>18, ServerAssumption DEF OnReadError, HandlerDone, Idle
<1>19. ASSUME NEW c \in Conns, LateWrite(c), alive # {}, Beside  PROVE OneChain'
  BY <1>19, ServerAssumption DEF LateWrite, HandlerDone
<1>20. ASSUME OnAcceptError, Idle, Beside  PROVE OneChain'
  BY <1>20, ServerAssumption DEF OnAcceptError, HandlerDone, Idle
<1>21. ASSUME NEW c \in Conns, PeerConnect(c), Rest  PROVE OneChain'
  BY <1>21, ServerAssumption DEF PeerConnect
<1>22. ASSUME NEW c \in Conns, NEW l \in Lines, PeerSend(c, l), Rest  PROVE OneChain'
  BY <1>22, ServerAssumption DEF PeerSend
<1>23. ASSUME NEW c \in Conns, PeerReceive(c), Rest  PROVE OneChain'
  BY <1>23, ServerAssumption DEF PeerReceive
<1>24. ASSUME NEW c \in Conns, NEW how \in {"fin", "rst", "lost"}, PeerGone(c, how), Rest  PROVE OneChain'
  BY <1>24, ServerAssumption DEF PeerGone
<1>25. ASSUME NEW c \in Conns, Release(c), Rest  PROVE OneChain'
  BY <1>25, ServerAssumption DEF Release
<1>26. ASSUME NEW m \in MaxChoices, LoadConfig(m)  PROVE OneChain'
  BY <1>26, ServerAssumption DEF LoadConfig
<1>27. ASSUME StartFails  PROVE OneChain'
  BY <1>27, ServerAssumption DEF StartFails
<1>28. ASSUME Start  PROVE OneChain'
  BY <1>28, ServerAssumption DEF Start
<1>29. ASSUME Stop  PROVE OneChain'
  BY <1>29, ServerAssumption DEF Stop
<1>30. ASSUME StopAcceptor  PROVE OneChain'
  <2>1. PICK taken \in {{}} \cup {{c} : c \in {d \in Conns : acceptorOpen /\ acceptPending /\ sock[d] = "backlog"}} :
            /\ acceptPending' = (acceptPending /\ taken = {})
            /\ completed' = completed \cup {[conn |-> c, step |-> "accepted", line |-> NoLine] : c \in taken}
    BY <1>30 DEF StopAcceptor
  <2>2. starts' = starts /\ at' = at
    BY <1>30 DEF StopAcceptor
  <2>3. CASE taken = {}
    BY <2>1, <2>2, <2>3
  <2>4. CASE taken # {}
    <3>1. PICK c \in Conns : taken = {c} /\ acceptPending
      BY <2>1, <2>4
    <3>2. ~acceptPending' /\ completed' = completed \cup {[conn |-> c, step |-> "accepted", line |-> NoLine]}
      BY <2>1, <3>1
    <3> QED  BY <2>2, <3>1, <3>2
  <2> QED  BY <2>3, <2>4
<1>31. ASSUME StopAcceptorFails  PROVE OneChain'
  BY <1>31, ServerAssumption DEF StopAcceptorFails
<1>32. ASSUME StopSockets  PROVE OneChain'
  BY <1>32, ServerAssumption DEF StopSockets, CloseSockets
<1>33. ASSUME StopClear  PROVE OneChain'
  BY <1>33, ServerAssumption DEF StopClear
<1>34. ASSUME StopService  PROVE OneChain'
  BY <1>34, ServerAssumption DEF StopService
<1>35. ASSUME StopJoin  PROVE OneChain'
  BY <1>35, ServerAssumption DEF StopJoin
<1>36. ASSUME RunCompleted  PROVE OneChain'
  BY <1>36, ServerAssumption DEF RunCompleted, HandlerDone
<1>37. ASSUME FailedRead  PROVE OneChain'
  BY <1>37, ServerAssumption DEF FailedRead, HandlerDone
<1>38. ASSUME FailedAccept  PROVE OneChain'
  BY <1>38, ServerAssumption DEF FailedAccept, HandlerDone
<1>39. ASSUME NEW w \in Workers, LeaveRun(w)  PROVE OneChain'
  BY <1>39, ServerAssumption DEF LeaveRun
<1>40. ASSUME Crash  PROVE OneChain'
  BY <1>40, ServerAssumption DEF Crash
<1> QED  BY <1>1, <1>2, <1>3, <1>4, <1>5, <1>6, <1>7, <1>8, <1>9, <1>10, <1>11, <1>12, <1>13,
    <1>14, <1>15, <1>16, <1>17, <1>18, <1>19, <1>20, <1>21, <1>22, <1>23, <1>24, <1>25, <1>26,
    <1>27, <1>28, <1>29, <1>30, <1>31, <1>32, <1>33, <1>34, <1>35, <1>36, <1>37, <1>38, <1>39,
    <1>40 DEF LifecycleNext, Control, Threads, RunHandler, Peers, Dispatch, Continue

(* The chain is what keeps a place for the client that is being admitted. *)
LEMMA LimitStep ==
  ASSUME LifeInv, LifecycleNext
  PROVE  LimitKept'
<1> USE DEF LifeInv, vars, listVars, poolVars, linkVars, lifeVars, controlVars, Pick, Goto,
    Return, LifeTypes, HandlersHaveThreads, OneChain, LimitKept, Accepting, AcceptSteps
<1> DEFINE Rest == UNCHANGED lifeVars
             Beside == UNCHANGED completed /\ HandlerDone
<1>1. ASSUME NEW w \in alive, NEW c \in Conns, OnAccept(w, c), Beside  PROVE LimitKept'
  BY <1>1, ServerAssumption DEF OnAccept, HandlerDone
<1>2. ASSUME NEW w \in alive, NEW c \in Conns, OnRead(w, c), Beside  PROVE LimitKept'
  BY <1>2, ServerAssumption DEF OnRead, HandlerDone
<1>3. ASSUME NEW w \in alive, NEW c \in Conns, OnReadClosed(w, c), Beside  PROVE LimitKept'
  BY <1>3, ServerAssumption DEF OnReadClosed, HandlerDone
<1>4. ASSUME NEW w \in alive, Refuse(w), Beside  PROVE LimitKept'
  BY <1>4, ServerAssumption DEF Refuse, HandlerDone
<1>5. ASSUME NEW w \in alive, Admit(w), Beside  PROVE LimitKept'
  BY <1>5, ServerAssumption DEF Admit, HandlerDone
<1>6. ASSUME NEW w \in alive, Lock(w), Beside  PROVE LimitKept'
  BY <1>6, ServerAssumption DEF Lock, HandlerDone
<1>7. ASSUME NEW w \in alive, Insert(w), Beside  PROVE LimitKept'
  BY <1>7, ServerAssumption DEF Insert, HandlerDone
<1>8. ASSUME NEW w \in alive, InsertFailure(w), Beside  PROVE LimitKept'
  BY <1>8, ServerAssumption DEF InsertFailure, HandlerDone
<1>9. ASSUME NEW w \in alive, StartRead(w), Beside  PROVE LimitKept'
  BY <1>9, ServerAssumption DEF StartRead, HandlerDone
<1>10. ASSUME NEW w \in alive, Register(w), Beside  PROVE LimitKept'
  BY <1>10, ServerAssumption DEF Register, HandlerDone
<1>11. ASSUME NEW w \in alive, StartAccept(w), Beside  PROVE LimitKept'
  BY <1>11, ServerAssumption DEF StartAccept, HandlerDone
<1>12. ASSUME NEW w \in alive, Shutdown(w), Beside  PROVE LimitKept'
  BY <1>12, ServerAssumption DEF Shutdown, HandlerDone
<1>13. ASSUME NEW w \in alive, Erase(w), Beside  PROVE LimitKept'
  BY <1>13, ServerAssumption DEF Erase, HandlerDone
<1>14. ASSUME NEW w \in alive, Decrement(w), Beside  PROVE LimitKept'
  BY <1>14, ServerAssumption DEF Decrement, HandlerDone
<1>15. ASSUME NEW w \in alive, RejectLine(w), Beside  PROVE LimitKept'
  BY <1>15, ServerAssumption DEF RejectLine, HandlerDone
<1>16. ASSUME NEW w \in alive, ProcessRequest(w), Beside  PROVE LimitKept'
  BY <1>16, ServerAssumption DEF ProcessRequest, HandlerDone
<1>17. ASSUME NEW w \in alive, Respond(w), Beside  PROVE LimitKept'
  BY <1>17, ServerAssumption DEF Respond, HandlerDone
<1>18. ASSUME NEW c \in Conns, OnReadError(c), Idle, Beside  PROVE LimitKept'
  BY <1>18, ServerAssumption DEF OnReadError, HandlerDone, Idle
<1>19. ASSUME NEW c \in Conns, LateWrite(c), alive # {}, Beside  PROVE LimitKept'
  BY <1>19, ServerAssumption DEF LateWrite, HandlerDone
<1>20. ASSUME OnAcceptError, Idle, Beside  PROVE LimitKept'
  BY <1>20, ServerAssumption DEF OnAcceptError, HandlerDone, Idle
<1>21. ASSUME NEW c \in Conns, PeerConnect(c), Rest  PROVE LimitKept'
  BY <1>21, ServerAssumption DEF PeerConnect
<1>22. ASSUME NEW c \in Conns, NEW l \in Lines, PeerSend(c, l), Rest  PROVE LimitKept'
  BY <1>22, ServerAssumption DEF PeerSend
<1>23. ASSUME NEW c \in Conns, PeerReceive(c), Rest  PROVE LimitKept'
  BY <1>23, ServerAssumption DEF PeerReceive
<1>24. ASSUME NEW c \in Conns, NEW how \in {"fin", "rst", "lost"}, PeerGone(c, how), Rest  PROVE LimitKept'
  BY <1>24, ServerAssumption DEF PeerGone
<1>25. ASSUME NEW c \in Conns, Release(c), Rest  PROVE LimitKept'
  BY <1>25, ServerAssumption DEF Release
<1>26. ASSUME NEW m \in MaxChoices, LoadConfig(m)  PROVE LimitKept'
  BY <1>26, ServerAssumption DEF LoadConfig
<1>27. ASSUME StartFails  PROVE LimitKept'
  BY <1>27, ServerAssumption DEF StartFails
<1>28. ASSUME Start  PROVE LimitKept'
  BY <1>28, ServerAssumption DEF Start
<1>29. ASSUME Stop  PROVE LimitKept'
  BY <1>29, ServerAssumption DEF Stop
<1>30. ASSUME StopAcceptor  PROVE LimitKept'
  BY <1>30, ServerAssumption DEF StopAcceptor
<1>31. ASSUME StopAcceptorFails  PROVE LimitKept'
  BY <1>31, ServerAssumption DEF StopAcceptorFails
<1>32. ASSUME StopSockets  PROVE LimitKept'
  BY <1>32, ServerAssumption DEF StopSockets, CloseSockets
<1>33. ASSUME StopClear  PROVE LimitKept'
  BY <1>33, ServerAssumption DEF StopClear
<1>34. ASSUME StopService  PROVE LimitKept'
  BY <1>34, ServerAssumption DEF StopService
<1>35. ASSUME StopJoin  PROVE LimitKept'
  BY <1>35, ServerAssumption DEF StopJoin
<1>36. ASSUME RunCompleted  PROVE LimitKept'
  BY <1>36, ServerAssumption DEF RunCompleted, HandlerDone
<1>37. ASSUME FailedRead  PROVE LimitKept'
  BY <1>37, ServerAssumption DEF FailedRead, HandlerDone
<1>38. ASSUME FailedAccept  PROVE LimitKept'
  BY <1>38, ServerAssumption DEF FailedAccept, HandlerDone
<1>39. ASSUME NEW w \in Workers, LeaveRun(w)  PROVE LimitKept'
  BY <1>39, ServerAssumption DEF LeaveRun
<1>40. ASSUME Crash  PROVE LimitKept'
  BY <1>40, ServerAssumption DEF Crash
<1> QED  BY <1>1, <1>2, <1>3, <1>4, <1>5, <1>6, <1>7, <1>8, <1>9, <1>10, <1>11, <1>12, <1>13,
    <1>14, <1>15, <1>16, <1>17, <1>18, <1>19, <1>20, <1>21, <1>22, <1>23, <1>24, <1>25, <1>26,
    <1>27, <1>28, <1>29, <1>30, <1>31, <1>32, <1>33, <1>34, <1>35, <1>36, <1>37, <1>38, <1>39,
    <1>40 DEF LifecycleNext, Control, Threads, RunHandler, Peers, Dispatch, Continue

-----------------------------------------------------------------------------
LEMMA LifeInit == LifecycleInit => LifeInv
<1> SUFFICES ASSUME LifecycleInit  PROVE LifeInv
  OBVIOUS
<1> USE DEF LifecycleInit, Fresh
<1>1. LifeTypes
  <2>0. acceptPending \in BOOLEAN
    OBVIOUS
  <2>1. maxConnections \in MaxChoices /\ counter \in Int
    OBVIOUS
  <2>2. at \in [Workers -> Steps] /\ alive \in SUBSET Workers
    BY DEF Steps
  <2> QED  BY <2>0, <2>1, <2>2 DEF LifeTypes
<1>2. HandlersHaveThreads
  BY DEF HandlersHaveThreads
<1>3. OneChain
  BY DEF OneChain, Taken, Accepting, AcceptSteps
<1>4. LimitKept
  BY DEF LimitKept
<1> QED  BY <1>1, <1>2, <1>3, <1>4 DEF LifeInv

LEMMA LifeNext == LifeInv /\ [LifecycleNext]_allVars => LifeInv'
<1>1. ASSUME LifeInv, LifecycleNext  PROVE LifeInv'
  BY <1>1, TypesStep, ThreadsStep, ChainStep, LimitStep DEF LifeInv
<1>2. ASSUME LifeInv, UNCHANGED allVars  PROVE LifeInv'
  BY <1>2 DEF allVars, vars, listVars, poolVars, linkVars, lifeVars, controlVars, LifeInv, LifeTypes,
       HandlersHaveThreads, OneChain, Taken, Accepting, LimitKept
<1> QED  BY <1>1, <1>2

(* The inductive invariant of the server's life: any number of starts and     *)
(* stops, of threads and of connections, and crashes on the way.              *)
THEOREM Life == LifecycleSpec => []LifeInv
<1> QED  BY LifeInit, LifeNext, PTL DEF LifecycleSpec

(* Once stop() has returned, and before the first start, no thread is in a    *)
(* handler and nobody holds the mutex: what start() sets up it sets up alone. *)
THEOREM NothingRuns == LifecycleSpec => []NothingRunsWhenDown
<1>1. LifeInv => NothingRunsWhenDown
  BY DEF LifeInv, HandlersHaveThreads, NothingRunsWhenDown
<1> QED  BY <1>1, Life, PTL

(* Only a handler that goes on, in a live thread, touches the counter ...     *)
LEMMA CounterMoves == [LifecycleNext]_allVars => counter' = counter \/ \E w \in alive : Continue(w)
<1> USE DEF vars, listVars
<1>1. ASSUME Control  PROVE counter' = counter
  <2>1. ASSUME NEW m \in MaxChoices, LoadConfig(m)  PROVE counter' = counter
    BY <2>1 DEF LoadConfig
  <2>2. ASSUME StartFails \/ Start \/ Stop \/ StopAcceptor  PROVE counter' = counter
    BY <2>2 DEF StartFails, Start, Stop, StopAcceptor
  <2>3. ASSUME StopAcceptorFails \/ StopSockets \/ StopClear  PROVE counter' = counter
    BY <2>3 DEF StopAcceptorFails, StopSockets, StopClear
  <2>4. ASSUME StopService \/ StopJoin  PROVE counter' = counter
    BY <2>4 DEF StopService, StopJoin
  <2> QED  BY <1>1, <2>1, <2>2, <2>3, <2>4 DEF Control
<1>2. ASSUME RunHandler, ~ \E w \in alive : Continue(w)  PROVE counter' = counter
  <2>1. ASSUME NEW w \in alive, Dispatch(w)  PROVE counter' = counter
    BY <2>1 DEF Dispatch, OnAccept, OnRead, OnReadClosed
  <2>2. ASSUME OnAcceptError  PROVE counter' = counter
    BY <2>2 DEF OnAcceptError
  <2>3. ASSUME NEW c \in Conns, OnReadError(c) \/ LateWrite(c)  PROVE counter' = counter
    BY <2>3 DEF OnReadError, LateWrite
  <2> QED  BY <1>2, <2>1, <2>2, <2>3 DEF RunHandler
<1>3. ASSUME RunCompleted \/ FailedRead \/ FailedAccept \/ Crash  PROVE counter' = counter
  BY <1>3 DEF RunCompleted, FailedRead, FailedAccept, Crash
<1>4. ASSUME NEW w \in Workers, LeaveRun(w)  PROVE counter' = counter
  BY <1>4 DEF LeaveRun
<1>5. ASSUME Peers  PROVE counter' = counter
  BY <1>5 DEF Peers, PeerConnect, PeerSend, PeerReceive, PeerGone, Release
<1>6. ASSUME UNCHANGED allVars  PROVE counter' = counter
  BY <1>6 DEF allVars
<1> QED  BY <1>1, <1>2, <1>3, <1>4, <1>5, <1>6 DEF LifecycleNext, Threads

(* ... and only an insertion makes it grow.                                   *)
LEMMA CounterGrows ==
  ASSUME NEW w \in Workers, Continue(w), counter \in Int, counter' > counter
  PROVE  Insert(w)
<1> USE DEF listVars
<1>1. ASSUME Decrement(w)  PROVE FALSE
  BY <1>1 DEF Decrement
<1>2. ASSUME counter' = counter  PROVE FALSE
  BY <1>2
<1>3. ASSUME Refuse(w) \/ Admit(w) \/ Lock(w) \/ InsertFailure(w) \/ StartRead(w) \/ Register(w)
      PROVE  counter' = counter
  BY <1>3 DEF Refuse, Admit, Lock, InsertFailure, StartRead, Register
<1>4. ASSUME StartAccept(w) \/ Shutdown(w) \/ Erase(w) \/ RejectLine(w) \/ ProcessRequest(w) \/ Respond(w)
      PROVE  counter' = counter
  BY <1>4 DEF StartAccept, Shutdown, Erase, RejectLine, ProcessRequest, Respond
<1> QED  BY <1>1, <1>2, <1>3, <1>4 DEF Continue

(* In the first run, its stop included, no client is counted past the limit,  *)
(* although stop() empties the list without the lock and leaves the counter.  *)
THEOREM FirstRunCapacity == LifecycleSpec => CapacityInFirstRun
<1> DEFINE A == starts <= 1 /\ counter' > counter => counter' <= maxConnections
<1>1. LifeInv /\ [LifecycleNext]_allVars => A
  <2> SUFFICES ASSUME LifeInv, [LifecycleNext]_allVars, starts <= 1, counter' > counter
               PROVE  counter' <= maxConnections
    OBVIOUS
  <2>1. \E w \in alive : Continue(w)
    BY CounterMoves DEF LifeInv, LifeTypes
  <2>2. PICK w \in alive : Insert(w)
    BY <2>1, CounterGrows DEF LifeInv, LifeTypes
  <2> QED  BY <2>2, ServerAssumption DEF Insert, LifeInv, LifeTypes, LimitKept
<1>2. LifeInv /\ [LifecycleNext]_allVars => [A]_allVars
  BY <1>1
<1> QED  BY <1>2, Life, PTL DEF LifecycleSpec, CapacityInFirstRun
=================================================================================
