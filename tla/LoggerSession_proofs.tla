------------------------- MODULE LoggerSession_proofs -------------------------
(***************************************************************************)
(* Proofs about LoggerSession for every set of callers, every size of the  *)
(* queue and of the files, and every number of calls and starts: no        *)
(* message whose call has returned is lost or out of order as long as the  *)
(* worker writes, a closed log has written all it was given, a program     *)
(* that is quiet while it loads and closes is never ended by its log, and  *)
(* the files hold the newest messages whatever step of a rotation fails.   *)
(***************************************************************************)
EXTENDS LoggerSession, TLAPS

\* A message: a caller and the number of its call.
Logged == Callers \X Nat
LogMessages == Logged \cup {Terminate}
InQueue == [msg : LogMessages, by : Producers \cup {NoOne}]

TypeOK ==
  /\ session_opened \in BOOLEAN /\ file_chanel \in BOOLEAN /\ registered \in BOOLEAN /\ alive \in BOOLEAN
  /\ last_ex \in BOOLEAN /\ stop \in BOOLEAN /\ unquiet \in BOOLEAN /\ crashed \in BOOLEAN
  /\ ctl \in {"idle", "reset", "push", "retry", "join", "flag"} /\ starts \in Nat
  /\ worker \in {"none", "loop", "process", "ended"}
  /\ queue \in Seq(InQueue)
  /\ call \in [Producers -> {"idle", "called", "put"}]
  /\ item \in [Producers -> LogMessages \cup {NoMessage}]
  /\ taking \in {"idle", "called", "taken"} /\ out \in LogMessages \cup {NoMessage}
  /\ at \in [Callers -> {"idle", "channel", "check", "push", "retry"}]
  /\ logger \in [Callers -> Nat] /\ sent \in [Callers -> Nat]
  /\ accepted \in SUBSET Logged /\ promised \in SUBSET Logged
  /\ written \in Seq(Logged)

\* The flag, the pointer, the registry and the log, through a close.
Session ==
  /\ ctl = "idle" => session_opened = registered
  /\ registered => ctl = "idle" /\ file_chanel
  /\ ctl \in {"idle", "reset"} => file_chanel = alive
  /\ ctl = "idle" => file_chanel = registered
  /\ ctl \in {"push", "retry", "join"} => ~file_chanel
  /\ ctl = "flag" => ~file_chanel /\ ~alive

\* What a caller and the control thread have called of the queue.
Calls ==
  /\ \A c \in Callers :
       /\ at[c] = "push" <=> call[c] # "idle"
       /\ at[c] \in {"push", "retry"} => item[c] = <<c, sent[c]>>
       /\ logger[c] <= starts
  /\ ctl = "push" <=> call[Control] # "idle"
  /\ ctl = "push" => item[Control] = Terminate

\* The worker holds a message from the time it takes it.
Holds == taking = "taken" \/ worker = "process"
Hands ==
  /\ taking # "idle" => worker = "loop"
  /\ Holds => out \in LogMessages
  /\ worker = "ended" => stop \/ last_ex

\* The log of a quiet call is there until the call returns.
Quiet ==
  ~unquiet =>
    /\ \A c \in Callers :
         /\ at[c] # "idle" => ctl = "idle" /\ session_opened
         /\ at[c] \in {"check", "push", "retry"} => logger[c] = starts
    /\ crashed => last_ex

\* A message that has its place but is not ready stays in the queue.
Waits ==
  \A c \in Callers : call[c] = "put" /\ logger[c] = starts =>
    \E i \in DOMAIN queue : queue[i].by = c /\ queue[i].msg = item[c]

\* A message waits, is in the worker's hands, and is written.
MessagesOf(q) == [i \in DOMAIN q |-> q[i].msg]
waiting == MessagesOf(queue)
held == IF Holds THEN <<out>> ELSE <<>>

\* What has been accepted is not lost.
Accepted ==
  /\ promised \subseteq accepted
  /\ ~last_ex => accepted \subseteq ToSet(written) \cup ToSet(held) \cup ToSet(waiting)

\* Terminate is behind all that was promised.
Ending == stop \/ Terminate \in ToSet(held)
Behind(s, P) == \A i, j \in DOMAIN s : i < j /\ s[i] = Terminate => s[j] \notin P
Promised ==
  /\ file_chanel => Terminate \notin ToSet(waiting) /\ ~Ending
  /\ Behind(waiting, promised)
  /\ Ending => promised \cap ToSet(waiting) = {}
  /\ ~alive /\ ~last_ex => promised \subseteq ToSet(written)

\* Each caller's messages are in order from its call to the file.
Precedes(m, k) == m \in Logged /\ k \in Logged /\ m[1] = k[1] => m[2] < k[2]
Earlier(s, m) == \A i \in DOMAIN s : Precedes(s[i], m)
Ordered(s) == \A i, j \in DOMAIN s : i < j => Precedes(s[i], s[j])
Ahead(s, t) == \A j \in DOMAIN t : Earlier(s, t[j])
Chain(s, t, u) == Ordered(s) /\ Ordered(t) /\ Ordered(u) /\ Ahead(s, t) /\ Ahead(s, u) /\ Ahead(t, u)

\* The number of the caller's last call whose message has its place.
NotPut(c) == at[c] \in {"channel", "check", "retry"} \/ call[c] = "called"
LastPut == [c \in Callers |-> IF NotPut(c) THEN sent[c] - 1 ELSE sent[c]]
Past(m, last) == m \in Logged => m[2] <= last[m[1]]
AllPast(S, last) == \A m \in S : Past(m, last)
InOrder ==
  /\ Chain(written, held, waiting)
  /\ AllPast(ToSet(written) \cup ToSet(held) \cup ToSet(waiting) \cup accepted, LastPut)

\* The inductive invariant.
LoggerInv == TypeOK /\ Session /\ Calls /\ Hands /\ Quiet /\ Waits /\ Accepted /\ Promised /\ InOrder

-----------------------------------------------------------------------------
(* The steps, one by one: the actions of LoggerSession without their        *)
(* alternatives, and the process ended by any of them. *)

Ends ==
  /\ Crash
  /\ \/ last_ex
     \/ \E c \in Callers : at[c] = "channel" /\ ~file_chanel
     \/ \E c \in Callers : at[c] \in {"check", "push", "retry"} /\ Dangling(c)

Found(c) ==
  /\ at[c] = "channel" /\ file_chanel
  /\ at' = [at EXCEPT ![c] = "check"] /\ logger' = [logger EXCEPT ![c] = starts]
  /\ UNCHANGED <<sessionVars, workerVars, fifoVars, historyVars, sent, accepted, crashed>>
Calling(c, m) ==
  /\ at[c] \in {"check", "retry"} /\ Fifo!EnqueueCall(c, m) /\ at' = [at EXCEPT ![c] = "push"]
  /\ (at[c] = "check" /\ m = <<c, sent[c]>>) \/ (at[c] = "retry" /\ m = item[c])
  /\ UNCHANGED <<sessionVars, workerVars, historyVars, logger, sent, accepted, crashed>>
Putting(c) ==
  /\ at[c] = "push" /\ ~Dangling(c) /\ Fifo!Put(c)
  /\ UNCHANGED <<sessionVars, workerVars, callerVars, historyVars, crashed>>
Accepting(c) ==
  /\ at[c] = "push" /\ ~Dangling(c) /\ Fifo!Ready(c)
  /\ at' = [at EXCEPT ![c] = "idle"] /\ accepted' = accepted \cup {item[c]}
  /\ UNCHANGED <<sessionVars, workerVars, historyVars, logger, sent, crashed>>
Refused(c) ==
  /\ at[c] = "push" /\ Fifo!Refuse(c) /\ at' = [at EXCEPT ![c] = "retry"]
  /\ UNCHANGED <<sessionVars, workerVars, historyVars, logger, sent, accepted, crashed>>

Elsewhere == UNCHANGED <<sessionVars, callerVars, historyVars, last_ex, stop, files, written, crashed>>
Looking == worker = "loop" /\ Fifo!DequeueCall /\ UNCHANGED worker /\ Elsewhere
Taking == worker = "loop" /\ Fifo!Take /\ UNCHANGED worker /\ Elsewhere
Releasing == worker = "loop" /\ Fifo!Release /\ worker' = "process" /\ Elsewhere
Finding == worker = "loop" /\ Fifo!Empty /\ worker' = (IF stop THEN "ended" ELSE "loop") /\ Elsewhere

ControlOnly ==
  UNCHANGED <<config_loaded, q_good, session_opened, registered, disk, starts, alive,
              workerVars, callerVars, historyVars, crashed>>
Destroying ==
  /\ ctl = "reset" /\ file_chanel /\ ~last_ex /\ file_chanel' = FALSE
  /\ Fifo!EnqueueCall(Control, Terminate) /\ ctl' = "push" /\ ControlOnly
Nothing ==
  /\ ctl = "reset" /\ ~file_chanel /\ file_chanel' = FALSE /\ ctl' = "flag"
  /\ UNCHANGED fifoVars /\ ControlOnly
EndPut == ctl = "push" /\ Fifo!Put(Control) /\ UNCHANGED <<ctl, file_chanel>> /\ ControlOnly
EndReady == ctl = "push" /\ Fifo!Ready(Control) /\ ctl' = "join" /\ UNCHANGED file_chanel /\ ControlOnly
EndRefused == ctl = "push" /\ Fifo!Refuse(Control) /\ ctl' = "retry" /\ UNCHANGED file_chanel /\ ControlOnly
EndAgain ==
  /\ ctl = "retry" /\ Fifo!EnqueueCall(Control, Terminate) /\ ctl' = "push"
  /\ UNCHANGED file_chanel /\ ControlOnly

LEMMA StepCases ==
  ASSUME Next
  PROVE  \/ Ends
         \/ \E c \in Callers : LogFile(c) \/ Found(c) \/ Putting(c) \/ Accepting(c) \/ Refused(c)
         \/ \E c \in Callers : \E m \in {<<c, sent[c]>>, item[c]} : Calling(c, m)
         \/ Looking \/ Taking \/ Releasing \/ Finding \/ TerminateMsg \/ SinkIt \/ SinkFails
         \/ LoadConfig \/ CloseSession
         \/ \E new \in Ids : StartFails(new) \/ StartSession(new)
         \/ Destroying \/ Nothing \/ EndPut \/ EndReady \/ EndRefused \/ EndAgain \/ Join \/ CloseFlag
<1>1. ASSUME NEW c \in Callers, LogSteps(c)
      PROVE  \/ Ends \/ Found(c) \/ Putting(c) \/ Accepting(c) \/ Refused(c)
             \/ \E m \in {<<c, sent[c]>>, item[c]} : Calling(c, m)
  <2>1. CASE Channel(c)
    BY <2>1 DEF Channel, Found, Ends
  <2>2. CASE CheckWorker(c)
    BY <2>2 DEF CheckWorker, Calling, Ends
  <2>3. CASE Push(c)
    BY <2>3 DEF Push, Putting, Accepting, Refused, callerVars, Ends
  <2>4. CASE Retry(c)
    BY <2>4 DEF Retry, Calling, Ends
  <2> QED
    BY <1>1, <2>1, <2>2, <2>3, <2>4 DEF LogSteps
<1>2. Pop => Looking \/ Taking \/ Releasing \/ Finding
  BY DEF Pop, Looking, Taking, Releasing, Finding, Elsewhere
<1>3. Reset => Ends \/ Destroying \/ Nothing
  BY DEF Reset, Destroying, Nothing, Ends, ControlOnly
<1>4. PushTerminate => EndPut \/ EndReady \/ EndRefused \/ EndAgain
  BY DEF PushTerminate, EndPut, EndReady, EndRefused, EndAgain, ControlOnly
<1> QED
  BY <1>1, <1>2, <1>3, <1>4 DEF Next, Worker, Closing

-----------------------------------------------------------------------------
(* The queue's messages. *)

LEMMA SameLength ==
  ASSUME NEW S, NEW T, NEW s \in Seq(S), NEW t \in Seq(T), DOMAIN s = DOMAIN t
  PROVE  Len(s) = Len(t)
  OBVIOUS

LEMMA MessagesType ==
  ASSUME NEW q \in Seq(InQueue)
  PROVE  /\ MessagesOf(q) \in Seq(LogMessages) /\ DOMAIN MessagesOf(q) = DOMAIN q
         /\ \A i \in DOMAIN q : MessagesOf(q)[i] = q[i].msg
<1>1. MessagesOf(q) = [i \in 1 .. Len(q) |-> q[i].msg] /\ Len(q) \in Nat
  BY DEF MessagesOf
<1>2. \A i \in 1 .. Len(q) : q[i].msg \in LogMessages
  <2>1. \A i \in 1 .. Len(q) : q[i] \in InQueue
    OBVIOUS
  <2> QED
    BY <2>1 DEF InQueue
<1> QED
  BY <1>1, <1>2 DEF MessagesOf

LEMMA MessagesAppended ==
  ASSUME NEW q \in Seq(InQueue),
         NEW e \in InQueue
  PROVE  MessagesOf(Append(q, e)) = Append(MessagesOf(q), e.msg)
<1>0. e.msg \in LogMessages
  BY DEF InQueue
<1>1. Append(q, e) \in Seq(InQueue) /\ e.msg \in LogMessages
  BY <1>0
<1>2. /\ MessagesOf(q) \in Seq(LogMessages) /\ MessagesOf(Append(q, e)) \in Seq(LogMessages)
      /\ DOMAIN MessagesOf(q) = DOMAIN q /\ DOMAIN MessagesOf(Append(q, e)) = DOMAIN Append(q, e)
  BY <1>1, MessagesType
<1>3. Len(MessagesOf(q)) = Len(q) /\ Len(MessagesOf(Append(q, e))) = Len(q) + 1
  BY <1>2
<1>4. ASSUME NEW i \in 1 .. Len(q) + 1
      PROVE  MessagesOf(Append(q, e))[i] = Append(MessagesOf(q), e.msg)[i]
  <2>1. CASE i = Len(q) + 1
    <3>1. Append(q, e)[i] = e /\ i \in DOMAIN Append(q, e)
      BY <2>1
    <3>2. MessagesOf(Append(q, e))[i] = e.msg
      BY <1>1, <3>1, MessagesType
    <3>3. Append(MessagesOf(q), e.msg)[i] = e.msg
      BY <1>1, <1>2, <1>3, <2>1
    <3> QED
      BY <3>2, <3>3
  <2>2. CASE i \in 1 .. Len(q)
    <3>1. Append(q, e)[i] = q[i] /\ i \in DOMAIN q /\ i \in DOMAIN Append(q, e)
      BY <2>2
    <3>2. MessagesOf(Append(q, e))[i] = q[i].msg
      BY <1>1, <3>1, MessagesType
    <3>3. MessagesOf(q)[i] = q[i].msg
      BY <3>1, MessagesType
    <3> QED
      BY <1>1, <1>2, <1>3, <2>2, <3>2, <3>3
  <2>3. i = Len(q) + 1 \/ i \in 1 .. Len(q)
    OBVIOUS
  <2> QED
    BY <2>1, <2>2, <2>3
<1> QED
  BY <1>1, <1>2, <1>3, <1>4

LEMMA MessagesTaken ==
  ASSUME NEW q \in Seq(InQueue), q # <<>>
  PROVE  /\ MessagesOf(q) # <<>> /\ Head(MessagesOf(q)) = Head(q).msg /\ Head(q).msg \in LogMessages
         /\ MessagesOf(Tail(q)) = Tail(MessagesOf(q))
<1>1. /\ Tail(q) \in Seq(InQueue) /\ 1 \in DOMAIN q /\ Head(q) = q[1]
      /\ Len(q) \in Nat /\ Len(q) >= 1 /\ Len(Tail(q)) = Len(q) - 1 /\ q[1] \in InQueue
  OBVIOUS
<1>2. /\ MessagesOf(q) \in Seq(LogMessages) /\ MessagesOf(Tail(q)) \in Seq(LogMessages)
      /\ DOMAIN MessagesOf(q) = DOMAIN q /\ DOMAIN MessagesOf(Tail(q)) = DOMAIN Tail(q)
  BY <1>1, MessagesType
<1>3. Len(MessagesOf(q)) = Len(q) /\ Len(MessagesOf(Tail(q))) = Len(q) - 1
  <2>1. Len(MessagesOf(q)) = Len(q)
    BY <1>2
  <2> DEFINE t == Tail(q)
  <2>2. t \in Seq(InQueue) /\ MessagesOf(t) \in Seq(LogMessages) /\ DOMAIN MessagesOf(t) = DOMAIN t
    BY <1>1, <1>2
  <2>3. Len(t) = Len(q) - 1
    BY <1>1
  <2> HIDE DEF t
  <2>4. Len(MessagesOf(t)) = Len(t)
    BY <2>2, SameLength
  <2> QED
    BY <2>1, <2>3, <2>4 DEF t
<1>4. MessagesOf(q) # <<>> /\ Head(MessagesOf(q)) = Head(q).msg
  BY <1>1, <1>2, <1>3, MessagesType
<1>5. ASSUME NEW i \in 1 .. Len(q) - 1
      PROVE  MessagesOf(Tail(q))[i] = Tail(MessagesOf(q))[i]
  <2>1. i \in DOMAIN Tail(q) /\ i + 1 \in DOMAIN q /\ Tail(q)[i] = q[i + 1]
    BY <1>1
  <2>2. MessagesOf(Tail(q))[i] = q[i + 1].msg /\ MessagesOf(q)[i + 1] = q[i + 1].msg
    BY <1>1, <2>1, MessagesType
  <2> QED
    BY <1>2, <1>3, <1>4, <2>2
<1>6. Tail(MessagesOf(q)) \in Seq(LogMessages) /\ Len(Tail(MessagesOf(q))) = Len(q) - 1
  BY <1>2, <1>3, <1>4
<1> QED
  BY <1>1, <1>2, <1>3, <1>4, <1>5, <1>6

(* What the queue's operations do to the messages that wait. *)
LEMMA PutWaiting ==
  ASSUME TypeOK, NEW p \in Producers, Fifo!Put(p), item[p] \in LogMessages
  PROVE  /\ waiting' = Append(waiting, item[p])
         /\ queue' \in Seq(InQueue)
         /\ call' = [call EXCEPT ![p] = "put"] /\ call[p] = "called" /\ UNCHANGED <<item, taking, out>>
<1> DEFINE e == [msg |-> item[p], by |-> p]
<1>1. e \in InQueue /\ e.msg = item[p]
  BY DEF InQueue
<1>2. queue' = Append(queue, e)
  BY DEF Fifo!Put
<1> HIDE DEF e
<1>3. waiting' = MessagesOf(queue')
  BY DEF waiting
<1> QED
  BY <1>1, <1>2, <1>3, MessagesAppended DEF Fifo!Put, waiting, TypeOK

LEMMA ReadyWaiting ==
  ASSUME TypeOK, NEW p \in Producers, Fifo!Ready(p)
  PROVE  /\ waiting' = waiting /\ queue' \in Seq(InQueue)
         /\ call' = [call EXCEPT ![p] = "idle"] /\ call[p] = "put" /\ UNCHANGED <<item, taking, out>>
         /\ \A i \in DOMAIN queue : i \in DOMAIN queue' /\ queue'[i].msg = queue[i].msg
                                    /\ (queue[i].by # p => queue'[i].by = queue[i].by)
<1> DEFINE ready(e) == [e EXCEPT !.by = IF @ = p THEN NoOne ELSE @]
<1>1. queue' = [i \in DOMAIN queue |-> ready(queue[i])]
  BY DEF Fifo!Ready
<1>2. \A e \in InQueue :
        /\ ready(e) \in InQueue
        /\ ready(e).msg = e.msg /\ (e.by # p => ready(e).by = e.by)
  BY DEF InQueue
<1> HIDE DEF ready
<1>3. queue \in Seq(InQueue)
  BY DEF TypeOK
<1>4. \A i \in DOMAIN queue : queue[i] \in InQueue
  BY <1>3
<1>5. queue' \in Seq(InQueue)
  <2>1. DOMAIN queue = 1 .. Len(queue) /\ Len(queue) \in Nat
    BY <1>3
  <2> QED
    BY <1>1, <1>2, <1>4, <2>1
<1>6. \A i \in DOMAIN queue : i \in DOMAIN queue' /\ queue'[i] = ready(queue[i])
  BY <1>1
<1>7. waiting' = [i \in DOMAIN queue |-> ready(queue[i]).msg]
  BY <1>1 DEF waiting, MessagesOf
<1>8. waiting' = waiting
  BY <1>2, <1>4, <1>7 DEF waiting, MessagesOf
<1> QED
  BY <1>2, <1>4, <1>5, <1>6, <1>8 DEF Fifo!Ready

LEMMA TakeWaiting ==
  ASSUME TypeOK, Fifo!Take
  PROVE  /\ waiting # <<>> /\ waiting' = Tail(waiting) /\ out' = Head(waiting) /\ out' \in LogMessages
         /\ queue # <<>> /\ Head(queue).by = NoOne /\ queue' = Tail(queue)
         /\ queue' \in Seq(InQueue)
         /\ taking = "called" /\ taking' = "taken" /\ UNCHANGED <<call, item>>
<1>1. queue # <<>> /\ Head(queue).by = NoOne /\ queue' = Tail(queue) /\ out' = Head(queue).msg
  BY DEF Fifo!Take, Fifo!HeadReady
<1>2. waiting' = MessagesOf(queue')
  BY DEF waiting
<1>3. queue \in Seq(InQueue)
  BY DEF TypeOK
<1> QED
  BY <1>1, <1>2, <1>3, MessagesTaken DEF waiting, Fifo!Take

LEMMA WaitingType == TypeOK => waiting \in Seq(LogMessages)
  BY MessagesType DEF TypeOK, waiting

-----------------------------------------------------------------------------
(* Types, and one lemma per part of the invariant. *)

LEMMA OwnItem ==
  ASSUME TypeOK, Calls, NEW c \in Callers
  PROVE  c \in Producers /\ (at[c] \in {"push", "retry"} => item[c] \in Logged /\ item[c] = <<c, sent[c]>>)
<1>1. c \in Producers /\ sent[c] \in Nat
  BY DEF TypeOK, Producers
<1>2. <<c, sent[c]>> \in Logged
  BY <1>1 DEF Logged, TypeOK
<1> QED
  BY <1>1, <1>2 DEF Calls

LEMMA TypeStep ==
  ASSUME TypeOK, Calls, Hands, Next
  PROVE  TypeOK'
<1> USE DEF sessionVars, workerVars, callerVars, fifoVars, historyVars
<1>1. ASSUME Ends  PROVE TypeOK'
  BY <1>1 DEF Ends, Crash, TypeOK
<1>2. ASSUME NEW c \in Callers, LogFile(c)  PROVE TypeOK'
  BY <1>2 DEF LogFile, TypeOK
<1>3. ASSUME NEW c \in Callers, Found(c)  PROVE TypeOK'
  BY <1>3 DEF Found, TypeOK
<1>4. ASSUME NEW c \in Callers, NEW m \in {<<c, sent[c]>>, item[c]}, Calling(c, m)  PROVE TypeOK'
  <2>1. <<c, sent[c]>> \in LogMessages /\ m \in LogMessages \cup {NoMessage}
    BY <1>4 DEF Calling, TypeOK, LogMessages, Logged, Producers
  <2>2. call' \in [Producers -> {"idle", "called", "put"}]
        /\ item' \in [Producers -> LogMessages \cup {NoMessage}]
    BY <1>4, <2>1 DEF Calling, Fifo!EnqueueCall, TypeOK, Producers
  <2> QED
    BY <1>4, <2>2 DEF Calling, Fifo!EnqueueCall, TypeOK
<1>5. ASSUME NEW c \in Callers, Putting(c)  PROVE TypeOK'
  <2>1. item[c] \in LogMessages /\ c \in Producers
    BY <1>5, OwnItem DEF Putting, LogMessages
  <2>2. /\ queue' \in Seq(InQueue) /\ UNCHANGED <<item, taking, out>>
        /\ call' \in [Producers -> {"idle", "called", "put"}]
    BY <1>5, <2>1, PutWaiting DEF Putting, TypeOK
  <2> QED
    BY <1>5, <2>2 DEF Putting, TypeOK
<1>6. ASSUME NEW c \in Callers, Accepting(c)  PROVE TypeOK'
  <2>1. c \in Producers /\ item[c] \in Logged
    BY <1>6, OwnItem DEF Accepting
  <2>2. /\ queue' \in Seq(InQueue) /\ UNCHANGED <<item, taking, out>>
        /\ call' \in [Producers -> {"idle", "called", "put"}]
    BY <1>6, <2>1, ReadyWaiting DEF Accepting, TypeOK
  <2> QED
    BY <1>6, <2>1, <2>2 DEF Accepting, TypeOK
<1>7. ASSUME NEW c \in Callers, Refused(c)  PROVE TypeOK'
  <2>1. call' \in [Producers -> {"idle", "called", "put"}]
        /\ at' \in [Callers -> {"idle", "channel", "check", "push", "retry"}]
    BY <1>7 DEF Refused, Fifo!Refuse, TypeOK
  <2> QED
    BY <1>7, <2>1 DEF Refused, Fifo!Refuse, TypeOK
<1>8. ASSUME Looking  PROVE TypeOK'
  BY <1>8 DEF Looking, Fifo!DequeueCall, Elsewhere, TypeOK
<1>9. ASSUME Taking  PROVE TypeOK'
  <2>1. queue' \in Seq(InQueue) /\ out' \in LogMessages
        /\ taking' = "taken" /\ UNCHANGED <<call, item>>
    BY <1>9, TakeWaiting DEF Taking
  <2> QED
    BY <1>9, <2>1 DEF Taking, Elsewhere, TypeOK
<1>10. ASSUME Releasing  PROVE TypeOK'
  BY <1>10 DEF Releasing, Fifo!Release, Elsewhere, TypeOK
<1>11. ASSUME Finding  PROVE TypeOK'
  BY <1>11 DEF Finding, Fifo!Empty, Elsewhere, TypeOK
<1>12. ASSUME TerminateMsg  PROVE TypeOK'
  BY <1>12 DEF TerminateMsg, TypeOK
<1>13. ASSUME SinkIt  PROVE TypeOK'
  <2>1. out \in Logged
    BY <1>13 DEF SinkIt, Hands, Holds, LogMessages
  <2>2. written' \in Seq(Logged)
    BY <1>13, <2>1 DEF SinkIt, TypeOK
  <2> QED
    BY <1>13, <2>2 DEF SinkIt, TypeOK
<1>14. ASSUME SinkFails  PROVE TypeOK'
  BY <1>14 DEF SinkFails, TypeOK
<1>15. ASSUME LoadConfig  PROVE TypeOK'
  BY <1>15 DEF LoadConfig, TypeOK
<1>16. ASSUME NEW new \in Ids, StartFails(new)  PROVE TypeOK'
  BY <1>16 DEF StartFails, TypeOK
<1>17. ASSUME NEW new \in Ids, StartSession(new)  PROVE TypeOK'
  <2> DEFINE none == <<>>
  <2>1. none \in Seq(InQueue) /\ none \in Seq(Logged)
        /\ queue' = none /\ written' = none /\ starts' \in Nat
    BY <1>17 DEF StartSession, TypeOK
  <2> HIDE DEF none
  <2> QED
    BY <1>17, <2>1 DEF StartSession, TypeOK
<1>18. ASSUME CloseSession  PROVE TypeOK'
  BY <1>18 DEF CloseSession, TypeOK
<1>19. ASSUME Destroying  PROVE TypeOK'
  <2>1. call' \in [Producers -> {"idle", "called", "put"}]
        /\ item' \in [Producers -> LogMessages \cup {NoMessage}]
    BY <1>19 DEF Destroying, Fifo!EnqueueCall, TypeOK, Producers, LogMessages
  <2> QED
    BY <1>19, <2>1 DEF Destroying, Fifo!EnqueueCall, ControlOnly, TypeOK
<1>20. ASSUME Nothing  PROVE TypeOK'
  BY <1>20 DEF Nothing, ControlOnly, TypeOK
<1>21. ASSUME EndPut  PROVE TypeOK'
  <2>1. item[Control] \in LogMessages /\ Control \in Producers
    BY <1>21 DEF EndPut, Calls, LogMessages, Producers
  <2>2. /\ queue' \in Seq(InQueue) /\ UNCHANGED <<item, taking, out>>
        /\ call' \in [Producers -> {"idle", "called", "put"}]
    BY <1>21, <2>1, PutWaiting DEF EndPut, TypeOK
  <2> QED
    BY <1>21, <2>2 DEF EndPut, ControlOnly, TypeOK
<1>22. ASSUME EndReady  PROVE TypeOK'
  <2>1. Control \in Producers
    BY DEF Producers
  <2>2. /\ queue' \in Seq(InQueue) /\ UNCHANGED <<item, taking, out>>
        /\ call' \in [Producers -> {"idle", "called", "put"}]
    BY <1>22, <2>1, ReadyWaiting DEF EndReady, TypeOK
  <2> QED
    BY <1>22, <2>2 DEF EndReady, ControlOnly, TypeOK
<1>23. ASSUME EndRefused  PROVE TypeOK'
  <2>1. call' \in [Producers -> {"idle", "called", "put"}]
    BY <1>23 DEF EndRefused, Fifo!Refuse, TypeOK
  <2> QED
    BY <1>23, <2>1 DEF EndRefused, Fifo!Refuse, ControlOnly, TypeOK
<1>24. ASSUME EndAgain  PROVE TypeOK'
  <2>1. call' \in [Producers -> {"idle", "called", "put"}]
        /\ item' \in [Producers -> LogMessages \cup {NoMessage}]
    BY <1>24 DEF EndAgain, Fifo!EnqueueCall, TypeOK, Producers, LogMessages
  <2> QED
    BY <1>24, <2>1 DEF EndAgain, Fifo!EnqueueCall, ControlOnly, TypeOK
<1>25. ASSUME Join  PROVE TypeOK'
  BY <1>25 DEF Join, TypeOK
<1>26. ASSUME CloseFlag  PROVE TypeOK'
  BY <1>26 DEF CloseFlag, TypeOK
<1> QED
  BY <1>1, <1>2, <1>3, <1>4, <1>5, <1>6, <1>7, <1>8, <1>9, <1>10, <1>11, <1>12, <1>13, <1>14, <1>15,
       <1>16, <1>17, <1>18, <1>19, <1>20, <1>21, <1>22, <1>23, <1>24, <1>25, <1>26, StepCases

(* The flags of a session, the calls of the queue, the worker's hands. *)
LEMMA SessionStep ==
  ASSUME TypeOK, Session, Next
  PROVE  Session'
<1> USE DEF TypeOK, Session, sessionVars, workerVars, callerVars, historyVars, Crash
<1>1. ASSUME Ends  PROVE Session'
  BY <1>1 DEF Ends, Crash
<1>2. ASSUME NEW c \in Callers, LogFile(c)  PROVE Session'
  BY <1>2 DEF LogFile
<1>3. ASSUME NEW c \in Callers, Found(c)  PROVE Session'
  BY <1>3 DEF Found
<1>4. ASSUME NEW c \in Callers, NEW m \in {<<c, sent[c]>>, item[c]}, Calling(c, m)  PROVE Session'
  BY <1>4 DEF Calling, Fifo!EnqueueCall
<1>5. ASSUME NEW c \in Callers, Putting(c)  PROVE Session'
  BY <1>5 DEF Putting, Fifo!Put
<1>6. ASSUME NEW c \in Callers, Accepting(c)  PROVE Session'
  BY <1>6 DEF Accepting, Fifo!Ready
<1>7. ASSUME NEW c \in Callers, Refused(c)  PROVE Session'
  BY <1>7 DEF Refused, Fifo!Refuse
<1>8. ASSUME Looking  PROVE Session'
  BY <1>8 DEF Looking, Fifo!DequeueCall, Elsewhere
<1>9. ASSUME Taking  PROVE Session'
  BY <1>9 DEF Taking, Fifo!Take, Elsewhere
<1>10. ASSUME Releasing  PROVE Session'
  BY <1>10 DEF Releasing, Fifo!Release, Elsewhere
<1>11. ASSUME Finding  PROVE Session'
  BY <1>11 DEF Finding, Fifo!Empty, Elsewhere
<1>12. ASSUME TerminateMsg  PROVE Session'
  BY <1>12 DEF TerminateMsg
<1>13. ASSUME SinkIt  PROVE Session'
  BY <1>13 DEF SinkIt
<1>14. ASSUME SinkFails  PROVE Session'
  BY <1>14 DEF SinkFails
<1>15. ASSUME LoadConfig  PROVE Session'
  BY <1>15 DEF LoadConfig
<1>16. ASSUME NEW new \in Ids, StartFails(new)  PROVE Session'
  BY <1>16 DEF StartFails
<1>17. ASSUME NEW new \in Ids, StartSession(new)  PROVE Session'
  BY <1>17 DEF StartSession
<1>18. ASSUME CloseSession  PROVE Session'
  BY <1>18 DEF CloseSession
<1>19. ASSUME Destroying  PROVE Session'
  BY <1>19 DEF Destroying, Fifo!EnqueueCall, ControlOnly
<1>20. ASSUME Nothing  PROVE Session'
  BY <1>20 DEF Nothing, ControlOnly
<1>21. ASSUME EndPut  PROVE Session'
  BY <1>21 DEF EndPut, Fifo!Put, ControlOnly
<1>22. ASSUME EndReady  PROVE Session'
  BY <1>22 DEF EndReady, Fifo!Ready, ControlOnly
<1>23. ASSUME EndRefused  PROVE Session'
  BY <1>23 DEF EndRefused, Fifo!Refuse, ControlOnly
<1>24. ASSUME EndAgain  PROVE Session'
  BY <1>24 DEF EndAgain, Fifo!EnqueueCall, ControlOnly
<1>25. ASSUME Join  PROVE Session'
  BY <1>25 DEF Join
<1>26. ASSUME CloseFlag  PROVE Session'
  BY <1>26 DEF CloseFlag
<1> QED
  BY <1>1, <1>2, <1>3, <1>4, <1>5, <1>6, <1>7, <1>8, <1>9, <1>10, <1>11, <1>12, <1>13, <1>14, <1>15,
       <1>16, <1>17, <1>18, <1>19, <1>20, <1>21, <1>22, <1>23, <1>24, <1>25, <1>26, StepCases

LEMMA CallsStep ==
  ASSUME TypeOK, Calls, Next
  PROVE  Calls'
<1> USE LoggerAssumption DEF TypeOK, Calls, Producers, sessionVars, workerVars, callerVars,
     fifoVars, historyVars
<1>1. ASSUME Ends  PROVE Calls'
  BY <1>1 DEF Ends, Crash
<1>2. ASSUME NEW c \in Callers, LogFile(c)  PROVE Calls'
  BY <1>2 DEF LogFile
<1>3. ASSUME NEW c \in Callers, Found(c)  PROVE Calls'
  BY <1>3 DEF Found
<1>4. ASSUME NEW c \in Callers, NEW m \in {<<c, sent[c]>>, item[c]}, Calling(c, m)  PROVE Calls'
  BY <1>4 DEF Calling, Fifo!EnqueueCall
<1>5. ASSUME NEW c \in Callers, Putting(c)  PROVE Calls'
  BY <1>5 DEF Putting, Fifo!Put
<1>6. ASSUME NEW c \in Callers, Accepting(c)  PROVE Calls'
  BY <1>6 DEF Accepting, Fifo!Ready
<1>7. ASSUME NEW c \in Callers, Refused(c)  PROVE Calls'
  BY <1>7 DEF Refused, Fifo!Refuse
<1>8. ASSUME Looking  PROVE Calls'
  BY <1>8 DEF Looking, Fifo!DequeueCall, Elsewhere
<1>9. ASSUME Taking  PROVE Calls'
  BY <1>9 DEF Taking, Fifo!Take, Elsewhere
<1>10. ASSUME Releasing  PROVE Calls'
  BY <1>10 DEF Releasing, Fifo!Release, Elsewhere
<1>11. ASSUME Finding  PROVE Calls'
  BY <1>11 DEF Finding, Fifo!Empty, Elsewhere
<1>12. ASSUME TerminateMsg  PROVE Calls'
  BY <1>12 DEF TerminateMsg
<1>13. ASSUME SinkIt  PROVE Calls'
  BY <1>13 DEF SinkIt
<1>14. ASSUME SinkFails  PROVE Calls'
  BY <1>14 DEF SinkFails
<1>15. ASSUME LoadConfig  PROVE Calls'
  BY <1>15 DEF LoadConfig
<1>16. ASSUME NEW new \in Ids, StartFails(new)  PROVE Calls'
  BY <1>16 DEF StartFails
<1>17. ASSUME NEW new \in Ids, StartSession(new)  PROVE Calls'
  BY <1>17 DEF StartSession
<1>18. ASSUME CloseSession  PROVE Calls'
  BY <1>18 DEF CloseSession
<1>19. ASSUME Destroying  PROVE Calls'
  BY <1>19 DEF Destroying, Fifo!EnqueueCall, ControlOnly
<1>20. ASSUME Nothing  PROVE Calls'
  BY <1>20 DEF Nothing, ControlOnly
<1>21. ASSUME EndPut  PROVE Calls'
  BY <1>21 DEF EndPut, Fifo!Put, ControlOnly
<1>22. ASSUME EndReady  PROVE Calls'
  BY <1>22 DEF EndReady, Fifo!Ready, ControlOnly
<1>23. ASSUME EndRefused  PROVE Calls'
  BY <1>23 DEF EndRefused, Fifo!Refuse, ControlOnly
<1>24. ASSUME EndAgain  PROVE Calls'
  BY <1>24 DEF EndAgain, Fifo!EnqueueCall, ControlOnly
<1>25. ASSUME Join  PROVE Calls'
  BY <1>25 DEF Join
<1>26. ASSUME CloseFlag  PROVE Calls'
  BY <1>26 DEF CloseFlag
<1> QED
  BY <1>1, <1>2, <1>3, <1>4, <1>5, <1>6, <1>7, <1>8, <1>9, <1>10, <1>11, <1>12, <1>13, <1>14, <1>15,
       <1>16, <1>17, <1>18, <1>19, <1>20, <1>21, <1>22, <1>23, <1>24, <1>25, <1>26, StepCases

LEMMA HandsStep ==
  ASSUME TypeOK, Session, Hands, Next
  PROVE  Hands'
<1> USE LoggerAssumption DEF TypeOK, Session, Hands, Holds, sessionVars, workerVars, callerVars,
     fifoVars, historyVars
<1>1. ASSUME Ends  PROVE Hands'
  BY <1>1 DEF Ends, Crash
<1>2. ASSUME NEW c \in Callers, LogFile(c)  PROVE Hands'
  BY <1>2 DEF LogFile
<1>3. ASSUME NEW c \in Callers, Found(c)  PROVE Hands'
  BY <1>3 DEF Found
<1>4. ASSUME NEW c \in Callers, NEW m \in {<<c, sent[c]>>, item[c]}, Calling(c, m)  PROVE Hands'
  BY <1>4 DEF Calling, Fifo!EnqueueCall
<1>5. ASSUME NEW c \in Callers, Putting(c)  PROVE Hands'
  BY <1>5 DEF Putting, Fifo!Put
<1>6. ASSUME NEW c \in Callers, Accepting(c)  PROVE Hands'
  BY <1>6 DEF Accepting, Fifo!Ready
<1>7. ASSUME NEW c \in Callers, Refused(c)  PROVE Hands'
  BY <1>7 DEF Refused, Fifo!Refuse
<1>8. ASSUME Looking  PROVE Hands'
  BY <1>8 DEF Looking, Fifo!DequeueCall, Elsewhere
<1>9. ASSUME Taking  PROVE Hands'
  BY <1>9, TakeWaiting DEF Taking, Elsewhere
<1>10. ASSUME Releasing  PROVE Hands'
  BY <1>10 DEF Releasing, Fifo!Release, Elsewhere
<1>11. ASSUME Finding  PROVE Hands'
  BY <1>11 DEF Finding, Fifo!Empty, Elsewhere
<1>12. ASSUME TerminateMsg  PROVE Hands'
  BY <1>12 DEF TerminateMsg
<1>13. ASSUME SinkIt  PROVE Hands'
  BY <1>13 DEF SinkIt
<1>14. ASSUME SinkFails  PROVE Hands'
  BY <1>14 DEF SinkFails
<1>15. ASSUME LoadConfig  PROVE Hands'
  BY <1>15 DEF LoadConfig
<1>16. ASSUME NEW new \in Ids, StartFails(new)  PROVE Hands'
  BY <1>16 DEF StartFails
<1>17. ASSUME NEW new \in Ids, StartSession(new)  PROVE Hands'
  BY <1>17 DEF StartSession
<1>18. ASSUME CloseSession  PROVE Hands'
  BY <1>18 DEF CloseSession
<1>19. ASSUME Destroying  PROVE Hands'
  BY <1>19 DEF Destroying, Fifo!EnqueueCall, ControlOnly
<1>20. ASSUME Nothing  PROVE Hands'
  BY <1>20 DEF Nothing, ControlOnly
<1>21. ASSUME EndPut  PROVE Hands'
  BY <1>21 DEF EndPut, Fifo!Put, ControlOnly
<1>22. ASSUME EndReady  PROVE Hands'
  BY <1>22 DEF EndReady, Fifo!Ready, ControlOnly
<1>23. ASSUME EndRefused  PROVE Hands'
  BY <1>23 DEF EndRefused, Fifo!Refuse, ControlOnly
<1>24. ASSUME EndAgain  PROVE Hands'
  BY <1>24 DEF EndAgain, Fifo!EnqueueCall, ControlOnly
<1>25. ASSUME Join  PROVE Hands'
  BY <1>25 DEF Join
<1>26. ASSUME CloseFlag  PROVE Hands'
  BY <1>26 DEF CloseFlag
<1> QED
  BY <1>1, <1>2, <1>3, <1>4, <1>5, <1>6, <1>7, <1>8, <1>9, <1>10, <1>11, <1>12, <1>13, <1>14, <1>15,
       <1>16, <1>17, <1>18, <1>19, <1>20, <1>21, <1>22, <1>23, <1>24, <1>25, <1>26, StepCases

(* A log is there as long as a quiet call uses it. *)
LEMMA QuietStep ==
  ASSUME TypeOK, Session, Calls, Quiet, Next
  PROVE  Quiet'
<1> USE DEF Session, Quiet, sessionVars, workerVars, callerVars, fifoVars, historyVars
<1>a. /\ session_opened \in BOOLEAN /\ file_chanel \in BOOLEAN /\ registered \in BOOLEAN /\ alive \in BOOLEAN
      /\ last_ex \in BOOLEAN /\ unquiet \in BOOLEAN /\ crashed \in BOOLEAN /\ starts \in Nat
      /\ at \in [Callers -> {"idle", "channel", "check", "push", "retry"}] /\ logger \in [Callers -> Nat]
  BY DEF TypeOK
<1>b. ~crashed
  BY DEF Next
<1> USE <1>a, <1>b
<1>1. ASSUME Ends  PROVE Quiet'
  BY <1>1 DEF Ends, Crash, Dangling
<1>2. ASSUME NEW c \in Callers, LogFile(c)  PROVE Quiet'
  BY <1>2 DEF LogFile
<1>3. ASSUME NEW c \in Callers, Found(c)  PROVE Quiet'
  BY <1>3 DEF Found
<1>4. ASSUME NEW c \in Callers, NEW m \in {<<c, sent[c]>>, item[c]}, Calling(c, m)  PROVE Quiet'
  BY <1>4 DEF Calling, Fifo!EnqueueCall
<1>5. ASSUME NEW c \in Callers, Putting(c)  PROVE Quiet'
  BY <1>5 DEF Putting, Fifo!Put
<1>6. ASSUME NEW c \in Callers, Accepting(c)  PROVE Quiet'
  BY <1>6 DEF Accepting, Fifo!Ready
<1>7. ASSUME NEW c \in Callers, Refused(c)  PROVE Quiet'
  BY <1>7 DEF Refused, Fifo!Refuse
<1>8. ASSUME Looking  PROVE Quiet'
  BY <1>8 DEF Looking, Fifo!DequeueCall, Elsewhere
<1>9. ASSUME Taking  PROVE Quiet'
  BY <1>9 DEF Taking, Fifo!Take, Elsewhere
<1>10. ASSUME Releasing  PROVE Quiet'
  BY <1>10 DEF Releasing, Fifo!Release, Elsewhere
<1>11. ASSUME Finding  PROVE Quiet'
  BY <1>11 DEF Finding, Fifo!Empty, Elsewhere
<1>12. ASSUME TerminateMsg  PROVE Quiet'
  BY <1>12 DEF TerminateMsg
<1>13. ASSUME SinkIt  PROVE Quiet'
  BY <1>13 DEF SinkIt
<1>14. ASSUME SinkFails  PROVE Quiet'
  BY <1>14 DEF SinkFails
<1>15. ASSUME LoadConfig  PROVE Quiet'
  BY <1>15 DEF LoadConfig
<1>16. ASSUME NEW new \in Ids, StartFails(new)  PROVE Quiet'
  BY <1>16 DEF StartFails
<1>17. ASSUME NEW new \in Ids, StartSession(new)  PROVE Quiet'
  <2>1. ctl = "idle" /\ ~session_opened /\ UNCHANGED <<unquiet, at, ctl, crashed>>
    BY <1>17 DEF StartSession
  <2> QED
    BY <2>1
<1>18. ASSUME CloseSession  PROVE Quiet'
  BY <1>18 DEF CloseSession
<1>19. ASSUME Destroying  PROVE Quiet'
  BY <1>19 DEF Destroying, Fifo!EnqueueCall, ControlOnly
<1>20. ASSUME Nothing  PROVE Quiet'
  BY <1>20 DEF Nothing, ControlOnly
<1>21. ASSUME EndPut  PROVE Quiet'
  BY <1>21 DEF EndPut, Fifo!Put, ControlOnly
<1>22. ASSUME EndReady  PROVE Quiet'
  BY <1>22 DEF EndReady, Fifo!Ready, ControlOnly
<1>23. ASSUME EndRefused  PROVE Quiet'
  BY <1>23 DEF EndRefused, Fifo!Refuse, ControlOnly
<1>24. ASSUME EndAgain  PROVE Quiet'
  BY <1>24 DEF EndAgain, Fifo!EnqueueCall, ControlOnly
<1>25. ASSUME Join  PROVE Quiet'
  BY <1>25 DEF Join
<1>26. ASSUME CloseFlag  PROVE Quiet'
  BY <1>26 DEF CloseFlag
<1> QED
  BY <1>1, <1>2, <1>3, <1>4, <1>5, <1>6, <1>7, <1>8, <1>9, <1>10, <1>11, <1>12, <1>13, <1>14, <1>15,
       <1>16, <1>17, <1>18, <1>19, <1>20, <1>21, <1>22, <1>23, <1>24, <1>25, <1>26, StepCases

(* A message that has its place keeps it until its call returns. *)
LEMMA WaitsStep ==
  ASSUME TypeOK, Calls, Waits, Next
  PROVE  Waits'
<1>1. ASSUME Ends  PROVE Waits'
  <2>1. UNCHANGED <<queue, call, item, logger, starts>>
    BY <1>1 DEF Ends, Crash, sessionVars, workerVars, callerVars, fifoVars, Elsewhere, ControlOnly
  <2> QED
    BY <2>1 DEF Waits
<1>2. ASSUME NEW c \in Callers, LogFile(c)  PROVE Waits'
  <2>1. UNCHANGED <<queue, call, item, logger, starts>>
    BY <1>2 DEF LogFile, sessionVars, workerVars, callerVars, fifoVars, Elsewhere, ControlOnly
  <2> QED
    BY <2>1 DEF Waits
<1>3. ASSUME NEW c \in Callers, Found(c)  PROVE Waits'
  <2>1. UNCHANGED <<queue, call, item, starts>> /\ logger' = [logger EXCEPT ![c] = starts] /\ call[c] = "idle"
    BY <1>3 DEF Found, Calls, sessionVars, fifoVars, TypeOK, Producers
  <2> QED
    BY <2>1 DEF Waits, TypeOK
<1>4. ASSUME NEW c \in Callers, NEW m \in {<<c, sent[c]>>, item[c]}, Calling(c, m)  PROVE Waits'
  <2>1. /\ UNCHANGED <<queue, logger, starts>> /\ call' = [call EXCEPT ![c] = "called"]
        /\ item' = [item EXCEPT ![c] = m]
    BY <1>4 DEF Calling, Fifo!EnqueueCall, sessionVars
  <2> QED
    BY <2>1 DEF Waits, TypeOK, Producers
<1>5. ASSUME NEW c \in Callers, Putting(c)  PROVE Waits'
  <2> DEFINE e == [msg |-> item[c], by |-> c]
  <2>1. /\ UNCHANGED <<item, logger, starts>> /\ call' = [call EXCEPT ![c] = "put"]
        /\ queue' = Append(queue, e) /\ c \in Producers
    BY <1>5 DEF Putting, Fifo!Put, Producers, sessionVars, callerVars
  <2>2. queue \in Seq(InQueue) /\ e.by = c /\ e.msg = item[c]
    BY DEF TypeOK
  <2> HIDE DEF e
  <2>3. \A i \in DOMAIN queue : i \in DOMAIN queue' /\ queue'[i] = queue[i]
    BY <2>1, <2>2
  <2>4. Len(queue) + 1 \in DOMAIN queue' /\ queue'[Len(queue) + 1] = e
    BY <2>1, <2>2
  <2>5. \A d \in Callers : d # c => call'[d] = call[d]
    BY <2>1 DEF TypeOK, Producers
  <2> QED
    BY <2>1, <2>2, <2>3, <2>4, <2>5 DEF Waits
<1>6. ASSUME NEW c \in Callers, Accepting(c)  PROVE Waits'
  <2>1. UNCHANGED <<logger, starts>> /\ Fifo!Ready(c) /\ c \in Producers
    BY <1>6 DEF Accepting, Producers, sessionVars
  <2>2. /\ call' = [call EXCEPT ![c] = "idle"] /\ UNCHANGED item
        /\ \A i \in DOMAIN queue : i \in DOMAIN queue' /\ queue'[i].msg = queue[i].msg
                                   /\ (queue[i].by # c => queue'[i].by = queue[i].by)
    BY <2>1, ReadyWaiting
  <2>3. \A d \in Callers : (d # c => call'[d] = call[d]) /\ (d = c => call'[d] = "idle")
    BY <2>1, <2>2 DEF TypeOK
  <2> QED
    BY <2>1, <2>2, <2>3 DEF Waits
<1>7. ASSUME NEW c \in Callers, Refused(c)  PROVE Waits'
  <2>1. UNCHANGED <<queue, item, logger, starts>> /\ call' = [call EXCEPT ![c] = "idle"]
    BY <1>7 DEF Refused, Fifo!Refuse, sessionVars
  <2> QED
    BY <2>1 DEF Waits, TypeOK, Producers
<1>8. ASSUME Looking  PROVE Waits'
  <2>1. UNCHANGED <<queue, call, item, logger, starts>>
    BY <1>8 DEF Looking, Fifo!DequeueCall, sessionVars, workerVars, callerVars, fifoVars, Elsewhere,
         ControlOnly
  <2> QED
    BY <2>1 DEF Waits
<1>9. ASSUME Taking  PROVE Waits'
  <2>1. /\ UNCHANGED <<call, item, logger, starts>> /\ queue # <<>> /\ Head(queue).by = NoOne
        /\ queue' = Tail(queue)
    BY <1>9, TakeWaiting DEF Taking, Elsewhere, sessionVars, callerVars
  <2>2. queue \in Seq(InQueue)
    BY DEF TypeOK
  <2>3. \A i \in DOMAIN queue : i = 1 \/ (i - 1 \in DOMAIN queue' /\ queue'[i - 1] = queue[i])
    BY <2>1, <2>2
  <2>4. queue[1].by = NoOne
    BY <2>1, <2>2
  <2>5. ASSUME NEW c \in Callers, call[c] = "put", logger[c] = starts
        PROVE  \E i \in DOMAIN queue' : queue'[i].by = c /\ queue'[i].msg = item[c]
    <3>1. PICK i \in DOMAIN queue : queue[i].by = c /\ queue[i].msg = item[c]
      BY <2>5 DEF Waits
    <3>2. i # 1
      BY <2>4, <3>1, LoggerAssumption
    <3>3. i - 1 \in DOMAIN queue' /\ queue'[i - 1] = queue[i]
      BY <2>3, <3>2
    <3> QED
      BY <3>1, <3>3
  <2> QED
    BY <2>1, <2>5 DEF Waits
<1>10. ASSUME Releasing  PROVE Waits'
  <2>1. UNCHANGED <<queue, call, item, logger, starts>>
    BY <1>10 DEF Releasing, Fifo!Release, sessionVars, workerVars, callerVars, fifoVars, Elsewhere,
         ControlOnly
  <2> QED
    BY <2>1 DEF Waits
<1>11. ASSUME Finding  PROVE Waits'
  <2>1. UNCHANGED <<queue, call, item, logger, starts>>
    BY <1>11 DEF Finding, Fifo!Empty, sessionVars, workerVars, callerVars, fifoVars, Elsewhere,
         ControlOnly
  <2> QED
    BY <2>1 DEF Waits
<1>12. ASSUME TerminateMsg  PROVE Waits'
  <2>1. UNCHANGED <<queue, call, item, logger, starts>>
    BY <1>12 DEF TerminateMsg, sessionVars, workerVars, callerVars, fifoVars, Elsewhere, ControlOnly
  <2> QED
    BY <2>1 DEF Waits
<1>13. ASSUME SinkIt  PROVE Waits'
  <2>1. UNCHANGED <<queue, call, item, logger, starts>>
    BY <1>13 DEF SinkIt, sessionVars, workerVars, callerVars, fifoVars, Elsewhere, ControlOnly
  <2> QED
    BY <2>1 DEF Waits
<1>14. ASSUME SinkFails  PROVE Waits'
  <2>1. UNCHANGED <<queue, call, item, logger, starts>>
    BY <1>14 DEF SinkFails, sessionVars, workerVars, callerVars, fifoVars, Elsewhere, ControlOnly
  <2> QED
    BY <2>1 DEF Waits
<1>15. ASSUME LoadConfig  PROVE Waits'
  <2>1. UNCHANGED <<queue, call, item, logger, starts>>
    BY <1>15 DEF LoadConfig, sessionVars, workerVars, callerVars, fifoVars, Elsewhere, ControlOnly
  <2> QED
    BY <2>1 DEF Waits
<1>16. ASSUME NEW new \in Ids, StartFails(new)  PROVE Waits'
  <2>1. UNCHANGED <<queue, call, item, logger, starts>>
    BY <1>16 DEF StartFails, sessionVars, workerVars, callerVars, fifoVars, Elsewhere, ControlOnly
  <2> QED
    BY <2>1 DEF Waits
<1>17. ASSUME NEW new \in Ids, StartSession(new)  PROVE Waits'
  <2>1. starts' = starts + 1 /\ UNCHANGED logger
    BY <1>17 DEF StartSession
  <2>2. \A c \in Callers : logger'[c] # starts'
    BY <2>1 DEF Calls, TypeOK
  <2> QED
    BY <2>2 DEF Waits
<1>18. ASSUME CloseSession  PROVE Waits'
  <2>1. UNCHANGED <<queue, call, item, logger, starts>>
    BY <1>18 DEF CloseSession, sessionVars, workerVars, callerVars, fifoVars, Elsewhere, ControlOnly
  <2> QED
    BY <2>1 DEF Waits
<1>19. ASSUME Destroying  PROVE Waits'
  <2>1. /\ UNCHANGED <<queue, logger, starts>> /\ call' = [call EXCEPT ![Control] = "called"]
        /\ item' = [item EXCEPT ![Control] = Terminate]
    BY <1>19 DEF Destroying, Fifo!EnqueueCall, ControlOnly, callerVars
  <2> QED
    BY <2>1, LoggerAssumption DEF Waits, TypeOK, Producers
<1>20. ASSUME Nothing  PROVE Waits'
  <2>1. UNCHANGED <<queue, call, item, logger, starts>>
    BY <1>20 DEF Nothing, sessionVars, workerVars, callerVars, fifoVars, Elsewhere, ControlOnly
  <2> QED
    BY <2>1 DEF Waits
<1>21. ASSUME EndPut  PROVE Waits'
  <2> DEFINE e == [msg |-> item[Control], by |-> Control]
  <2>1. /\ UNCHANGED <<item, logger, starts>> /\ call' = [call EXCEPT ![Control] = "put"]
        /\ queue' = Append(queue, e) /\ Control \in Producers
    BY <1>21 DEF EndPut, Fifo!Put, Producers, ControlOnly, callerVars
  <2>2. queue \in Seq(InQueue) /\ e.by = Control /\ e.msg = item[Control]
    BY DEF TypeOK
  <2> HIDE DEF e
  <2>3. \A i \in DOMAIN queue : i \in DOMAIN queue' /\ queue'[i] = queue[i]
    BY <2>1, <2>2
  <2>4. Len(queue) + 1 \in DOMAIN queue' /\ queue'[Len(queue) + 1] = e
    BY <2>1, <2>2
  <2>5. \A d \in Callers : d # Control => call'[d] = call[d]
    BY <2>1 DEF TypeOK, Producers
  <2> QED
    BY <2>1, <2>2, <2>3, <2>4, <2>5 DEF Waits
<1>22. ASSUME EndReady  PROVE Waits'
  <2>1. UNCHANGED <<logger, starts>> /\ Fifo!Ready(Control) /\ Control \in Producers
    BY <1>22 DEF EndReady, Producers, ControlOnly, callerVars
  <2>2. /\ call' = [call EXCEPT ![Control] = "idle"] /\ UNCHANGED item
        /\ \A i \in DOMAIN queue : i \in DOMAIN queue' /\ queue'[i].msg = queue[i].msg
                                   /\ (queue[i].by # Control => queue'[i].by = queue[i].by)
    BY <2>1, ReadyWaiting
  <2>3. \A d \in Callers : (d # Control => call'[d] = call[d]) /\ (d = Control => call'[d] = "idle")
    BY <2>1, <2>2 DEF TypeOK
  <2> QED
    BY <2>1, <2>2, <2>3 DEF Waits
<1>23. ASSUME EndRefused  PROVE Waits'
  <2>1. UNCHANGED <<queue, item, logger, starts>> /\ call' = [call EXCEPT ![Control] = "idle"]
    BY <1>23 DEF EndRefused, Fifo!Refuse, ControlOnly, callerVars
  <2> QED
    BY <2>1, LoggerAssumption DEF Waits, TypeOK, Producers
<1>24. ASSUME EndAgain  PROVE Waits'
  <2>1. /\ UNCHANGED <<queue, logger, starts>> /\ call' = [call EXCEPT ![Control] = "called"]
        /\ item' = [item EXCEPT ![Control] = Terminate]
    BY <1>24 DEF EndAgain, Fifo!EnqueueCall, ControlOnly, callerVars
  <2> QED
    BY <2>1, LoggerAssumption DEF Waits, TypeOK, Producers
<1>25. ASSUME Join  PROVE Waits'
  <2>1. UNCHANGED <<queue, call, item, logger, starts>>
    BY <1>25 DEF Join, sessionVars, workerVars, callerVars, fifoVars, Elsewhere, ControlOnly
  <2> QED
    BY <2>1 DEF Waits
<1>26. ASSUME CloseFlag  PROVE Waits'
  <2>1. UNCHANGED <<queue, call, item, logger, starts>>
    BY <1>26 DEF CloseFlag, sessionVars, workerVars, callerVars, fifoVars, Elsewhere, ControlOnly
  <2> QED
    BY <2>1 DEF Waits
<1> QED
  BY <1>1, <1>2, <1>3, <1>4, <1>5, <1>6, <1>7, <1>8, <1>9, <1>10, <1>11, <1>12, <1>13, <1>14, <1>15,
       <1>16, <1>17, <1>18, <1>19, <1>20, <1>21, <1>22, <1>23, <1>24, <1>25, <1>26, StepCases

-----------------------------------------------------------------------------
(* What is accepted and what is promised. *)

LEMMA SetAppended ==
  ASSUME NEW S, NEW s \in Seq(S), NEW m \in S
  PROVE  ToSet(Append(s, m)) = ToSet(s) \cup {m}
<1>1. \A i \in DOMAIN s : i \in DOMAIN Append(s, m) /\ Append(s, m)[i] = s[i]
  OBVIOUS
<1>2. Len(s) + 1 \in DOMAIN Append(s, m) /\ Append(s, m)[Len(s) + 1] = m
  OBVIOUS
<1>3. \A i \in DOMAIN Append(s, m) : i \in DOMAIN s \/ i = Len(s) + 1
  OBVIOUS
<1>4. ToSet(Append(s, m)) \subseteq ToSet(s) \cup {m}
  BY <1>1, <1>2, <1>3 DEF ToSet
<1>5. ToSet(s) \cup {m} \subseteq ToSet(Append(s, m))
  BY <1>1, <1>2 DEF ToSet
<1> QED
  BY <1>4, <1>5

LEMMA SetTaken ==
  ASSUME NEW S, NEW s \in Seq(S), s # <<>>
  PROVE  ToSet(s) = {Head(s)} \cup ToSet(Tail(s))
<1>1. 1 \in DOMAIN s /\ Head(s) = s[1]
  OBVIOUS
<1>2. \A i \in DOMAIN Tail(s) : i + 1 \in DOMAIN s /\ Tail(s)[i] = s[i + 1]
  OBVIOUS
<1>3. \A i \in DOMAIN s : i = 1 \/ (i - 1 \in DOMAIN Tail(s) /\ Tail(s)[i - 1] = s[i])
  OBVIOUS
<1>4. ToSet(s) \subseteq {Head(s)} \cup ToSet(Tail(s))
  BY <1>1, <1>3 DEF ToSet
<1>5. {Head(s)} \cup ToSet(Tail(s)) \subseteq ToSet(s)
  BY <1>1, <1>2 DEF ToSet
<1> QED
  BY <1>4, <1>5

LEMMA SetSmall == ToSet(<<>>) = {} /\ \A m : ToSet(<<m>>) = {m}
  BY DEF ToSet

LEMMA HeldSet == ToSet(held) = IF Holds THEN {out} ELSE {}
  BY SetSmall DEF held

(* The worker's message in the three states of its hands. *)
LEMMA Handing ==
  ASSUME TypeOK, Hands
  PROVE  /\ Taking => held = <<>> /\ held' = <<Head(waiting)>>
         /\ Releasing \/ Looking \/ Finding => held' = held
         /\ TerminateMsg => held = <<Terminate>> /\ held' = <<>>
         /\ SinkIt => held = <<out>> /\ held' = <<>> /\ out \in Logged
         /\ SinkFails => held' = <<>> /\ out \in Logged /\ held = <<out>>
<1>1. ASSUME Taking  PROVE held = <<>> /\ held' = <<Head(waiting)>>
  <2>1. taking = "called" /\ worker = "loop" /\ taking' = "taken" /\ out' = Head(waiting)
    BY <1>1, TakeWaiting DEF Taking
  <2> QED
    BY <2>1 DEF held, Holds
<1>2. Releasing \/ Looking \/ Finding => held' = held
  BY DEF Releasing, Looking, Finding, Fifo!Release, Fifo!DequeueCall, Fifo!Empty, held, Holds
<1>3. TerminateMsg => held = <<Terminate>> /\ held' = <<>>
  BY DEF TerminateMsg, Hands, held, Holds, fifoVars
<1>4. SinkIt \/ SinkFails => held = <<out>> /\ held' = <<>> /\ out \in Logged
  BY DEF SinkIt, SinkFails, Hands, held, Holds, fifoVars, LogMessages
<1> QED
  BY <1>1, <1>2, <1>3, <1>4

LEMMA AcceptedStep ==
  ASSUME TypeOK, Calls, Hands, Waits, Accepted, Next
  PROVE  Accepted'
<1>1. ASSUME Ends  PROVE Accepted'
  <2>1. UNCHANGED <<accepted, promised, last_ex, written, queue, out, taking, worker>>
    BY <1>1 DEF Ends, sessionVars, workerVars, callerVars, fifoVars, historyVars, Elsewhere,
         ControlOnly, Crash
  <2> QED
    BY <2>1 DEF Accepted, waiting, held, Holds
<1>2. ASSUME NEW c \in Callers, LogFile(c)  PROVE Accepted'
  <2>1. UNCHANGED <<accepted, promised, last_ex, written, queue, out, taking, worker>>
    BY <1>2 DEF LogFile, sessionVars, workerVars, callerVars, fifoVars, historyVars, Elsewhere,
         ControlOnly
  <2> QED
    BY <2>1 DEF Accepted, waiting, held, Holds
<1>3. ASSUME NEW c \in Callers, Found(c)  PROVE Accepted'
  <2>1. UNCHANGED <<accepted, promised, last_ex, written, queue, out, taking, worker>>
    BY <1>3 DEF Found, sessionVars, workerVars, callerVars, fifoVars, historyVars, Elsewhere,
         ControlOnly
  <2> QED
    BY <2>1 DEF Accepted, waiting, held, Holds
<1>4. ASSUME NEW c \in Callers, NEW m \in {<<c, sent[c]>>, item[c]}, Calling(c, m)  PROVE Accepted'
  <2>1. UNCHANGED <<accepted, promised, last_ex, written, queue, out, taking, worker>>
    BY <1>4 DEF Calling, sessionVars, workerVars, callerVars, fifoVars, historyVars, Elsewhere,
         ControlOnly, Fifo!EnqueueCall
  <2> QED
    BY <2>1 DEF Accepted, waiting, held, Holds
<1>5. ASSUME NEW c \in Callers, Putting(c)  PROVE Accepted'
  <2>1. item[c] \in LogMessages /\ c \in Producers
    BY <1>5, OwnItem DEF Putting, LogMessages, Calls, Producers
  <2>2. waiting' = Append(waiting, item[c]) /\ UNCHANGED <<taking, out>>
    BY <1>5, <2>1, PutWaiting DEF Putting
  <2>3. UNCHANGED <<accepted, promised, last_ex, written, worker>>
    BY <1>5 DEF Putting, ControlOnly, workerVars, callerVars, historyVars
  <2>4. ToSet(waiting) \subseteq ToSet(waiting')
    BY <2>1, <2>2, WaitingType, SetAppended
  <2> QED
    BY <2>2, <2>3, <2>4 DEF Accepted, held, Holds
<1>6. ASSUME NEW c \in Callers, Accepting(c)  PROVE Accepted'
  <2>1. c \in Producers /\ Fifo!Ready(c) /\ logger[c] = starts /\ accepted' = accepted \cup {item[c]}
    BY <1>6, OwnItem DEF Accepting, Dangling
  <2>2. waiting' = waiting /\ call[c] = "put" /\ UNCHANGED <<taking, out>>
    BY <2>1, ReadyWaiting
  <2>3. UNCHANGED <<promised, last_ex, written, worker>>
    BY <1>6 DEF Accepting, workerVars, historyVars
  <2>4. item[c] \in ToSet(waiting)
    <3>1. PICK i \in DOMAIN queue : queue[i].msg = item[c]
      BY <2>1, <2>2 DEF Waits
    <3>2. i \in DOMAIN waiting /\ waiting[i] = queue[i].msg
      BY <3>1 DEF waiting, MessagesOf
    <3> QED
      BY <3>1, <3>2 DEF ToSet
  <2> QED
    BY <2>1, <2>2, <2>3, <2>4 DEF Accepted, held, Holds
<1>7. ASSUME NEW c \in Callers, Refused(c)  PROVE Accepted'
  <2>1. UNCHANGED <<accepted, promised, last_ex, written, queue, out, taking, worker>>
    BY <1>7 DEF Refused, sessionVars, workerVars, callerVars, fifoVars, historyVars, Elsewhere,
         ControlOnly, Fifo!Refuse
  <2> QED
    BY <2>1 DEF Accepted, waiting, held, Holds
<1>8. ASSUME Looking  PROVE Accepted'
  <2>1. UNCHANGED <<accepted, promised, last_ex, written, queue>> /\ held' = held
    BY <1>8, Handing DEF Looking, sessionVars, workerVars, callerVars, fifoVars, historyVars,
         Elsewhere, ControlOnly, Fifo!DequeueCall
  <2> QED
    BY <2>1 DEF Accepted, waiting
<1>9. ASSUME Taking  PROVE Accepted'
  <2>1. waiting # <<>> /\ waiting' = Tail(waiting) /\ waiting \in Seq(LogMessages)
    BY <1>9, TakeWaiting, WaitingType DEF Taking
  <2>2. held = <<>> /\ held' = <<Head(waiting)>>
    BY <1>9, Handing
  <2>3. UNCHANGED <<accepted, promised, last_ex, written>>
    BY <1>9 DEF Taking, Elsewhere, callerVars, historyVars
  <2>4. ToSet(held) \cup ToSet(waiting) = ToSet(held)' \cup ToSet(waiting)'
    BY <2>1, <2>2, SetTaken, SetSmall
  <2> QED
    BY <2>3, <2>4 DEF Accepted
<1>10. ASSUME Releasing  PROVE Accepted'
  <2>1. UNCHANGED <<accepted, promised, last_ex, written, queue>> /\ held' = held
    BY <1>10, Handing DEF Releasing, sessionVars, workerVars, callerVars, fifoVars, historyVars,
         Elsewhere, ControlOnly, Fifo!Release
  <2> QED
    BY <2>1 DEF Accepted, waiting
<1>11. ASSUME Finding  PROVE Accepted'
  <2>1. UNCHANGED <<accepted, promised, last_ex, written, queue>> /\ held' = held
    BY <1>11, Handing DEF Finding, sessionVars, workerVars, callerVars, fifoVars, historyVars,
         Elsewhere, ControlOnly, Fifo!Empty
  <2> QED
    BY <2>1 DEF Accepted, waiting
<1>12. ASSUME TerminateMsg  PROVE Accepted'
  <2>1. held = <<Terminate>> /\ held' = <<>>
    BY <1>12, Handing
  <2>2. UNCHANGED <<accepted, promised, last_ex, written, waiting>>
    BY <1>12 DEF TerminateMsg, fifoVars, callerVars, historyVars, waiting
  <2>3. Terminate \notin accepted
    BY LoggerAssumption DEF TypeOK, Logged
  <2> QED
    BY <2>1, <2>2, <2>3, SetSmall DEF Accepted
<1>13. ASSUME SinkIt  PROVE Accepted'
  <2>1. held = <<out>> /\ held' = <<>> /\ out \in Logged
    BY <1>13, Handing
  <2>2. UNCHANGED <<accepted, promised, last_ex, waiting>> /\ written' = Append(written, out)
        /\ written \in Seq(Logged)
    BY <1>13 DEF SinkIt, fifoVars, callerVars, historyVars, waiting, TypeOK
  <2>3. ToSet(written') = ToSet(written) \cup {out}
    BY <2>1, <2>2, SetAppended
  <2> QED
    BY <2>1, <2>2, <2>3, SetSmall DEF Accepted
<1>14. ASSUME SinkFails  PROVE Accepted'
  <2>1. UNCHANGED <<accepted, promised>> /\ last_ex'
    BY <1>14 DEF SinkFails, callerVars, historyVars
  <2> QED
    BY <2>1 DEF Accepted
<1>15. ASSUME LoadConfig  PROVE Accepted'
  <2>1. UNCHANGED <<accepted, promised, last_ex, written, queue, out, taking, worker>>
    BY <1>15 DEF LoadConfig, sessionVars, workerVars, callerVars, fifoVars, historyVars, Elsewhere,
         ControlOnly
  <2> QED
    BY <2>1 DEF Accepted, waiting, held, Holds
<1>16. ASSUME NEW new \in Ids, StartFails(new)  PROVE Accepted'
  <2>1. UNCHANGED <<accepted, promised, last_ex, written, queue, out, taking, worker>>
    BY <1>16 DEF StartFails, sessionVars, workerVars, callerVars, fifoVars, historyVars, Elsewhere,
         ControlOnly
  <2> QED
    BY <2>1 DEF Accepted, waiting, held, Holds
<1>17. ASSUME NEW new \in Ids, StartSession(new)  PROVE Accepted'
  <2>1. accepted' = {} /\ promised' = {}
    BY <1>17 DEF StartSession
  <2> QED
    BY <2>1 DEF Accepted
<1>18. ASSUME CloseSession  PROVE Accepted'
  <2>1. UNCHANGED <<accepted, last_ex, written, queue, out, taking, worker>>
        /\ (promised' = accepted \/ promised' = promised)
    BY <1>18 DEF CloseSession, workerVars, callerVars, fifoVars
  <2> QED
    BY <2>1 DEF Accepted, waiting, held, Holds
<1>19. ASSUME Destroying  PROVE Accepted'
  <2>1. UNCHANGED <<accepted, promised, last_ex, written, queue, out, taking, worker>>
    BY <1>19 DEF Destroying, sessionVars, workerVars, callerVars, fifoVars, historyVars, Elsewhere,
         ControlOnly, Fifo!EnqueueCall
  <2> QED
    BY <2>1 DEF Accepted, waiting, held, Holds
<1>20. ASSUME Nothing  PROVE Accepted'
  <2>1. UNCHANGED <<accepted, promised, last_ex, written, queue, out, taking, worker>>
    BY <1>20 DEF Nothing, sessionVars, workerVars, callerVars, fifoVars, historyVars, Elsewhere,
         ControlOnly
  <2> QED
    BY <2>1 DEF Accepted, waiting, held, Holds
<1>21. ASSUME EndPut  PROVE Accepted'
  <2>1. item[Control] \in LogMessages /\ Control \in Producers
    BY <1>21, OwnItem DEF EndPut, LogMessages, Calls, Producers
  <2>2. waiting' = Append(waiting, item[Control]) /\ UNCHANGED <<taking, out>>
    BY <1>21, <2>1, PutWaiting DEF EndPut
  <2>3. UNCHANGED <<accepted, promised, last_ex, written, worker>>
    BY <1>21 DEF EndPut, ControlOnly, workerVars, callerVars, historyVars
  <2>4. ToSet(waiting) \subseteq ToSet(waiting')
    BY <2>1, <2>2, WaitingType, SetAppended
  <2> QED
    BY <2>2, <2>3, <2>4 DEF Accepted, held, Holds
<1>22. ASSUME EndReady  PROVE Accepted'
  <2>1. waiting' = waiting /\ UNCHANGED <<taking, out>>
    BY <1>22, ReadyWaiting DEF EndReady, Producers
  <2>2. UNCHANGED <<accepted, promised, last_ex, written, worker>>
    BY <1>22 DEF EndReady, ControlOnly, workerVars, callerVars, historyVars
  <2> QED
    BY <2>1, <2>2 DEF Accepted, held, Holds
<1>23. ASSUME EndRefused  PROVE Accepted'
  <2>1. UNCHANGED <<accepted, promised, last_ex, written, queue, out, taking, worker>>
    BY <1>23 DEF EndRefused, sessionVars, workerVars, callerVars, fifoVars, historyVars, Elsewhere,
         ControlOnly, Fifo!Refuse
  <2> QED
    BY <2>1 DEF Accepted, waiting, held, Holds
<1>24. ASSUME EndAgain  PROVE Accepted'
  <2>1. UNCHANGED <<accepted, promised, last_ex, written, queue, out, taking, worker>>
    BY <1>24 DEF EndAgain, sessionVars, workerVars, callerVars, fifoVars, historyVars, Elsewhere,
         ControlOnly, Fifo!EnqueueCall
  <2> QED
    BY <2>1 DEF Accepted, waiting, held, Holds
<1>25. ASSUME Join  PROVE Accepted'
  <2>1. UNCHANGED <<accepted, promised, last_ex, written, queue, out, taking, worker>>
    BY <1>25 DEF Join, sessionVars, workerVars, callerVars, fifoVars, historyVars, Elsewhere,
         ControlOnly
  <2> QED
    BY <2>1 DEF Accepted, waiting, held, Holds
<1>26. ASSUME CloseFlag  PROVE Accepted'
  <2>1. UNCHANGED <<accepted, promised, last_ex, written, queue, out, taking, worker>>
    BY <1>26 DEF CloseFlag, sessionVars, workerVars, callerVars, fifoVars, historyVars, Elsewhere,
         ControlOnly
  <2> QED
    BY <2>1 DEF Accepted, waiting, held, Holds
<1> QED
  BY <1>1, <1>2, <1>3, <1>4, <1>5, <1>6, <1>7, <1>8, <1>9, <1>10, <1>11, <1>12, <1>13, <1>14, <1>15,
       <1>16, <1>17, <1>18, <1>19, <1>20, <1>21, <1>22, <1>23, <1>24, <1>25, <1>26, StepCases

LEMMA QuietPromised ==
  ASSUME Promised, UNCHANGED <<promised, stop, written, last_ex, alive, waiting, held>>, file_chanel' => file_chanel
  PROVE  Promised'
  BY DEF Promised, Ending

LEMMA PutPromised ==
  ASSUME TypeOK, Promised, NEW m \in LogMessages, waiting' = Append(waiting, m), m \notin promised,
         file_chanel => m # Terminate, UNCHANGED <<promised, stop, written, last_ex, alive, held, file_chanel>>
  PROVE  Promised'
<1>1. waiting \in Seq(LogMessages) /\ ToSet(waiting') = ToSet(waiting) \cup {m}
  BY WaitingType, SetAppended
<1>2. Behind(waiting', promised)
  <2> SUFFICES ASSUME NEW i \in DOMAIN waiting', NEW j \in DOMAIN waiting', i < j, waiting'[i] = Terminate
               PROVE  waiting'[j] \notin promised
    BY DEF Behind
  <2>1. (j \in DOMAIN waiting /\ i \in DOMAIN waiting /\ waiting'[j] = waiting[j] /\ waiting'[i] = waiting[i])
          \/ waiting'[j] = m
    BY <1>1
  <2> QED
    BY <2>1 DEF Promised, Behind
<1> QED
  BY <1>1, <1>2 DEF Promised, Ending

(* What has its place is not among the promised: its call has not returned. *)
LEMMA NotPromised ==
  ASSUME TypeOK, Calls, Accepted, InOrder, NEW c \in Callers, at[c] = "push", call[c] = "called"
  PROVE  item[c] \notin promised
<1>1. item[c] = <<c, sent[c]>> /\ item[c] \in Logged /\ sent[c] \in Nat
  BY OwnItem DEF TypeOK
<1>2. LastPut[c] = sent[c] - 1
  BY DEF LastPut, NotPut
<1>3. ~(item[c][2] <= LastPut[item[c][1]])
  BY <1>1, <1>2
<1> QED
  BY <1>1, <1>3 DEF Accepted, InOrder, AllPast, Past

LEMMA PromisedStep ==
  ASSUME TypeOK, Session, Calls, Hands, Accepted, InOrder, Promised, Next
  PROVE  Promised'
<1>1. ASSUME Ends  PROVE Promised'
  <2>1. UNCHANGED <<promised, stop, written, last_ex, alive, queue>> /\ (file_chanel' => file_chanel)
    BY <1>1 DEF Ends, sessionVars, workerVars, callerVars, fifoVars, historyVars, Elsewhere,
         ControlOnly, Crash
  <2>2. waiting' = waiting /\ held' = held
    BY <2>1, <1>1 DEF Ends, sessionVars, workerVars, callerVars, fifoVars, historyVars, Elsewhere,
         ControlOnly, Crash, held, Holds, waiting
  <2> QED
    BY <2>1, <2>2, QuietPromised
<1>2. ASSUME NEW c \in Callers, LogFile(c)  PROVE Promised'
  <2>1. UNCHANGED <<promised, stop, written, last_ex, alive, queue>> /\ (file_chanel' => file_chanel)
    BY <1>2 DEF LogFile, sessionVars, workerVars, callerVars, fifoVars, historyVars, Elsewhere,
         ControlOnly
  <2>2. waiting' = waiting /\ held' = held
    BY <2>1, <1>2 DEF LogFile, sessionVars, workerVars, callerVars, fifoVars, historyVars,
         Elsewhere, ControlOnly, held, Holds, waiting
  <2> QED
    BY <2>1, <2>2, QuietPromised
<1>3. ASSUME NEW c \in Callers, Found(c)  PROVE Promised'
  <2>1. UNCHANGED <<promised, stop, written, last_ex, alive, queue>> /\ (file_chanel' => file_chanel)
    BY <1>3 DEF Found, sessionVars, workerVars, callerVars, fifoVars, historyVars, Elsewhere,
         ControlOnly
  <2>2. waiting' = waiting /\ held' = held
    BY <2>1, <1>3 DEF Found, sessionVars, workerVars, callerVars, fifoVars, historyVars, Elsewhere,
         ControlOnly, held, Holds, waiting
  <2> QED
    BY <2>1, <2>2, QuietPromised
<1>4. ASSUME NEW c \in Callers, NEW m \in {<<c, sent[c]>>, item[c]}, Calling(c, m)  PROVE Promised'
  <2>1. UNCHANGED <<promised, stop, written, last_ex, alive, queue>> /\ (file_chanel' => file_chanel)
    BY <1>4 DEF Calling, sessionVars, workerVars, callerVars, fifoVars, historyVars, Elsewhere,
         ControlOnly, Fifo!EnqueueCall
  <2>2. waiting' = waiting /\ held' = held
    BY <2>1, <1>4 DEF Calling, sessionVars, workerVars, callerVars, fifoVars, historyVars,
         Elsewhere, ControlOnly, Fifo!EnqueueCall, held, Holds, waiting
  <2> QED
    BY <2>1, <2>2, QuietPromised
<1>5. ASSUME NEW c \in Callers, Putting(c)  PROVE Promised'
  <2>1. UNCHANGED <<promised, stop, written, last_ex, alive, file_chanel, worker>> /\ Fifo!Put(c)
        /\ c \in Producers
    BY <1>5 DEF Putting, sessionVars, workerVars, historyVars, ControlOnly, Producers
  <2>2. at[c] = "push" /\ call[c] = "called"
    BY <1>5 DEF Putting, Fifo!Put
  <2>3. item[c] \in LogMessages /\ item[c] # Terminate /\ item[c] \notin promised
    BY <2>2, OwnItem, NotPromised, LoggerAssumption DEF LogMessages, Logged
  <2>4. waiting' = Append(waiting, item[c]) /\ UNCHANGED <<taking, out>>
    BY <2>1, <2>3, PutWaiting
  <2> QED
    BY <2>1, <2>3, <2>4, PutPromised DEF held, Holds
<1>6. ASSUME NEW c \in Callers, Accepting(c)  PROVE Promised'
  <2>1. UNCHANGED <<promised, stop, written, last_ex, alive, file_chanel, worker>> /\ Fifo!Ready(c)
        /\ c \in Producers
    BY <1>6 DEF Accepting, sessionVars, workerVars, historyVars, ControlOnly, Producers
  <2>2. waiting' = waiting /\ UNCHANGED <<taking, out>>
    BY <2>1, ReadyWaiting
  <2> QED
    BY <2>1, <2>2, QuietPromised DEF held, Holds
<1>7. ASSUME NEW c \in Callers, Refused(c)  PROVE Promised'
  <2>1. UNCHANGED <<promised, stop, written, last_ex, alive, queue>> /\ (file_chanel' => file_chanel)
    BY <1>7 DEF Refused, sessionVars, workerVars, callerVars, fifoVars, historyVars, Elsewhere,
         ControlOnly, Fifo!Refuse
  <2>2. waiting' = waiting /\ held' = held
    BY <2>1, <1>7 DEF Refused, sessionVars, workerVars, callerVars, fifoVars, historyVars,
         Elsewhere, ControlOnly, Fifo!Refuse, held, Holds, waiting
  <2> QED
    BY <2>1, <2>2, QuietPromised
<1>8. ASSUME Looking  PROVE Promised'
  <2>1. UNCHANGED <<promised, stop, written, last_ex, alive, queue>> /\ (file_chanel' => file_chanel)
    BY <1>8 DEF Looking, sessionVars, workerVars, callerVars, fifoVars, historyVars, Elsewhere,
         ControlOnly, Fifo!DequeueCall
  <2>2. waiting' = waiting /\ held' = held
    BY <2>1, <1>8 DEF Looking, sessionVars, workerVars, callerVars, fifoVars, historyVars,
         Elsewhere, ControlOnly, Fifo!DequeueCall, held, Holds, waiting
  <2> QED
    BY <2>1, <2>2, QuietPromised
<1>9. ASSUME Taking  PROVE Promised'
  <2>1. waiting # <<>> /\ waiting' = Tail(waiting) /\ waiting \in Seq(LogMessages)
    BY <1>9, TakeWaiting, WaitingType DEF Taking
  <2>2. held = <<>> /\ held' = <<Head(waiting)>>
    BY <1>9, Handing
  <2>3. UNCHANGED <<promised, stop, written, last_ex, alive, file_chanel>>
    BY <1>9 DEF Taking, Elsewhere, sessionVars, historyVars
  <2>4. ToSet(waiting) = {Head(waiting)} \cup ToSet(waiting')
    BY <2>1, SetTaken
  <2>5. /\ 1 \in DOMAIN waiting /\ Head(waiting) = waiting[1]
        /\ \A i \in DOMAIN waiting' : i + 1 \in DOMAIN waiting /\ 1 < i + 1 /\ waiting'[i] = waiting[i + 1]
        /\ \A i, j \in DOMAIN waiting' : i < j => i + 1 < j + 1
    BY <2>1
  <2>6. Behind(waiting', promised) /\ (Head(waiting) = Terminate => promised \cap ToSet(waiting') = {})
    BY <2>5 DEF Promised, Behind, ToSet
  <2>7. Ending => stop
    BY <2>2, SetSmall DEF Ending
  <2>8. Ending' => stop \/ Head(waiting) = Terminate
    BY <2>2, <2>3, SetSmall DEF Ending
  <2> QED
    BY <2>3, <2>4, <2>6, <2>7, <2>8 DEF Promised, Ending
<1>10. ASSUME Releasing  PROVE Promised'
  <2>1. UNCHANGED <<promised, stop, written, last_ex, alive, queue>> /\ (file_chanel' => file_chanel)
    BY <1>10 DEF Releasing, sessionVars, workerVars, callerVars, fifoVars, historyVars, Elsewhere,
         ControlOnly, Fifo!Release
  <2>2. waiting' = waiting /\ held' = held
    BY <2>1, <1>10 DEF Releasing, sessionVars, workerVars, callerVars, fifoVars, historyVars,
         Elsewhere, ControlOnly, Fifo!Release, held, Holds, waiting
  <2> QED
    BY <2>1, <2>2, QuietPromised
<1>11. ASSUME Finding  PROVE Promised'
  <2>1. UNCHANGED <<promised, stop, written, last_ex, alive, queue>> /\ (file_chanel' => file_chanel)
    BY <1>11 DEF Finding, sessionVars, workerVars, callerVars, fifoVars, historyVars, Elsewhere,
         ControlOnly, Fifo!Empty
  <2>2. waiting' = waiting /\ held' = held
    BY <2>1, <1>11 DEF Finding, sessionVars, workerVars, callerVars, fifoVars, historyVars,
         Elsewhere, ControlOnly, Fifo!Empty, held, Holds, waiting
  <2> QED
    BY <2>1, <2>2, QuietPromised
<1>12. ASSUME TerminateMsg  PROVE Promised'
  <2>1. held = <<Terminate>> /\ held' = <<>> /\ stop'
    BY <1>12, Handing DEF TerminateMsg
  <2>2. UNCHANGED <<promised, last_ex, written, waiting, alive, file_chanel>>
    BY <1>12 DEF TerminateMsg, fifoVars, sessionVars, historyVars, waiting
  <2>3. Ending /\ Ending'
    BY <2>1, SetSmall DEF Ending
  <2> QED
    BY <2>2, <2>3 DEF Promised
<1>13. ASSUME SinkIt  PROVE Promised'
  <2>1. held = <<out>> /\ held' = <<>> /\ out \in Logged
    BY <1>13, Handing
  <2>2. UNCHANGED <<promised, last_ex, stop, waiting, alive, file_chanel>>
        /\ written' = Append(written, out) /\ written \in Seq(Logged)
    BY <1>13 DEF SinkIt, fifoVars, sessionVars, historyVars, waiting, TypeOK
  <2>3. ToSet(written') = ToSet(written) \cup {out}
    BY <2>1, <2>2, SetAppended
  <2>4. Ending' = Ending
    BY <2>1, <2>2, SetSmall, LoggerAssumption DEF Ending, Logged
  <2> QED
    BY <2>2, <2>3, <2>4 DEF Promised
<1>14. ASSUME SinkFails  PROVE Promised'
  <2>1. held = <<out>> /\ held' = <<>> /\ out \in Logged
    BY <1>14, Handing
  <2>2. UNCHANGED <<promised, stop, waiting, alive, file_chanel>> /\ last_ex'
    BY <1>14 DEF SinkFails, fifoVars, sessionVars, historyVars, waiting
  <2>3. Ending' = Ending
    BY <2>1, <2>2, SetSmall, LoggerAssumption DEF Ending, Logged
  <2> QED
    BY <2>2, <2>3 DEF Promised
<1>15. ASSUME LoadConfig  PROVE Promised'
  <2>1. UNCHANGED <<promised, stop, written, last_ex, alive, queue>> /\ (file_chanel' => file_chanel)
    BY <1>15 DEF LoadConfig, sessionVars, workerVars, callerVars, fifoVars, historyVars, Elsewhere,
         ControlOnly
  <2>2. waiting' = waiting /\ held' = held
    BY <2>1, <1>15 DEF LoadConfig, sessionVars, workerVars, callerVars, fifoVars, historyVars,
         Elsewhere, ControlOnly, held, Holds, waiting
  <2> QED
    BY <2>1, <2>2, QuietPromised
<1>16. ASSUME NEW new \in Ids, StartFails(new)  PROVE Promised'
  <2>1. UNCHANGED <<promised, stop, written, last_ex, alive, queue>> /\ (file_chanel' => file_chanel)
    BY <1>16 DEF StartFails, sessionVars, workerVars, callerVars, fifoVars, historyVars, Elsewhere,
         ControlOnly
  <2>2. waiting' = waiting /\ held' = held
    BY <2>1, <1>16 DEF StartFails, sessionVars, workerVars, callerVars, fifoVars, historyVars,
         Elsewhere, ControlOnly, held, Holds, waiting
  <2> QED
    BY <2>1, <2>2, QuietPromised
<1>17. ASSUME NEW new \in Ids, StartSession(new)  PROVE Promised'
  <2>1. promised' = {} /\ alive' /\ stop' = FALSE /\ queue' = <<>> /\ taking' = "idle" /\ worker' = "loop"
    BY <1>17 DEF StartSession
  <2>2. waiting' = <<>> /\ held' = <<>>
    BY <2>1 DEF waiting, MessagesOf, held, Holds
  <2>3. ~Ending' /\ Behind(waiting', promised') /\ ToSet(waiting') = {}
    BY <2>1, <2>2, SetSmall DEF Ending, Behind
  <2> QED
    BY <2>1, <2>3 DEF Promised
<1>18. ASSUME CloseSession  PROVE Promised'
  <2>1. UNCHANGED <<stop, written, last_ex, alive, file_chanel, queue, taking, out, worker>> /\ ctl = "idle"
        /\ promised' = IF registered THEN accepted ELSE promised
    BY <1>18 DEF CloseSession, workerVars, fifoVars
  <2>2. waiting' = waiting /\ held' = held
    BY <2>1 DEF waiting, held, Holds
  <2>3. CASE registered
    <3>1. file_chanel /\ alive
      BY <2>1, <2>3 DEF Session
    <3>2. Terminate \notin ToSet(waiting) /\ ~Ending
      BY <3>1 DEF Promised
    <3>3. Behind(waiting, promised')
      BY <3>2 DEF Behind, ToSet
    <3> QED
      BY <2>1, <2>2, <3>1, <3>2, <3>3 DEF Promised, Ending
  <2>4. CASE ~registered
    BY <2>1, <2>2, <2>4, QuietPromised
  <2> QED
    BY <2>3, <2>4
<1>19. ASSUME Destroying  PROVE Promised'
  <2>1. UNCHANGED <<promised, stop, written, last_ex, alive, queue>> /\ (file_chanel' => file_chanel)
    BY <1>19 DEF Destroying, sessionVars, workerVars, callerVars, fifoVars, historyVars, Elsewhere,
         ControlOnly, Fifo!EnqueueCall
  <2>2. waiting' = waiting /\ held' = held
    BY <2>1, <1>19 DEF Destroying, sessionVars, workerVars, callerVars, fifoVars, historyVars,
         Elsewhere, ControlOnly, Fifo!EnqueueCall, held, Holds, waiting
  <2> QED
    BY <2>1, <2>2, QuietPromised
<1>20. ASSUME Nothing  PROVE Promised'
  <2>1. UNCHANGED <<promised, stop, written, last_ex, alive, queue>> /\ (file_chanel' => file_chanel)
    BY <1>20 DEF Nothing, sessionVars, workerVars, callerVars, fifoVars, historyVars, Elsewhere,
         ControlOnly
  <2>2. waiting' = waiting /\ held' = held
    BY <2>1, <1>20 DEF Nothing, sessionVars, workerVars, callerVars, fifoVars, historyVars,
         Elsewhere, ControlOnly, held, Holds, waiting
  <2> QED
    BY <2>1, <2>2, QuietPromised
<1>21. ASSUME EndPut  PROVE Promised'
  <2>1. UNCHANGED <<promised, stop, written, last_ex, alive, file_chanel, worker>> /\ Fifo!Put(Control)
        /\ Control \in Producers
    BY <1>21 DEF EndPut, sessionVars, workerVars, historyVars, ControlOnly, Producers
  <2>2. item[Control] = Terminate /\ ~file_chanel /\ Terminate \in LogMessages
    BY <1>21 DEF EndPut, Calls, Session, LogMessages
  <2>3. Terminate \notin promised
    BY LoggerAssumption DEF TypeOK, Logged
  <2>4. waiting' = Append(waiting, Terminate) /\ UNCHANGED <<taking, out>>
    BY <2>1, <2>2, PutWaiting
  <2> QED
    BY <2>1, <2>2, <2>3, <2>4, PutPromised DEF held, Holds
<1>22. ASSUME EndReady  PROVE Promised'
  <2>1. UNCHANGED <<promised, stop, written, last_ex, alive, file_chanel, worker>>
        /\ Fifo!Ready(Control) /\ Control \in Producers
    BY <1>22 DEF EndReady, sessionVars, workerVars, historyVars, ControlOnly, Producers
  <2>2. waiting' = waiting /\ UNCHANGED <<taking, out>>
    BY <2>1, ReadyWaiting
  <2> QED
    BY <2>1, <2>2, QuietPromised DEF held, Holds
<1>23. ASSUME EndRefused  PROVE Promised'
  <2>1. UNCHANGED <<promised, stop, written, last_ex, alive, queue>> /\ (file_chanel' => file_chanel)
    BY <1>23 DEF EndRefused, sessionVars, workerVars, callerVars, fifoVars, historyVars, Elsewhere,
         ControlOnly, Fifo!Refuse
  <2>2. waiting' = waiting /\ held' = held
    BY <2>1, <1>23 DEF EndRefused, sessionVars, workerVars, callerVars, fifoVars, historyVars,
         Elsewhere, ControlOnly, Fifo!Refuse, held, Holds, waiting
  <2> QED
    BY <2>1, <2>2, QuietPromised
<1>24. ASSUME EndAgain  PROVE Promised'
  <2>1. UNCHANGED <<promised, stop, written, last_ex, alive, queue>> /\ (file_chanel' => file_chanel)
    BY <1>24 DEF EndAgain, sessionVars, workerVars, callerVars, fifoVars, historyVars, Elsewhere,
         ControlOnly, Fifo!EnqueueCall
  <2>2. waiting' = waiting /\ held' = held
    BY <2>1, <1>24 DEF EndAgain, sessionVars, workerVars, callerVars, fifoVars, historyVars,
         Elsewhere, ControlOnly, Fifo!EnqueueCall, held, Holds, waiting
  <2> QED
    BY <2>1, <2>2, QuietPromised
<1>25. ASSUME Join  PROVE Promised'
  <2>1. worker = "ended"
        /\ UNCHANGED <<stop, written, last_ex, promised, file_chanel, queue, taking, out, worker>>
        /\ ~file_chanel
    BY <1>25 DEF Join, workerVars, fifoVars, historyVars, Session
  <2>2. waiting' = waiting /\ held' = held
    BY <2>1 DEF waiting, held, Holds
  <2>3. ~last_ex => promised \subseteq ToSet(written)
    <3>1. ~last_ex => Ending /\ held = <<>>
      BY <2>1 DEF Hands, Ending, held, Holds, TypeOK
    <3> QED
      BY <3>1, SetSmall DEF Promised, Accepted
  <2> QED
    BY <2>1, <2>2, <2>3 DEF Promised, Ending
<1>26. ASSUME CloseFlag  PROVE Promised'
  <2>1. UNCHANGED <<promised, stop, written, last_ex, alive, queue>> /\ (file_chanel' => file_chanel)
    BY <1>26 DEF CloseFlag, sessionVars, workerVars, callerVars, fifoVars, historyVars, Elsewhere,
         ControlOnly
  <2>2. waiting' = waiting /\ held' = held
    BY <2>1, <1>26 DEF CloseFlag, sessionVars, workerVars, callerVars, fifoVars, historyVars,
         Elsewhere, ControlOnly, held, Holds, waiting
  <2> QED
    BY <2>1, <2>2, QuietPromised
<1> QED
  BY <1>1, <1>2, <1>3, <1>4, <1>5, <1>6, <1>7, <1>8, <1>9, <1>10, <1>11, <1>12, <1>13, <1>14, <1>15,
       <1>16, <1>17, <1>18, <1>19, <1>20, <1>21, <1>22, <1>23, <1>24, <1>25, <1>26, StepCases

-----------------------------------------------------------------------------
(* The order of each caller's messages. *)

LEMMA Appending ==
  ASSUME NEW s \in Seq(LogMessages), NEW m \in LogMessages
  PROVE  /\ Append(s, m) \in Seq(LogMessages)
         /\ \A i \in DOMAIN Append(s, m) :
           (i \in DOMAIN s /\ Append(s, m)[i] = s[i]) \/ (i = Len(s) + 1 /\ Append(s, m)[i] = m)
         /\ \A i, j \in DOMAIN Append(s, m) : i < j => i \in DOMAIN s
<1>1. /\ Append(s, m) \in Seq(LogMessages) /\ DOMAIN Append(s, m) = 1 .. Len(s) + 1
      /\ DOMAIN s = 1 .. Len(s) /\ Len(s) \in Nat
  OBVIOUS
<1>2. \A i \in DOMAIN Append(s, m) : Append(s, m)[i] = IF i = Len(s) + 1 THEN m ELSE s[i]
  OBVIOUS
<1>3. \A i \in DOMAIN Append(s, m) : i \in DOMAIN s \/ i = Len(s) + 1
  BY <1>1
<1>4. \A i \in DOMAIN s : i # Len(s) + 1
  BY <1>1
<1>5. \A i, j \in DOMAIN Append(s, m) : i < j => i \in DOMAIN s
  BY <1>1
<1>6. \A i \in DOMAIN Append(s, m) :
           (i \in DOMAIN s /\ Append(s, m)[i] = s[i]) \/ (i = Len(s) + 1 /\ Append(s, m)[i] = m)
  BY <1>2, <1>3, <1>4
<1> QED
  BY <1>1, <1>5, <1>6

LEMMA Leaving ==
  ASSUME NEW s \in Seq(LogMessages), s # <<>>
  PROVE  /\ Head(s) \in LogMessages /\ Tail(s) \in Seq(LogMessages) /\ 1 \in DOMAIN s /\ Head(s) = s[1]
         /\ \A i \in DOMAIN Tail(s) : i + 1 \in DOMAIN s /\ 1 < i + 1 /\ Tail(s)[i] = s[i + 1]
         /\ \A i, j \in DOMAIN Tail(s) : i < j => i + 1 < j + 1
  OBVIOUS

LEMMA Alone ==
  ASSUME NEW m
  PROVE  /\ DOMAIN <<m>> = {1} /\ <<m>>[1] = m /\ Ordered(<<m>>) /\ Ordered(<<>>)
         /\ \A k : (Earlier(<<m>>, k) <=> Precedes(m, k)) /\ Earlier(<<>>, k)
         /\ \A s : (Ahead(s, <<m>>) <=> Earlier(s, m)) /\ Ahead(s, <<>>) /\ Ahead(<<>>, s)
<1>1. DOMAIN <<m>> = {1} /\ <<m>>[1] = m
  OBVIOUS
<1> QED
  BY <1>1 DEF Ordered, Earlier, Ahead

LEMMA EarlierAppended ==
  ASSUME NEW s \in Seq(LogMessages), NEW m \in LogMessages, NEW k, Earlier(s, k), Precedes(m, k)
  PROVE  Earlier(Append(s, m), k)
  BY Appending DEF Earlier

LEMMA OrderedAppended ==
  ASSUME NEW s \in Seq(LogMessages), NEW m \in LogMessages, Ordered(s), Earlier(s, m)
  PROVE  Ordered(Append(s, m))
<1> SUFFICES ASSUME NEW i \in DOMAIN Append(s, m), NEW j \in DOMAIN Append(s, m), i < j
             PROVE  Precedes(Append(s, m)[i], Append(s, m)[j])
  BY DEF Ordered
<1>1. i \in DOMAIN s /\ Append(s, m)[i] = s[i]
  <2>1. i \in DOMAIN s
    BY Appending
  <2> QED
    BY <2>1
<1>2. (j \in DOMAIN s /\ Append(s, m)[j] = s[j]) \/ Append(s, m)[j] = m
  BY Appending
<1> QED
  BY <1>1, <1>2 DEF Ordered, Earlier

LEMMA OrderedTaken ==
  ASSUME NEW s \in Seq(LogMessages), s # <<>>, Ordered(s)
  PROVE  Ordered(Tail(s)) /\ \A j \in DOMAIN Tail(s) : Precedes(Head(s), Tail(s)[j])
  BY Leaving DEF Ordered

LEMMA ChainPut ==
  ASSUME NEW s, NEW t, NEW u \in Seq(LogMessages), NEW m \in LogMessages,
         Chain(s, t, u), Earlier(s, m), Earlier(t, m), Earlier(u, m)
  PROVE  Chain(s, t, Append(u, m))
<1>1. Ordered(Append(u, m))
  BY OrderedAppended DEF Chain
<1>2. Ahead(s, Append(u, m)) /\ Ahead(t, Append(u, m))
  BY Appending DEF Chain, Ahead
<1> QED
  BY <1>1, <1>2 DEF Chain

LEMMA ChainTaken ==
  ASSUME NEW s, NEW u \in Seq(LogMessages), u # <<>>, Chain(s, <<>>, u)
  PROVE  Chain(s, <<Head(u)>>, Tail(u))
<1>1. Ordered(Tail(u)) /\ \A j \in DOMAIN Tail(u) : Precedes(Head(u), Tail(u)[j])
  BY OrderedTaken DEF Chain
<1>2. Ahead(s, Tail(u)) /\ Earlier(s, Head(u))
  BY Leaving DEF Chain, Ahead
<1>3. Ahead(<<Head(u)>>, Tail(u))
  BY <1>1, Alone DEF Ahead
<1> QED
  BY <1>1, <1>2, <1>3, Alone DEF Chain

LEMMA ChainWritten ==
  ASSUME NEW s \in Seq(LogMessages), NEW m \in LogMessages, NEW u, Chain(s, <<m>>, u)
  PROVE  Chain(Append(s, m), <<>>, u)
<1>1. Earlier(s, m) /\ Ordered(Append(s, m))
  BY Alone, OrderedAppended DEF Chain
<1>2. Ahead(Append(s, m), u)
  <2> SUFFICES ASSUME NEW j \in DOMAIN u  PROVE Earlier(Append(s, m), u[j])
    BY DEF Ahead
  <2>1. Earlier(s, u[j]) /\ Precedes(m, u[j])
    BY Alone DEF Chain, Ahead
  <2> QED
    BY <2>1, EarlierAppended
<1> QED
  BY <1>1, <1>2, Alone DEF Chain

LEMMA ChainDropped ==
  ASSUME NEW s, NEW t, NEW u, Chain(s, t, u)
  PROVE  Chain(s, <<>>, u)
  BY Alone DEF Chain

LEMMA LastPutType == TypeOK => LastPut \in [Callers -> Int]
  BY DEF TypeOK, LastPut

(* A message not yet put is later than all its caller's that have been.    *)
LEMMA PastEarlier ==
  ASSUME NEW s \in Seq(LogMessages), NEW m \in LogMessages, NEW last \in [Callers -> Int],
         AllPast(ToSet(s), last), m \in Logged => last[m[1]] < m[2]
  PROVE  Earlier(s, m)
<1> SUFFICES ASSUME NEW i \in DOMAIN s, s[i] \in Logged, m \in Logged, s[i][1] = m[1]
             PROVE  s[i][2] < m[2]
  BY DEF Earlier, Precedes
<1>1. Past(s[i], last)
  BY DEF AllPast, ToSet
<1>2. s[i][2] <= last[m[1]] /\ last[m[1]] < m[2]
  BY <1>1 DEF Past
<1>3. s[i][2] \in Nat /\ m[2] \in Nat /\ m[1] \in Callers
  BY DEF Logged
<1> QED
  BY <1>2, <1>3

LEMMA PastMore ==
  ASSUME NEW S, NEW last \in [Callers -> Int], NEW next \in [Callers -> Int],
         AllPast(S, last), \A c \in Callers : last[c] <= next[c]
  PROVE  AllPast(S, next)
<1> SUFFICES ASSUME NEW m \in S, m \in Logged  PROVE m[2] <= next[m[1]]
  BY DEF AllPast, Past
<1>1. m[2] <= last[m[1]] /\ m[1] \in Callers /\ m[2] \in Nat
  BY DEF AllPast, Past, Logged
<1> QED
  BY <1>1

LEMMA QuietInOrder ==
  ASSUME TypeOK, TypeOK', InOrder, UNCHANGED <<written, held, waiting, accepted>>,
         \A c \in Callers : LastPut[c] <= LastPut'[c]
  PROVE  InOrder'
<1>1. LastPut \in [Callers -> Int] /\ LastPut' \in [Callers -> Int]
  BY DEF LastPut, TypeOK
<1> DEFINE S == ToSet(written) \cup ToSet(held) \cup ToSet(waiting) \cup accepted
<1>2. AllPast(S, LastPut)
  BY DEF InOrder
<1> HIDE DEF S
<1>3. AllPast(S, LastPut')
  BY <1>1, <1>2, PastMore
<1> QED
  BY <1>3 DEF InOrder, S

LEMMA SamePut ==
  ASSUME UNCHANGED sent, \A c \in Callers : NotPut(c)' <=> NotPut(c)
  PROVE  LastPut' = LastPut
  BY DEF LastPut

LEMMA SameInOrder ==
  ASSUME TypeOK, TypeOK', InOrder, UNCHANGED <<written, held, waiting, accepted, sent>>,
         \A c \in Callers : NotPut(c)' <=> NotPut(c)
  PROVE  InOrder'
<1>1. \A c \in Callers : LastPut[c] <= LastPut'[c]
  BY SamePut, LastPutType
<1> QED
  BY <1>1, QuietInOrder

(* A put goes behind every other message of its caller. *)
LEMMA PutInOrder ==
  ASSUME TypeOK, TypeOK', InOrder, NEW m \in LogMessages, waiting' = Append(waiting, m),
         UNCHANGED <<written, held, accepted>>, held \in Seq(LogMessages),
         \A c \in Callers : LastPut[c] <= LastPut'[c],
         m \in Logged => LastPut[m[1]] < m[2] /\ m[2] <= LastPut'[m[1]]
  PROVE  InOrder'
<1>1. LastPut \in [Callers -> Int] /\ LastPut' \in [Callers -> Int]
  BY DEF LastPut, TypeOK
<1>2. waiting \in Seq(LogMessages) /\ written \in Seq(LogMessages)
  BY WaitingType DEF TypeOK, LogMessages
<1>3. AllPast(ToSet(written), LastPut) /\ AllPast(ToSet(held), LastPut) /\ AllPast(ToSet(waiting), LastPut)
  BY DEF InOrder, AllPast
<1>4. Earlier(written, m) /\ Earlier(held, m) /\ Earlier(waiting, m)
  BY <1>1, <1>2, <1>3, PastEarlier
<1>5. Chain(written, held, waiting')
  BY <1>2, <1>4, ChainPut DEF InOrder
<1> DEFINE S == ToSet(written) \cup ToSet(held) \cup ToSet(waiting) \cup accepted
<1>6. AllPast(S, LastPut)
  BY DEF InOrder
<1>7. ToSet(waiting') = ToSet(waiting) \cup {m}
  BY <1>2, SetAppended
<1>8. ToSet(written') \cup ToSet(held') \cup ToSet(waiting') \cup accepted' = S \cup {m}
  BY <1>7
<1> HIDE DEF S
<1>9. AllPast(S, LastPut')
  BY <1>1, <1>6, PastMore
<1>10. AllPast(S \cup {m}, LastPut')
  BY <1>9 DEF AllPast, Past
<1> QED
  BY <1>5, <1>8, <1>10 DEF InOrder

LEMMA HeldType ==
  ASSUME TypeOK, Hands
  PROVE  held \in Seq(LogMessages)
  BY DEF Hands, held

LEMMA InOrderStep ==
  ASSUME TypeOK, TypeOK', Calls, Hands, InOrder, Next
  PROVE  InOrder'
<1>1. ASSUME Ends  PROVE InOrder'
  <2>1. UNCHANGED <<written, accepted, sent, queue>>
    BY <1>1 DEF Ends, sessionVars, workerVars, callerVars, fifoVars, historyVars, Elsewhere,
         ControlOnly, Crash
  <2>2. waiting' = waiting /\ held' = held
    BY <2>1, <1>1 DEF Ends, sessionVars, workerVars, callerVars, fifoVars, historyVars, Elsewhere,
         ControlOnly, Crash, held, Holds, waiting
  <2>3. \A d \in Callers : NotPut(d)' <=> NotPut(d)
    BY <1>1 DEF Ends, sessionVars, workerVars, callerVars, fifoVars, historyVars, Elsewhere,
         ControlOnly, Crash, NotPut
  <2> QED
    BY <2>1, <2>2, <2>3, SameInOrder
<1>2. ASSUME NEW c \in Callers, LogFile(c)  PROVE InOrder'
  <2>1. UNCHANGED <<written, accepted, queue, call, taking, out, worker>>
    BY <1>2 DEF LogFile, workerVars, fifoVars
  <2>2. waiting' = waiting /\ held' = held
    BY <2>1 DEF held, Holds, waiting
  <2>3. call[c] = "idle" /\ at[c] = "idle" /\ sent[c] \in Nat /\ sent' = [sent EXCEPT ![c] = sent[c] + 1]
        /\ at' = [at EXCEPT ![c] = IF session_opened THEN "channel" ELSE "idle"]
    BY <1>2 DEF LogFile, Calls, TypeOK, Producers
  <2>4. LastPut[c] = sent[c] /\ (LastPut'[c] = sent[c] \/ LastPut'[c] = sent[c] + 1)
    <3>1. LastPut[c] = sent[c]
      BY <2>3 DEF LastPut, NotPut
    <3>2. sent'[c] = sent[c] + 1
      BY <2>3 DEF TypeOK
    <3>3. LastPut'[c] = IF NotPut(c)' THEN sent'[c] - 1 ELSE sent'[c]
      BY DEF LastPut
    <3> QED
      BY <2>3, <3>1, <3>2, <3>3
  <2>5. ASSUME NEW d \in Callers, d # c  PROVE LastPut'[d] = LastPut[d]
    <3>1. sent'[d] = sent[d] /\ at'[d] = at[d] /\ call'[d] = call[d]
      BY <2>1, <2>3, <2>5 DEF TypeOK
    <3>2. NotPut(d)' <=> NotPut(d)
      BY <3>1 DEF NotPut
    <3> QED
      BY <2>5, <3>1, <3>2 DEF LastPut
  <2>6. \A d \in Callers : LastPut[d] <= LastPut'[d]
    BY <2>3, <2>4, <2>5, LastPutType
  <2> QED
    BY <2>1, <2>2, <2>6, QuietInOrder
<1>3. ASSUME NEW c \in Callers, Found(c)  PROVE InOrder'
  <2>1. UNCHANGED <<written, accepted, sent, queue>>
    BY <1>3 DEF Found, sessionVars, workerVars, callerVars, fifoVars, historyVars, Elsewhere,
         ControlOnly
  <2>2. waiting' = waiting /\ held' = held
    BY <2>1, <1>3 DEF Found, sessionVars, workerVars, callerVars, fifoVars, historyVars, Elsewhere,
         ControlOnly, held, Holds, waiting
  <2>3. \A d \in Callers : NotPut(d)' <=> NotPut(d)
    BY <1>3, LoggerAssumption DEF Found, sessionVars, workerVars, callerVars, fifoVars, historyVars,
         Elsewhere, ControlOnly, NotPut, TypeOK, Producers
  <2> QED
    BY <2>1, <2>2, <2>3, SameInOrder
<1>4. ASSUME NEW c \in Callers, NEW m \in {<<c, sent[c]>>, item[c]}, Calling(c, m)  PROVE InOrder'
  <2>1. UNCHANGED <<written, accepted, sent, queue>>
    BY <1>4 DEF Calling, sessionVars, workerVars, callerVars, fifoVars, historyVars, Elsewhere,
         ControlOnly, Fifo!EnqueueCall
  <2>2. waiting' = waiting /\ held' = held
    BY <2>1, <1>4 DEF Calling, sessionVars, workerVars, callerVars, fifoVars, historyVars,
         Elsewhere, ControlOnly, Fifo!EnqueueCall, held, Holds, waiting
  <2>3. \A d \in Callers : NotPut(d)' <=> NotPut(d)
    BY <1>4, LoggerAssumption DEF Calling, sessionVars, workerVars, callerVars, fifoVars,
         historyVars, Elsewhere, ControlOnly, Fifo!EnqueueCall, NotPut, TypeOK, Producers
  <2> QED
    BY <2>1, <2>2, <2>3, SameInOrder
<1>5. ASSUME NEW c \in Callers, Putting(c)  PROVE InOrder'
  <2>1. UNCHANGED <<written, accepted, sent, at, worker>> /\ Fifo!Put(c) /\ at[c] = "push"
        /\ call[c] = "called"
    BY <1>5 DEF Putting, Fifo!Put, workerVars, callerVars
  <2>2. c \in Producers /\ item[c] \in Logged /\ item[c] \in LogMessages /\ item[c] = <<c, sent[c]>>
    BY <2>1, OwnItem DEF LogMessages
  <2>3. waiting' = Append(waiting, item[c]) /\ call' = [call EXCEPT ![c] = "put"] /\ UNCHANGED <<taking, out>>
    BY <2>1, <2>2, PutWaiting
  <2>4. held' = held /\ held \in Seq(LogMessages)
    BY <2>1, <2>3, HeldType DEF held, Holds
  <2>5. LastPut[c] = sent[c] - 1 /\ LastPut'[c] = sent[c] /\ sent[c] \in Nat
    BY <2>1, <2>2, <2>3 DEF LastPut, NotPut, TypeOK
  <2>6. \A d \in Callers : d # c => LastPut'[d] = LastPut[d]
    BY <2>1, <2>3 DEF LastPut, NotPut, TypeOK, Producers
  <2>7. \A d \in Callers : LastPut[d] <= LastPut'[d]
    BY <2>5, <2>6, LastPutType
  <2>8. LastPut[item[c][1]] < item[c][2] /\ item[c][2] <= LastPut'[item[c][1]]
    BY <2>2, <2>5
  <2> QED
    BY <2>1, <2>2, <2>3, <2>4, <2>7, <2>8, PutInOrder
<1>6. ASSUME NEW c \in Callers, Accepting(c)  PROVE InOrder'
  <2>1. c \in Producers /\ Fifo!Ready(c) /\ at[c] = "push" /\ at' = [at EXCEPT ![c] = "idle"]
        /\ accepted' = accepted \cup {item[c]} /\ item[c] = <<c, sent[c]>> /\ UNCHANGED <<written, sent, worker>>
    BY <1>6, OwnItem DEF Accepting, workerVars
  <2>2. waiting' = waiting /\ call[c] = "put" /\ call' = [call EXCEPT ![c] = "idle"]
        /\ UNCHANGED <<taking, out>>
    BY <2>1, ReadyWaiting
  <2>3. LastPut' = LastPut
    <3>1. \A d \in Callers : NotPut(d)' <=> NotPut(d)
      BY <2>1, <2>2 DEF NotPut, TypeOK, Producers
    <3> QED
      BY <2>1, <3>1, SamePut
  <2>4. LastPut[c] = sent[c] /\ sent[c] \in Nat
    BY <2>1, <2>2 DEF LastPut, NotPut, TypeOK
  <2>5. Past(item[c], LastPut)
    BY <2>1, <2>4 DEF Past
  <2>6. held' = held
    BY <2>1, <2>2 DEF held, Holds
  <2> QED
    BY <2>1, <2>2, <2>3, <2>5, <2>6 DEF InOrder, AllPast
<1>7. ASSUME NEW c \in Callers, Refused(c)  PROVE InOrder'
  <2>1. UNCHANGED <<written, accepted, sent, queue>>
    BY <1>7 DEF Refused, sessionVars, workerVars, callerVars, fifoVars, historyVars, Elsewhere,
         ControlOnly, Fifo!Refuse
  <2>2. waiting' = waiting /\ held' = held
    BY <2>1, <1>7 DEF Refused, sessionVars, workerVars, callerVars, fifoVars, historyVars,
         Elsewhere, ControlOnly, Fifo!Refuse, held, Holds, waiting
  <2>3. \A d \in Callers : NotPut(d)' <=> NotPut(d)
    BY <1>7, LoggerAssumption DEF Refused, sessionVars, workerVars, callerVars, fifoVars,
         historyVars, Elsewhere, ControlOnly, Fifo!Refuse, NotPut, TypeOK, Producers
  <2> QED
    BY <2>1, <2>2, <2>3, SameInOrder
<1>8. ASSUME Looking  PROVE InOrder'
  <2>1. UNCHANGED <<written, accepted, sent, queue>>
    BY <1>8 DEF Looking, sessionVars, workerVars, callerVars, fifoVars, historyVars, Elsewhere,
         ControlOnly, Fifo!DequeueCall
  <2>2. waiting' = waiting /\ held' = held
    BY <2>1, <1>8 DEF Looking, sessionVars, workerVars, callerVars, fifoVars, historyVars,
         Elsewhere, ControlOnly, Fifo!DequeueCall, held, Holds, waiting
  <2>3. \A d \in Callers : NotPut(d)' <=> NotPut(d)
    BY <1>8 DEF Looking, sessionVars, workerVars, callerVars, fifoVars, historyVars, Elsewhere,
         ControlOnly, Fifo!DequeueCall, NotPut
  <2> QED
    BY <2>1, <2>2, <2>3, SameInOrder
<1>9. ASSUME Taking  PROVE InOrder'
  <2>1. /\ waiting # <<>> /\ waiting' = Tail(waiting) /\ waiting \in Seq(LogMessages)
        /\ UNCHANGED call
    BY <1>9, TakeWaiting, WaitingType DEF Taking
  <2>2. held = <<>> /\ held' = <<Head(waiting)>>
    BY <1>9, Handing
  <2>3. UNCHANGED <<written, accepted, sent, at>>
    BY <1>9 DEF Taking, Elsewhere, callerVars
  <2>4. LastPut' = LastPut
    BY <2>1, <2>3, SamePut DEF NotPut
  <2>5. Chain(written, held', waiting')
    BY <2>1, <2>2, ChainTaken DEF InOrder
  <2>6. ToSet(held') \cup ToSet(waiting') = ToSet(held) \cup ToSet(waiting)
    BY <2>1, <2>2, SetTaken, SetSmall
  <2> QED
    BY <2>3, <2>4, <2>5, <2>6 DEF InOrder, AllPast
<1>10. ASSUME Releasing  PROVE InOrder'
  <2>1. UNCHANGED <<written, accepted, sent, queue>>
    BY <1>10 DEF Releasing, sessionVars, workerVars, callerVars, fifoVars, historyVars, Elsewhere,
         ControlOnly, Fifo!Release
  <2>2. waiting' = waiting /\ held' = held
    BY <2>1, <1>10 DEF Releasing, sessionVars, workerVars, callerVars, fifoVars, historyVars,
         Elsewhere, ControlOnly, Fifo!Release, held, Holds, waiting
  <2>3. \A d \in Callers : NotPut(d)' <=> NotPut(d)
    BY <1>10 DEF Releasing, sessionVars, workerVars, callerVars, fifoVars, historyVars, Elsewhere,
         ControlOnly, Fifo!Release, NotPut
  <2> QED
    BY <2>1, <2>2, <2>3, SameInOrder
<1>11. ASSUME Finding  PROVE InOrder'
  <2>1. UNCHANGED <<written, accepted, sent, queue>>
    BY <1>11 DEF Finding, sessionVars, workerVars, callerVars, fifoVars, historyVars, Elsewhere,
         ControlOnly, Fifo!Empty
  <2>2. waiting' = waiting /\ held' = held
    BY <2>1, <1>11 DEF Finding, sessionVars, workerVars, callerVars, fifoVars, historyVars,
         Elsewhere, ControlOnly, Fifo!Empty, held, Holds, waiting
  <2>3. \A d \in Callers : NotPut(d)' <=> NotPut(d)
    BY <1>11 DEF Finding, sessionVars, workerVars, callerVars, fifoVars, historyVars, Elsewhere,
         ControlOnly, Fifo!Empty, NotPut
  <2> QED
    BY <2>1, <2>2, <2>3, SameInOrder
<1>12. ASSUME TerminateMsg  PROVE InOrder'
  <2>1. held' = <<>>
    BY <1>12, Handing
  <2>2. UNCHANGED <<written, accepted, sent, at, call, waiting>>
    BY <1>12 DEF TerminateMsg, callerVars, fifoVars, waiting
  <2>3. LastPut' = LastPut
    BY <2>2, SamePut DEF NotPut
  <2>4. Chain(written, held', waiting)
    BY <2>1, ChainDropped DEF InOrder
  <2>5. ToSet(held') = {}
    BY <2>1, SetSmall
  <2> QED
    BY <2>2, <2>3, <2>4, <2>5 DEF InOrder, AllPast
<1>13. ASSUME SinkIt  PROVE InOrder'
  <2>1. held = <<out>> /\ held' = <<>> /\ out \in Logged /\ out \in LogMessages
    BY <1>13, Handing DEF LogMessages
  <2>2. UNCHANGED <<accepted, sent, at, call, waiting>> /\ written' = Append(written, out)
        /\ written \in Seq(LogMessages)
    BY <1>13 DEF SinkIt, callerVars, fifoVars, waiting, TypeOK, LogMessages
  <2>3. LastPut' = LastPut
    BY <2>2, SamePut DEF NotPut
  <2>4. Chain(written', held', waiting)
    BY <2>1, <2>2, ChainWritten DEF InOrder
  <2>5. ToSet(written') \cup ToSet(held') = ToSet(written) \cup ToSet(held)
    BY <2>1, <2>2, SetAppended, SetSmall
  <2> QED
    BY <2>2, <2>3, <2>4, <2>5 DEF InOrder, AllPast
<1>14. ASSUME SinkFails  PROVE InOrder'
  <2>1. held' = <<>>
    BY <1>14, Handing
  <2>2. UNCHANGED <<written, accepted, sent, at, call, waiting>>
    BY <1>14 DEF SinkFails, callerVars, fifoVars, waiting
  <2>3. LastPut' = LastPut
    BY <2>2, SamePut DEF NotPut
  <2>4. Chain(written, held', waiting)
    BY <2>1, ChainDropped DEF InOrder
  <2>5. ToSet(held') = {}
    BY <2>1, SetSmall
  <2> QED
    BY <2>2, <2>3, <2>4, <2>5 DEF InOrder, AllPast
<1>15. ASSUME LoadConfig  PROVE InOrder'
  <2>1. UNCHANGED <<written, accepted, sent, queue>>
    BY <1>15 DEF LoadConfig, sessionVars, workerVars, callerVars, fifoVars, historyVars, Elsewhere,
         ControlOnly
  <2>2. waiting' = waiting /\ held' = held
    BY <2>1, <1>15 DEF LoadConfig, sessionVars, workerVars, callerVars, fifoVars, historyVars,
         Elsewhere, ControlOnly, held, Holds, waiting
  <2>3. \A d \in Callers : NotPut(d)' <=> NotPut(d)
    BY <1>15 DEF LoadConfig, sessionVars, workerVars, callerVars, fifoVars, historyVars, Elsewhere,
         ControlOnly, NotPut
  <2> QED
    BY <2>1, <2>2, <2>3, SameInOrder
<1>16. ASSUME NEW new \in Ids, StartFails(new)  PROVE InOrder'
  <2>1. UNCHANGED <<written, accepted, sent, queue>>
    BY <1>16 DEF StartFails, sessionVars, workerVars, callerVars, fifoVars, historyVars, Elsewhere,
         ControlOnly
  <2>2. waiting' = waiting /\ held' = held
    BY <2>1, <1>16 DEF StartFails, sessionVars, workerVars, callerVars, fifoVars, historyVars,
         Elsewhere, ControlOnly, held, Holds, waiting
  <2>3. \A d \in Callers : NotPut(d)' <=> NotPut(d)
    BY <1>16 DEF StartFails, sessionVars, workerVars, callerVars, fifoVars, historyVars, Elsewhere,
         ControlOnly, NotPut
  <2> QED
    BY <2>1, <2>2, <2>3, SameInOrder
<1>17. ASSUME NEW new \in Ids, StartSession(new)  PROVE InOrder'
  <2>1. accepted' = {} /\ written' = <<>> /\ queue' = <<>> /\ taking' = "idle" /\ worker' = "loop"
    BY <1>17 DEF StartSession
  <2>2. waiting' = <<>> /\ held' = <<>>
    BY <2>1 DEF waiting, MessagesOf, held, Holds
  <2>3. ToSet(written') \cup ToSet(held') \cup ToSet(waiting') \cup accepted' = {}
    BY <2>1, <2>2, SetSmall
  <2>4. Chain(written', held', waiting')
    BY <2>1, <2>2, Alone DEF Chain
  <2> QED
    BY <2>3, <2>4 DEF InOrder, AllPast
<1>18. ASSUME CloseSession  PROVE InOrder'
  <2>1. UNCHANGED <<written, accepted, sent, queue>>
    BY <1>18 DEF CloseSession, sessionVars, workerVars, callerVars, fifoVars, historyVars,
         Elsewhere, ControlOnly
  <2>2. waiting' = waiting /\ held' = held
    BY <2>1, <1>18 DEF CloseSession, sessionVars, workerVars, callerVars, fifoVars, historyVars,
         Elsewhere, ControlOnly, held, Holds, waiting
  <2>3. \A d \in Callers : NotPut(d)' <=> NotPut(d)
    BY <1>18 DEF CloseSession, sessionVars, workerVars, callerVars, fifoVars, historyVars,
         Elsewhere, ControlOnly, NotPut
  <2> QED
    BY <2>1, <2>2, <2>3, SameInOrder
<1>19. ASSUME Destroying  PROVE InOrder'
  <2>1. UNCHANGED <<written, accepted, sent, queue>>
    BY <1>19 DEF Destroying, sessionVars, workerVars, callerVars, fifoVars, historyVars, Elsewhere,
         ControlOnly, Fifo!EnqueueCall
  <2>2. waiting' = waiting /\ held' = held
    BY <2>1, <1>19 DEF Destroying, sessionVars, workerVars, callerVars, fifoVars, historyVars,
         Elsewhere, ControlOnly, Fifo!EnqueueCall, held, Holds, waiting
  <2>3. \A d \in Callers : NotPut(d)' <=> NotPut(d)
    BY <1>19, LoggerAssumption DEF Destroying, sessionVars, workerVars, callerVars, fifoVars,
         historyVars, Elsewhere, ControlOnly, Fifo!EnqueueCall, NotPut, TypeOK, Producers
  <2> QED
    BY <2>1, <2>2, <2>3, SameInOrder
<1>20. ASSUME Nothing  PROVE InOrder'
  <2>1. UNCHANGED <<written, accepted, sent, queue>>
    BY <1>20 DEF Nothing, sessionVars, workerVars, callerVars, fifoVars, historyVars, Elsewhere,
         ControlOnly
  <2>2. waiting' = waiting /\ held' = held
    BY <2>1, <1>20 DEF Nothing, sessionVars, workerVars, callerVars, fifoVars, historyVars,
         Elsewhere, ControlOnly, held, Holds, waiting
  <2>3. \A d \in Callers : NotPut(d)' <=> NotPut(d)
    BY <1>20 DEF Nothing, sessionVars, workerVars, callerVars, fifoVars, historyVars, Elsewhere,
         ControlOnly, NotPut
  <2> QED
    BY <2>1, <2>2, <2>3, SameInOrder
<1>21. ASSUME EndPut  PROVE InOrder'
  <2>1. UNCHANGED <<written, accepted, sent, at, worker>> /\ Fifo!Put(Control)
        /\ Control \in Producers /\ item[Control] = Terminate
    BY <1>21 DEF EndPut, ControlOnly, workerVars, callerVars, Producers, Calls
  <2>2. Terminate \in LogMessages /\ Terminate \notin Logged
    BY LoggerAssumption DEF LogMessages, Logged
  <2>3. waiting' = Append(waiting, Terminate) /\ call' = [call EXCEPT ![Control] = "put"]
        /\ UNCHANGED <<taking, out>>
    BY <2>1, <2>2, PutWaiting
  <2>4. held' = held /\ held \in Seq(LogMessages)
    BY <2>1, <2>3, HeldType DEF held, Holds
  <2>5. \A d \in Callers : NotPut(d)' <=> NotPut(d)
    BY <2>1, <2>3, LoggerAssumption DEF NotPut, TypeOK, Producers
  <2>6. \A d \in Callers : LastPut[d] <= LastPut'[d]
    BY <2>1, <2>5, SamePut, LastPutType
  <2> QED
    BY <2>1, <2>2, <2>3, <2>4, <2>6, PutInOrder
<1>22. ASSUME EndReady  PROVE InOrder'
  <2>1. UNCHANGED <<written, accepted, sent, at, worker>> /\ Fifo!Ready(Control) /\ Control \in Producers
    BY <1>22 DEF EndReady, ControlOnly, workerVars, callerVars, Producers
  <2>2. waiting' = waiting /\ UNCHANGED <<taking, out>> /\ call' = [call EXCEPT ![Control] = "idle"]
    BY <2>1, ReadyWaiting
  <2>3. \A d \in Callers : NotPut(d)' <=> NotPut(d)
    BY <2>1, <2>2, LoggerAssumption DEF NotPut, TypeOK, Producers
  <2> QED
    BY <2>1, <2>2, <2>3, SameInOrder DEF held, Holds
<1>23. ASSUME EndRefused  PROVE InOrder'
  <2>1. UNCHANGED <<written, accepted, sent, queue>>
    BY <1>23 DEF EndRefused, sessionVars, workerVars, callerVars, fifoVars, historyVars, Elsewhere,
         ControlOnly, Fifo!Refuse
  <2>2. waiting' = waiting /\ held' = held
    BY <2>1, <1>23 DEF EndRefused, sessionVars, workerVars, callerVars, fifoVars, historyVars,
         Elsewhere, ControlOnly, Fifo!Refuse, held, Holds, waiting
  <2>3. \A d \in Callers : NotPut(d)' <=> NotPut(d)
    BY <1>23, LoggerAssumption DEF EndRefused, sessionVars, workerVars, callerVars, fifoVars,
         historyVars, Elsewhere, ControlOnly, Fifo!Refuse, NotPut, TypeOK, Producers
  <2> QED
    BY <2>1, <2>2, <2>3, SameInOrder
<1>24. ASSUME EndAgain  PROVE InOrder'
  <2>1. UNCHANGED <<written, accepted, sent, queue>>
    BY <1>24 DEF EndAgain, sessionVars, workerVars, callerVars, fifoVars, historyVars, Elsewhere,
         ControlOnly, Fifo!EnqueueCall
  <2>2. waiting' = waiting /\ held' = held
    BY <2>1, <1>24 DEF EndAgain, sessionVars, workerVars, callerVars, fifoVars, historyVars,
         Elsewhere, ControlOnly, Fifo!EnqueueCall, held, Holds, waiting
  <2>3. \A d \in Callers : NotPut(d)' <=> NotPut(d)
    BY <1>24, LoggerAssumption DEF EndAgain, sessionVars, workerVars, callerVars, fifoVars,
         historyVars, Elsewhere, ControlOnly, Fifo!EnqueueCall, NotPut, TypeOK, Producers
  <2> QED
    BY <2>1, <2>2, <2>3, SameInOrder
<1>25. ASSUME Join  PROVE InOrder'
  <2>1. UNCHANGED <<written, accepted, sent, queue>>
    BY <1>25 DEF Join, sessionVars, workerVars, callerVars, fifoVars, historyVars, Elsewhere,
         ControlOnly
  <2>2. waiting' = waiting /\ held' = held
    BY <2>1, <1>25 DEF Join, sessionVars, workerVars, callerVars, fifoVars, historyVars, Elsewhere,
         ControlOnly, held, Holds, waiting
  <2>3. \A d \in Callers : NotPut(d)' <=> NotPut(d)
    BY <1>25 DEF Join, sessionVars, workerVars, callerVars, fifoVars, historyVars, Elsewhere,
         ControlOnly, NotPut
  <2> QED
    BY <2>1, <2>2, <2>3, SameInOrder
<1>26. ASSUME CloseFlag  PROVE InOrder'
  <2>1. UNCHANGED <<written, accepted, sent, queue>>
    BY <1>26 DEF CloseFlag, sessionVars, workerVars, callerVars, fifoVars, historyVars, Elsewhere,
         ControlOnly
  <2>2. waiting' = waiting /\ held' = held
    BY <2>1, <1>26 DEF CloseFlag, sessionVars, workerVars, callerVars, fifoVars, historyVars,
         Elsewhere, ControlOnly, held, Holds, waiting
  <2>3. \A d \in Callers : NotPut(d)' <=> NotPut(d)
    BY <1>26 DEF CloseFlag, sessionVars, workerVars, callerVars, fifoVars, historyVars, Elsewhere,
         ControlOnly, NotPut
  <2> QED
    BY <2>1, <2>2, <2>3, SameInOrder
<1> QED
  BY <1>1, <1>2, <1>3, <1>4, <1>5, <1>6, <1>7, <1>8, <1>9, <1>10, <1>11, <1>12, <1>13, <1>14, <1>15,
       <1>16, <1>17, <1>18, <1>19, <1>20, <1>21, <1>22, <1>23, <1>24, <1>25, <1>26, StepCases

-----------------------------------------------------------------------------
(* The invariant and what it implies. *)

LEMMA InitInv == Init => LoggerInv
<1> SUFFICES ASSUME Init  PROVE LoggerInv
  OBVIOUS
<1>1. queue = <<>> /\ call = [p \in Producers |-> "idle"] /\ item = [p \in Producers |-> NoMessage]
      /\ taking = "idle" /\ out = NoMessage
  BY DEF Init, Fifo!FifoInit
<1>2. waiting = <<>> /\ held = <<>> /\ written = <<>> /\ accepted = {} /\ promised = {}
  BY <1>1 DEF Init, waiting, MessagesOf, held, Holds
<1>3. TypeOK
  <2> DEFINE none == <<>>
  <2>1. none \in Seq(InQueue) /\ none \in Seq(Logged) /\ queue = none /\ written = none
    BY <1>1, <1>2
  <2> HIDE DEF none
  <2> QED
    BY <1>1, <2>1 DEF Init, TypeOK
<1>4. Session /\ Hands /\ Quiet
  BY <1>1 DEF Init, Session, Hands, Holds, Quiet
<1>5. Calls /\ Waits
  BY <1>1, LoggerAssumption DEF Init, Calls, Waits, Producers
<1>6. Accepted
  BY <1>2 DEF Accepted
<1>7. Promised
  BY <1>2, SetSmall DEF Init, Promised, Ending, Behind
<1>8. InOrder
  BY <1>2, SetSmall, Alone DEF InOrder, Chain, AllPast
<1> QED
  BY <1>3, <1>4, <1>5, <1>6, <1>7, <1>8 DEF LoggerInv

LEMMA NextInv ==
  ASSUME LoggerInv, Next
  PROVE  LoggerInv'
<1>1. TypeOK'
  BY TypeStep DEF LoggerInv
<1>2. Session' /\ Calls' /\ Hands'
  BY SessionStep, CallsStep, HandsStep DEF LoggerInv
<1>3. Quiet' /\ Waits'
  BY QuietStep, WaitsStep DEF LoggerInv
<1>4. Accepted' /\ Promised'
  BY AcceptedStep, PromisedStep DEF LoggerInv
<1>5. InOrder'
  BY <1>1, InOrderStep DEF LoggerInv
<1> QED
  BY <1>1, <1>2, <1>3, <1>4, <1>5 DEF LoggerInv

LEMMA StutterInv ==
  ASSUME LoggerInv, UNCHANGED vars
  PROVE  LoggerInv'
<1> USE DEF vars, sessionVars, workerVars, callerVars, fifoVars, historyVars
<1>1. TypeOK' /\ Session' /\ Calls' /\ Hands' /\ Quiet' /\ Waits'
  BY DEF LoggerInv, TypeOK, Session, Calls, Hands, Holds, Quiet, Waits
<1>2. waiting' = waiting /\ held' = held /\ LastPut' = LastPut
  BY DEF waiting, held, Holds, LastPut, NotPut
<1>3. Accepted' /\ Promised' /\ InOrder'
  BY <1>2 DEF LoggerInv, Accepted, Promised, Ending, InOrder
<1> QED
  BY <1>1, <1>3 DEF LoggerInv

(* What the parts of the invariant say of a log that writes. *)
LEMMA InvNothingLost == LoggerInv => NothingLost
<1> SUFFICES ASSUME LoggerInv  PROVE NothingLost
  OBVIOUS
<1>1. ASSUME NEW i \in DOMAIN written, NEW j \in DOMAIN written, i < j
      PROVE  written[j] # written[i] /\ written[j] \notin Before(written[i])
  <2>1. Precedes(written[i], written[j])
    BY <1>1 DEF LoggerInv, InOrder, Chain, Ordered
  <2>2. written[i] \in Logged /\ written[j] \in Logged
    BY DEF LoggerInv, TypeOK
  <2>3. written[i][2] \in Nat /\ written[j][2] \in Nat
    BY <2>2 DEF Logged
  <2>4. written[i][1] = written[j][1] => written[i][2] < written[j][2]
    BY <2>1, <2>2 DEF Precedes
  <2>5. written[j] # written[i]
    BY <2>3, <2>4
  <2>6. written[j] \in Before(written[i]) => written[j][1] = written[i][1] /\ written[j][2] < written[i][2]
    BY DEF Before
  <2> QED
    BY <2>3, <2>4, <2>5, <2>6
<1>2. ToSet(held) \subseteq {out}
  BY HeldSet
<1>3. ToSet(waiting) = {e.msg : e \in ToSet(queue)}
  <2>1. DOMAIN waiting = DOMAIN queue /\ \A i \in DOMAIN queue : waiting[i] = queue[i].msg
    BY DEF waiting, MessagesOf
  <2> QED
    BY <2>1 DEF ToSet
<1>4. ~last_ex => accepted \subseteq ToSet(written) \cup {e.msg : e \in ToSet(queue)} \cup {out}
  BY <1>2, <1>3 DEF LoggerInv, Accepted
<1>5. ctl = "flag" /\ ~last_ex => promised \subseteq ToSet(written)
  BY DEF LoggerInv, Session, Promised
<1> QED
  BY <1>1, <1>4, <1>5 DEF NothingLost

(* Every state of the sessions satisfies the invariant: the flag, the      *)
(* pointer, the registry and the log agree through every step of a close,  *)
(* Terminate is behind all that was promised, and each caller's messages   *)
(* are in line from its call to the file (Logger.cpp:189-315,              *)
(* async_log_helper.h:131-295).                                            *)
THEOREM LoggerInvariant == Spec => []LoggerInv
<1>1. LoggerInv /\ [Next]_vars => LoggerInv'
  BY NextInv, StutterInv
<1> QED
  BY InitInv, <1>1, PTL DEF Spec

(* As long as the worker writes, a message whose call has returned is      *)
(* waiting, in its hands or written, once and in its caller's order, and a *)
(* log that has been closed has written all that returned before           *)
(* (push_msg, process_next_msg, ~async_log_helper).                        *)
THEOREM NothingIsLost == Spec => []NothingLost
  BY InvNothingLost, LoggerInvariant, PTL

(* A program that neither logs while it closes nor loads while its worker  *)
(* writes is ended by its log only after a write has failed                *)
(* (Logger.cpp:189-199, 232-236, 308).                                     *)
THEOREM QuietCallersSafe == Spec => []QuietCallersNeverCrash
<1>1. LoggerInv => QuietCallersNeverCrash
  BY DEF LoggerInv, Quiet, TypeOK, QuietCallersNeverCrash
<1> QED
  BY <1>1, LoggerInvariant, PTL

-----------------------------------------------------------------------------
(* The files. *)

\* Younger, HoldsItsPart and FilesKeepNewest of any files and messages.
AllFiles == [0 .. MaxFiles -> Seq(LogMessages)]
Gap(fs, i) == \E j \in 1 .. i - 1 : fs[j] = Missing
Offset(fs, i) ==
  IF i = 0 THEN 0 ELSE Len(fs[0]) + MaxSize * (i - 1 - (IF Gap(fs, i) THEN 1 ELSE 0))
HoldsAt(f, w, y) ==
  /\ y + Len(f) <= Len(w)
  /\ \A k \in DOMAIN f : f[k] = w[Len(w) - y - Len(f) + k]
Stands(fs, w) ==
  \A i \in 0 .. MaxFiles : fs[i] # Missing =>
    (i > 0 => Len(fs[i]) = MaxSize) /\ HoldsAt(fs[i], w, Offset(fs, i))
Whole(fs, w) ==
  \A i \in 1 .. MaxFiles : fs[i] = Missing => fs[i - 1] = Missing \/ Offset(fs, i) = Len(w)

\* The current file is there, and no number without a file has one above it.
Numbered(fs) == \A i, j \in 0 .. MaxFiles : j < i /\ fs[i] # Missing => fs[j] # Missing

\* Unless a rotation has failed, which the worker does not survive, the files
\* are numbered without a gap and hold all that was written until all are there.
FilesInv ==
  alive =>
    /\ files \in AllFiles /\ files[0] # Missing
    /\ last_ex => worker = "ended"
    /\ Stands(files, written)
    /\ ~last_ex => Numbered(files) /\ Whole(files, written)

LEMMA MissingFile == Missing \in Seq(LogMessages) /\ (\A m \in Logged : m # Terminate) /\ <<>> # Missing
<1>1. Missing \in Seq(LogMessages) /\ <<>> # Missing
  BY DEF Missing, LogMessages
<1>2. \A m \in Logged : m # Terminate
  BY LoggerAssumption DEF Logged
<1> QED
  BY <1>1, <1>2

\* The messages of n full files.
Part(n) == MaxSize * n

LEMMA OneMore == \A n \in Int : Part(n) \in Int /\ MaxSize + Part(n - 1) = Part(n) /\ (n >= 0 => Part(n) >= 0)
<1>1. MaxSize \in Nat
  BY LoggerAssumption
<1> QED
  BY <1>1 DEF Part

\* Where a file's messages begin, counted from the newest.
LEMMA OffsetIs ==
  ASSUME NEW fs \in AllFiles, NEW i \in 0 .. MaxFiles
  PROVE  /\ i = 0 => Offset(fs, i) = 0
         /\ i > 0 /\ ~Gap(fs, i) => Offset(fs, i) = Len(fs[0]) + Part(i - 1)
         /\ i > 0 /\ Gap(fs, i) => Offset(fs, i) = Len(fs[0]) + Part(i - 2)
         /\ Gap(fs, i) => i >= 2
         /\ Offset(fs, i) \in Int /\ Offset(fs, i) >= 0 /\ Len(fs[0]) \in Nat
<1>1. Len(fs[0]) \in Nat /\ i \in Int /\ i >= 0
  <2>1. fs[0] \in Seq(LogMessages)
    BY LoggerAssumption DEF AllFiles
  <2> QED
    BY <2>1, LoggerAssumption
<1>2. i = 0 => Offset(fs, i) = 0
  BY DEF Offset
<1>3. ASSUME i > 0, ~Gap(fs, i)  PROVE Offset(fs, i) = Len(fs[0]) + Part(i - 1)
  <2>1. Offset(fs, i) = Len(fs[0]) + Part(i - 1 - 0) /\ i - 1 - 0 = i - 1
    BY <1>1, <1>3 DEF Offset, Part
  <2> QED
    BY <2>1
<1>4. ASSUME i > 0, Gap(fs, i)  PROVE Offset(fs, i) = Len(fs[0]) + Part(i - 2)
  <2>1. Offset(fs, i) = Len(fs[0]) + Part(i - 1 - 1) /\ i - 1 - 1 = i - 2
    BY <1>1, <1>4 DEF Offset, Part
  <2> QED
    BY <2>1
<1>5. Gap(fs, i) => i >= 2
  BY <1>1 DEF Gap
<1>6. Offset(fs, i) \in Int /\ Offset(fs, i) >= 0
  <2>1. CASE i = 0
    BY <2>1, <1>2
  <2>2. CASE i > 0 /\ ~Gap(fs, i)
    <3>1. Part(i - 1) \in Int /\ Part(i - 1) >= 0
      BY <2>2, <1>1, OneMore
    <3> QED
      BY <3>1, <2>2, <1>1, <1>3
  <2>3. CASE i > 0 /\ Gap(fs, i)
    <3>1. Part(i - 2) \in Int /\ Part(i - 2) >= 0
      BY <2>3, <1>1, <1>5, OneMore
    <3> QED
      BY <3>1, <2>3, <1>1, <1>4
  <2> QED
    BY <2>1, <2>2, <2>3, <1>1
<1> QED
  BY <1>1, <1>2, <1>3, <1>4, <1>5, <1>6

\* What is written next is the newest, behind what a file holds.
LEMMA HoldsMore ==
  ASSUME NEW f \in Seq(LogMessages), NEW w \in Seq(LogMessages), NEW y \in Int, NEW m \in LogMessages,
         HoldsAt(f, w, y)
  PROVE  /\ y >= 0 => HoldsAt(f, Append(w, m), y + 1)
         /\ y = 0 => HoldsAt(Append(f, m), Append(w, m), 0)
<1>1. /\ Len(f) \in Nat /\ DOMAIN f = 1 .. Len(f) /\ Len(w) \in Nat
      /\ Len(Append(w, m)) = Len(w) + 1 /\ Len(Append(f, m)) = Len(f) + 1
      /\ DOMAIN Append(f, m) = 1 .. Len(f) + 1
  OBVIOUS
<1>2. /\ \A k \in 1 .. Len(w) : Append(w, m)[k] = w[k]
      /\ Append(w, m)[Len(w) + 1] = m
  OBVIOUS
<1>3. /\ \A k \in 1 .. Len(f) : Append(f, m)[k] = f[k]
      /\ Append(f, m)[Len(f) + 1] = m
  OBVIOUS
<1>4. /\ y + Len(f) <= Len(w)
      /\ \A k \in 1 .. Len(f) : f[k] = w[Len(w) - y - Len(f) + k]
  BY <1>1 DEF HoldsAt
<1>5. ASSUME y >= 0  PROVE HoldsAt(f, Append(w, m), y + 1)
  <2>1. (y + 1) + Len(f) <= Len(w) + 1
    BY <1>1, <1>4
  <2>2. ASSUME NEW k \in 1 .. Len(f)
        PROVE  f[k] = Append(w, m)[(Len(w) + 1) - (y + 1) - Len(f) + k]
    <3>1. Len(w) - y - Len(f) + k \in 1 .. Len(w)
      BY <1>1, <1>4, <1>5
    <3>2. (Len(w) + 1) - (y + 1) - Len(f) + k = Len(w) - y - Len(f) + k
      BY <1>1
    <3> QED
      BY <1>2, <1>4, <3>1, <3>2
  <2> QED
    BY <1>1, <2>1, <2>2 DEF HoldsAt
<1>6. ASSUME y = 0  PROVE HoldsAt(Append(f, m), Append(w, m), 0)
  <2>1. 0 + (Len(f) + 1) <= Len(w) + 1
    BY <1>1, <1>4, <1>6
  <2>2. ASSUME NEW k \in 1 .. Len(f) + 1
        PROVE  Append(f, m)[k] = Append(w, m)[(Len(w) + 1) - 0 - (Len(f) + 1) + k]
    <3>0. (Len(w) + 1) - 0 - (Len(f) + 1) + k = Len(w) - Len(f) + k
      BY <1>1
    <3>1. CASE k \in 1 .. Len(f)
      <4>1. Len(w) - Len(f) + k \in 1 .. Len(w) /\ Len(w) - y - Len(f) + k = Len(w) - Len(f) + k
        BY <1>1, <1>4, <1>6, <3>1
      <4>2. Append(f, m)[k] = f[k]
        BY <1>3, <3>1
      <4>3. f[k] = w[Len(w) - Len(f) + k]
        BY <1>4, <3>1, <4>1
      <4>4. Append(w, m)[Len(w) - Len(f) + k] = w[Len(w) - Len(f) + k]
        BY <1>2, <4>1
      <4> QED
        BY <3>0, <4>2, <4>3, <4>4
    <3>2. CASE k = Len(f) + 1
      <4>1. Len(w) - Len(f) + k = Len(w) + 1
        BY <1>1, <3>2
      <4>2. Append(w, m)[Len(w) - Len(f) + k] = m
        BY <4>1, <1>2
      <4>3. Append(f, m)[k] = m
        BY <3>2, <1>3
      <4> QED
        BY <3>0, <4>2, <4>3
    <3>3. k \in 1 .. Len(f) \/ k = Len(f) + 1
      BY <1>1
    <3> QED
      BY <3>1, <3>2, <3>3
  <2> QED
    BY <1>1, <2>1, <2>2 DEF HoldsAt
<1> QED
  BY <1>5, <1>6

\* A message goes to the current file.
LEMMA WrittenStands ==
  ASSUME NEW fs \in AllFiles, fs[0] # Missing, NEW w \in Seq(LogMessages), NEW m \in Logged, Stands(fs, w),
         NEW gs, gs = [fs EXCEPT ![0] = Append(@, m)]
  PROVE  /\ gs \in AllFiles /\ gs[0] # Missing /\ Stands(gs, Append(w, m))
         /\ Numbered(fs) => Numbered(gs)
         /\ Whole(fs, w) => Whole(gs, Append(w, m))
<1>1. /\ \A i \in 0 .. MaxFiles : fs[i] \in Seq(LogMessages)
      /\ 0 \in 0 .. MaxFiles /\ m \in LogMessages /\ MaxFiles \in Nat
  BY LoggerAssumption DEF AllFiles, LogMessages
<1>2. /\ gs[0] = Append(fs[0], m) /\ Len(gs[0]) = Len(fs[0]) + 1 /\ Len(fs[0]) \in Nat
      /\ \A i \in 1 .. MaxFiles : gs[i] = fs[i]
      /\ gs \in AllFiles
  <2>1. fs[0] \in Seq(LogMessages)
    BY <1>1
  <2>2. Append(fs[0], m) \in Seq(LogMessages) /\ Len(Append(fs[0], m)) = Len(fs[0]) + 1 /\ Len(fs[0]) \in Nat
    BY <1>1, <2>1
  <2>3. gs = [i \in 0 .. MaxFiles |-> IF i = 0 THEN Append(fs[0], m) ELSE fs[i]]
    BY DEF AllFiles
  <2> QED
    BY <1>1, <2>2, <2>3 DEF AllFiles
<1>3. gs[0] # Missing
  <2>1. fs[0] \in Seq(LogMessages) /\ gs[0][Len(fs[0]) + 1] = m
    BY <1>1, <1>2
  <2>2. gs[0] = Missing => Len(fs[0]) + 1 = 1
    BY <1>2 DEF Missing
  <2>3. Missing[1] = Terminate
    BY DEF Missing
  <2> QED
    BY <2>1, <2>2, <2>3, MissingFile
<1>4. \A i \in 1 .. MaxFiles : Gap(gs, i) <=> Gap(fs, i)
  BY <1>2 DEF Gap
<1>5. \A i \in 1 .. MaxFiles : Offset(gs, i) = Offset(fs, i) + 1
  <2> SUFFICES ASSUME NEW i \in 1 .. MaxFiles  PROVE Offset(gs, i) = Offset(fs, i) + 1
    OBVIOUS
  <2>1. i \in 0 .. MaxFiles /\ i > 0 /\ i \in Int
    OBVIOUS
  <2>2. Part(i - 1) \in Int /\ Part(i - 2) \in Int
    BY <2>1, OneMore
  <2>3. CASE Gap(fs, i)
    <3>1. Offset(fs, i) = Len(fs[0]) + Part(i - 2)
      BY <2>1, <2>3, OffsetIs
    <3>2. Offset(gs, i) = Len(gs[0]) + Part(i - 2)
      BY <2>1, <2>3, <1>2, <1>4, OffsetIs
    <3> QED
      BY <2>2, <3>1, <3>2, <1>2
  <2>4. CASE ~Gap(fs, i)
    <3>1. Offset(fs, i) = Len(fs[0]) + Part(i - 1)
      BY <2>1, <2>4, OffsetIs
    <3>2. Offset(gs, i) = Len(gs[0]) + Part(i - 1)
      BY <2>1, <2>4, <1>2, <1>4, OffsetIs
    <3> QED
      BY <2>2, <3>1, <3>2, <1>2
  <2> QED
    BY <2>3, <2>4
<1>6. Stands(gs, Append(w, m))
  <2> SUFFICES ASSUME NEW i \in 0 .. MaxFiles, gs[i] # Missing
               PROVE  (i > 0 => Len(gs[i]) = MaxSize) /\ HoldsAt(gs[i], Append(w, m), Offset(gs, i))
    BY DEF Stands
  <2>1. CASE i = 0
    <3>1. HoldsAt(fs[0], w, 0)
      BY <1>1, OffsetIs DEF Stands
    <3>2. HoldsAt(Append(fs[0], m), Append(w, m), 0)
      BY <3>1, <1>1, HoldsMore
    <3> QED
      BY <2>1, <3>2, <1>2, OffsetIs
  <2>2. CASE i \in 1 .. MaxFiles
    <3>1. fs[i] = gs[i] /\ fs[i] \in Seq(LogMessages) /\ Len(fs[i]) = MaxSize /\ HoldsAt(fs[i], w, Offset(fs, i))
      BY <2>2, <1>1, <1>2 DEF Stands
    <3>3. Offset(fs, i) \in Int /\ Offset(fs, i) >= 0
      BY OffsetIs
    <3>4. HoldsAt(fs[i], Append(w, m), Offset(fs, i) + 1)
      BY <3>1, <3>3, <1>1, HoldsMore
    <3> QED
      BY <3>1, <3>4, <1>5, <2>2
  <2> QED
    BY <2>1, <2>2
<1>7. Numbered(fs) => Numbered(gs)
  <2> SUFFICES ASSUME Numbered(fs), NEW i \in 0 .. MaxFiles, NEW j \in 0 .. MaxFiles, j < i, gs[i] # Missing
               PROVE  gs[j] # Missing
    BY DEF Numbered
  <2>1. fs[i] # Missing
    BY <1>2
  <2>2. fs[j] # Missing
    BY <2>1 DEF Numbered
  <2>3. j = 0 \/ j \in 1 .. MaxFiles
    OBVIOUS
  <2> QED
    BY <2>2, <2>3, <1>2, <1>3
<1>8. Whole(fs, w) => Whole(gs, Append(w, m))
  <2> SUFFICES ASSUME Whole(fs, w), NEW i \in 1 .. MaxFiles, gs[i] = Missing, gs[i - 1] # Missing
               PROVE  Offset(gs, i) = Len(Append(w, m))
    BY DEF Whole
  <2>1. fs[i] = Missing
    BY <1>2
  <2>2. fs[i - 1] # Missing
    <3>1. i - 1 = 0 \/ i - 1 \in 1 .. MaxFiles
      BY <1>1
    <3> QED
      BY <3>1, <1>2
  <2>3. Offset(fs, i) = Len(w)
    BY <2>1, <2>2 DEF Whole
  <2>4. Len(Append(w, m)) = Len(w) + 1
    BY <1>1
  <2> QED
    BY <2>3, <2>4, <1>5
<1> QED
  BY <1>2, <1>3, <1>6, <1>7, <1>8

\* Every file takes the next number; nothing is written.
LEMMA RotatedStands ==
  ASSUME NEW fs \in AllFiles, fs[0] # Missing, NEW w \in Seq(LogMessages), Stands(fs, w), Len(fs[0]) = MaxSize,
         Numbered(fs), Whole(fs, w),
         NEW gs, gs = [i \in 0 .. MaxFiles |-> IF i = 0 THEN <<>> ELSE fs[i - 1]]
  PROVE  gs \in AllFiles /\ gs[0] # Missing /\ Stands(gs, w) /\ Numbered(gs) /\ Whole(gs, w)
<1>1. /\ MaxFiles \in Nat /\ 0 \in 0 .. MaxFiles
      /\ \A i \in 0 .. MaxFiles : fs[i] \in Seq(LogMessages)
      /\ \A i \in 1 .. MaxFiles : i - 1 \in 0 .. MaxFiles
  BY LoggerAssumption DEF AllFiles
<1>2. gs[0] = <<>> /\ Len(gs[0]) = 0 /\ (\A i \in 1 .. MaxFiles : gs[i] = fs[i - 1])
  BY <1>1
<1>3. gs \in AllFiles
  <2>1. \A i \in 0 .. MaxFiles : (IF i = 0 THEN <<>> ELSE fs[i - 1]) \in Seq(LogMessages)
    <3> SUFFICES ASSUME NEW i \in 0 .. MaxFiles
                 PROVE  (IF i = 0 THEN <<>> ELSE fs[i - 1]) \in Seq(LogMessages)
      OBVIOUS
    <3>1. CASE i = 0
      BY <3>1
    <3>2. CASE i \in 1 .. MaxFiles
      BY <3>2, <1>1
    <3> QED
      BY <1>1, <3>1, <3>2
  <2> QED
    BY <2>1 DEF AllFiles
<1>4. gs[0] # Missing
  BY <1>2, MissingFile
<1>5. ASSUME NEW i \in 0 .. MaxFiles, fs[i] # Missing  PROVE ~Gap(fs, i)
  <2> SUFFICES ASSUME NEW j \in 1 .. i - 1, fs[j] = Missing  PROVE FALSE
    BY DEF Gap
  <2>1. j \in 0 .. MaxFiles /\ j < i
    BY <1>1
  <2> QED
    BY <2>1, <1>5 DEF Numbered
<1>6. Numbered(gs)
  <2> SUFFICES ASSUME NEW i \in 0 .. MaxFiles, NEW j \in 0 .. MaxFiles, j < i, gs[i] # Missing
               PROVE  gs[j] # Missing
    BY DEF Numbered
  <2>1. CASE j = 0
    BY <2>1, <1>4
  <2>2. CASE j \in 1 .. MaxFiles
    <3>1. i \in 1 .. MaxFiles /\ i - 1 \in 0 .. MaxFiles /\ j - 1 \in 0 .. MaxFiles /\ j - 1 < i - 1
      BY <2>2, <1>1
    <3>2. fs[i - 1] # Missing
      BY <3>1, <1>2
    <3>3. fs[j - 1] # Missing
      BY <3>1, <3>2 DEF Numbered
    <3> QED
      BY <3>3, <2>2, <1>2
  <2> QED
    BY <1>1, <2>1, <2>2
<1>7. ASSUME NEW i \in 0 .. MaxFiles, gs[i] # Missing  PROVE ~Gap(gs, i)
  <2> SUFFICES ASSUME NEW j \in 1 .. i - 1, gs[j] = Missing  PROVE FALSE
    BY DEF Gap
  <2>1. j \in 0 .. MaxFiles /\ j < i
    BY <1>1
  <2> QED
    BY <2>1, <1>6, <1>7 DEF Numbered
\* A file's place does not change with its number.
<1>8. ASSUME NEW i \in 1 .. MaxFiles, ~Gap(gs, i), ~Gap(fs, i - 1)
      PROVE  Offset(gs, i) = Offset(fs, i - 1)
  <2>1. i \in 0 .. MaxFiles /\ i \in Int /\ i > 0 /\ i - 1 \in 0 .. MaxFiles
    BY <1>1
  <2>2. Offset(gs, i) = Part(i - 1) /\ Part(i - 1) \in Int
    <3>1. Offset(gs, i) = Len(gs[0]) + Part(i - 1)
      BY <2>1, <1>3, <1>8, OffsetIs
    <3>2. Part(i - 1) \in Int
      BY <2>1, OneMore
    <3> QED
      BY <3>1, <3>2, <1>2
  <2>3. CASE i = 1
    <3>1. Part(i - 1) = 0
      BY <2>3, LoggerAssumption DEF Part
    <3>2. Offset(fs, i - 1) = 0
      BY <2>1, <2>3, OffsetIs
    <3> QED
      BY <2>2, <3>1, <3>2
  <2>4. CASE i # 1
    <3>1. i - 1 > 0 /\ (i - 1) - 1 = i - 2 /\ i - 1 \in Int
      BY <2>1, <2>4
    <3>2. Offset(fs, i - 1) = MaxSize + Part((i - 1) - 1)
      BY <2>1, <3>1, <1>8, OffsetIs
    <3>3. MaxSize + Part((i - 1) - 1) = Part(i - 1)
      BY <3>1, OneMore
    <3> QED
      BY <2>2, <3>2, <3>3
  <2> QED
    BY <2>3, <2>4
<1>9. Stands(gs, w)
  <2> SUFFICES ASSUME NEW i \in 0 .. MaxFiles, gs[i] # Missing
               PROVE  (i > 0 => Len(gs[i]) = MaxSize) /\ HoldsAt(gs[i], w, Offset(gs, i))
    BY DEF Stands
  <2>1. CASE i = 0
    <3>1. Offset(gs, i) = 0
      BY <2>1, <1>3, OffsetIs
    <3>2. HoldsAt(<<>>, w, 0)
      BY DEF HoldsAt
    <3> QED
      BY <2>1, <3>1, <3>2, <1>2
  <2>2. CASE i \in 1 .. MaxFiles
    <3>1. gs[i] = fs[i - 1] /\ i - 1 \in 0 .. MaxFiles /\ fs[i - 1] # Missing
      BY <2>2, <1>1, <1>2
    <3>2. Offset(gs, i) = Offset(fs, i - 1)
      BY <2>2, <3>1, <1>5, <1>7, <1>8
    <3>3. HoldsAt(fs[i - 1], w, Offset(fs, i - 1)) /\ (i - 1 > 0 => Len(fs[i - 1]) = MaxSize)
      BY <3>1 DEF Stands
    <3>4. i - 1 > 0 \/ i - 1 = 0
      BY <2>2
    <3> QED
      BY <3>1, <3>2, <3>3, <3>4
  <2> QED
    BY <1>1, <2>1, <2>2
<1>10. Whole(gs, w)
  <2> SUFFICES ASSUME NEW i \in 1 .. MaxFiles, gs[i] = Missing, gs[i - 1] # Missing
               PROVE  Offset(gs, i) = Len(w)
    BY DEF Whole
  <2>1. fs[i - 1] = Missing /\ i \in 0 .. MaxFiles /\ i - 1 \in 0 .. MaxFiles
    BY <1>1, <1>2
  <2>2. i - 1 # 0
    BY <2>1
  <2>3. i - 1 \in 1 .. MaxFiles /\ (i - 1) - 1 \in 0 .. MaxFiles /\ gs[i - 1] = fs[(i - 1) - 1]
    BY <2>1, <2>2, <1>1, <1>2
  <2>4. fs[(i - 1) - 1] # Missing
    BY <2>3
  <2>5. Offset(fs, i - 1) = Len(w)
    BY <2>1, <2>3, <2>4 DEF Whole
  <2>6. ~Gap(fs, i - 1)
    <3> SUFFICES ASSUME NEW j \in 1 .. (i - 1) - 1, fs[j] = Missing  PROVE FALSE
      BY DEF Gap
    <3>1. j \in 0 .. MaxFiles /\ (j = (i - 1) - 1 \/ j < (i - 1) - 1)
      BY <2>3, <1>1
    <3> QED
      BY <3>1, <2>3, <2>4 DEF Numbered
  <2>7. ~Gap(gs, i)
    <3> SUFFICES ASSUME NEW j \in 1 .. i - 1, gs[j] = Missing  PROVE FALSE
      BY DEF Gap
    <3>1. j \in 0 .. MaxFiles /\ (j = i - 1 \/ j < i - 1)
      BY <2>1, <1>1
    <3> QED
      BY <3>1, <2>1, <1>6 DEF Numbered
  <2> QED
    BY <2>5, <2>6, <2>7, <1>8
<1> QED
  BY <1>3, <1>4, <1>6, <1>9, <1>10

\* A rotation that fails at number j has moved the files from j on, and left
\* those below; the number is free, or has its file and is the last.
LEMMA HalfRotatedStands ==
  ASSUME NEW fs \in AllFiles, fs[0] # Missing, NEW w \in Seq(LogMessages), Stands(fs, w), Len(fs[0]) = MaxSize,
         Numbered(fs), NEW j \in 1 .. MaxFiles, NEW removed \in {TRUE, j < MaxFiles},
         NEW gs, gs = [i \in 0 .. MaxFiles |-> IF i > j THEN fs[i - 1]
                                               ELSE IF i = j /\ removed THEN Missing ELSE fs[i]]
  PROVE  gs \in AllFiles /\ gs[0] # Missing /\ Stands(gs, w)
<1>1. /\ MaxFiles \in Nat /\ 0 \in 0 .. MaxFiles /\ j \in Int /\ j >= 1 /\ j <= MaxFiles
      /\ \A i \in 0 .. MaxFiles : fs[i] \in Seq(LogMessages)
      /\ \A i \in 1 .. MaxFiles : i - 1 \in 0 .. MaxFiles
  BY LoggerAssumption DEF AllFiles
<1>2. /\ \A i \in 0 .. MaxFiles : i < j => gs[i] = fs[i]
      /\ \A i \in 0 .. MaxFiles : i = j => gs[i] = IF removed THEN Missing ELSE fs[i]
      /\ \A i \in 0 .. MaxFiles : i > j => gs[i] = fs[i - 1]
      /\ gs[0] = fs[0]
  BY <1>1
<1>3. gs \in AllFiles
  <2>1. ASSUME NEW i \in 0 .. MaxFiles  PROVE gs[i] \in Seq(LogMessages)
    <3>1. CASE i > j
      <4>1. i - 1 \in 0 .. MaxFiles
        BY <3>1, <1>1
      <4> QED
        BY <4>1, <3>1, <1>1, <1>2
    <3>2. CASE i = j
      BY <3>2, <1>1, <1>2, MissingFile
    <3>3. CASE i < j
      BY <3>3, <1>1, <1>2
    <3> QED
      BY <1>1, <3>1, <3>2, <3>3
  <2> QED
    BY <2>1 DEF AllFiles
<1>4. ASSUME NEW i \in 0 .. MaxFiles, fs[i] # Missing  PROVE ~Gap(fs, i)
  <2> SUFFICES ASSUME NEW k \in 1 .. i - 1, fs[k] = Missing  PROVE FALSE
    BY DEF Gap
  <2>1. k \in 0 .. MaxFiles /\ k < i
    BY <1>1
  <2> QED
    BY <2>1, <1>4 DEF Numbered
\* Up to j nothing has moved.
<1>5. ASSUME NEW i \in 0 .. MaxFiles, i <= j, fs[i] # Missing, gs[i] = fs[i]
      PROVE  (i > 0 => Len(gs[i]) = MaxSize) /\ HoldsAt(gs[i], w, Offset(gs, i))
  <2>1. ~Gap(fs, i)
    BY <1>4, <1>5
  <2>2. ~Gap(gs, i)
    <3> SUFFICES ASSUME NEW k \in 1 .. i - 1, gs[k] = Missing  PROVE FALSE
      BY DEF Gap
    <3>1. k \in 0 .. MaxFiles /\ k < j
      BY <1>1, <1>5
    <3>2. fs[k] = Missing
      BY <3>1, <1>2
    <3> QED
      BY <3>2, <2>1 DEF Gap
  <2>3. Offset(gs, i) = Offset(fs, i)
    BY <2>1, <2>2, <1>2 DEF Offset
  <2> QED
    BY <2>3, <1>5 DEF Stands
\* Beyond j every file has one number more, and one below is free.
<1>6. ASSUME NEW i \in 0 .. MaxFiles, i > j, gs[i] # Missing
      PROVE  (i > 0 => Len(gs[i]) = MaxSize) /\ HoldsAt(gs[i], w, Offset(gs, i))
  <2>1. /\ i - 1 \in 0 .. MaxFiles /\ i - 1 > 0 /\ i - 1 \in Int /\ gs[i] = fs[i - 1] /\ fs[i - 1] # Missing
        /\ i > 0 /\ j \in 1 .. i - 1
    BY <1>1, <1>2, <1>6
  <2>2. removed = TRUE
    <3>1. j < MaxFiles
      BY <1>1, <1>6
    <3>2. (j < MaxFiles) = TRUE
      BY <3>1, Zenon
    <3> QED
      BY <3>2, Zenon
  <2>3. Gap(gs, i)
    <3>1. gs[j] = Missing
      BY <2>2, <1>1, <1>2
    <3> QED
      BY <2>1, <3>1 DEF Gap
  <2>4. Offset(gs, i) = Len(gs[0]) + Part(i - 2)
    BY <2>1, <2>3, <1>3, OffsetIs
  <2>5. Offset(fs, i - 1) = Len(fs[0]) + Part((i - 1) - 1)
    BY <2>1, <1>4, OffsetIs
  <2>6. (i - 1) - 1 = i - 2
    BY <2>1
  <2>7. Offset(gs, i) = Offset(fs, i - 1)
    BY <2>4, <2>5, <2>6, <1>2
  <2> QED
    BY <2>1, <2>7 DEF Stands
<1>7. Stands(gs, w)
  <2> SUFFICES ASSUME NEW i \in 0 .. MaxFiles, gs[i] # Missing
               PROVE  (i > 0 => Len(gs[i]) = MaxSize) /\ HoldsAt(gs[i], w, Offset(gs, i))
    BY DEF Stands
  <2>1. CASE i > j
    BY <2>1, <1>6
  <2>2. CASE i <= j
    <3>1. gs[i] = fs[i]
      BY <2>2, <1>1, <1>2
    <3> QED
      BY <2>2, <3>1, <1>5
  <2> QED
    BY <1>1, <2>1, <2>2
<1> QED
  BY <1>2, <1>3, <1>7

\* What the definitions of LoggerSession say of their files.
LEMMA FilesAre ==
  FilesKeepNewest <=> (alive => Stands(files, written) /\ (~last_ex => Whole(files, written)))
<1>1. \A i : Younger(i) = Offset(files, i)
  BY DEF Younger, Offset, Gap
<1>2. \A i : HoldsItsPart(i) <=>
               (i > 0 => Len(files[i]) = MaxSize) /\ HoldsAt(files[i], written, Offset(files, i))
  BY <1>1 DEF HoldsItsPart, HoldsAt
<1>3. (\A i \in 0 .. MaxFiles : files[i] # Missing => HoldsItsPart(i)) <=> Stands(files, written)
  BY <1>2 DEF Stands
<1>4. (\A i \in 1 .. MaxFiles : files[i] = Missing =>
                     files[i - 1] = Missing \/ Younger(i) = Len(written)) <=> Whole(files, written)
  BY <1>1 DEF Whole
<1> QED
  BY <1>3, <1>4 DEF FilesKeepNewest

LEMMA FirstFile ==
  ASSUME NEW gs, gs = [i \in 0 .. MaxFiles |-> IF i = 0 THEN <<>> ELSE Missing]
  PROVE  gs \in AllFiles /\ gs[0] # Missing /\ Stands(gs, <<>>) /\ Numbered(gs) /\ Whole(gs, <<>>)
<1>1. MaxFiles \in Nat /\ 0 \in 0 .. MaxFiles /\ gs[0] = <<>> /\ (\A i \in 1 .. MaxFiles : gs[i] = Missing)
  BY LoggerAssumption
<1>2. \A i \in 0 .. MaxFiles : i = 0 \/ i \in 1 .. MaxFiles
  BY <1>1
<1>3. gs[0] # Missing
  BY <1>1, MissingFile
<1>4. gs \in AllFiles
  <2>1. <<>> \in Seq(LogMessages) /\ Missing \in Seq(LogMessages)
    BY MissingFile
  <2> QED
    BY <2>1 DEF AllFiles
<1>5. Stands(gs, <<>>)
  <2>1. HoldsAt(<<>>, <<>>, 0)
    BY DEF HoldsAt
  <2>2. 0 \in 0 .. MaxFiles /\ Offset(gs, 0) = 0
    BY <1>1, <1>4, OffsetIs
  <2> QED
    BY <2>1, <2>2, <1>1, <1>2 DEF Stands
<1>6. Numbered(gs)
  <2> SUFFICES ASSUME NEW i \in 0 .. MaxFiles, NEW j \in 0 .. MaxFiles, j < i, gs[i] # Missing
               PROVE  FALSE
    BY DEF Numbered
  <2>1. i = 0
    BY <1>1, <1>2
  <2> QED
    BY <2>1, <1>1
<1>7. Whole(gs, <<>>)
  <2> SUFFICES ASSUME NEW i \in 1 .. MaxFiles, gs[i - 1] # Missing
               PROVE  Offset(gs, i) = Len(<<>>)
    BY DEF Whole
  <2>1. i - 1 = 0 /\ i \in 0 .. MaxFiles
    BY <1>1
  <2>2. i = 1 /\ i > 0
    BY <2>1
  <2>3. ~Gap(gs, i)
    BY <2>2 DEF Gap
  <2>4. Offset(gs, i) = Len(gs[0]) + Part(i - 1)
    <3>1. i > 0
      BY <2>2
    <3> QED
      BY <2>1, <2>3, <3>1, <1>4, OffsetIs
  <2>5. Part(i - 1) = 0
    BY <2>1, LoggerAssumption DEF Part
  <2> QED
    BY <2>4, <2>5, <1>1
<1> QED
  BY <1>3, <1>4, <1>5, <1>6, <1>7

\* What does not reach the files.
LEMMA SameFiles ==
  ASSUME FilesInv, UNCHANGED <<files, written, last_ex, alive>> \/ alive' = FALSE,
         worker = "ended" => worker' = "ended" \/ alive' = FALSE
  PROVE  FilesInv'
<1>1. CASE alive' = FALSE
  BY <1>1 DEF FilesInv
<1>2. CASE UNCHANGED <<files, written, last_ex, alive>> /\ alive
  <2>1. worker = "ended" => worker' = "ended" \/ alive' = FALSE
    OBVIOUS
  <2>2. Stands(files, written)' <=> Stands(files, written)
    BY <1>2 DEF Stands, HoldsAt, Offset, Gap
  <2>3. Numbered(files)' <=> Numbered(files)
    BY <1>2 DEF Numbered
  <2>4. Whole(files, written)' <=> Whole(files, written)
    BY <1>2 DEF Whole, Offset, Gap
  <2> QED
    BY <1>2, <2>1, <2>2, <2>3, <2>4 DEF FilesInv
<1>3. CASE UNCHANGED <<files, written, last_ex, alive>> /\ ~alive
  BY <1>3 DEF FilesInv
<1> QED
  BY <1>1, <1>2, <1>3

LEMMA FilesStep ==
  ASSUME TypeOK, Hands, FilesInv, Next
  PROVE  FilesInv'
<1> USE DEF sessionVars, workerVars
<1>1. CASE Ends
  BY <1>1, SameFiles DEF Ends, Crash
<1>2. ASSUME NEW c \in Callers, LogFile(c) \/ Found(c) \/ Putting(c) \/ Accepting(c) \/ Refused(c)
      PROVE  FilesInv'
  BY <1>2, SameFiles DEF LogFile, Found, Putting, Accepting, Refused
<1>3. ASSUME NEW c \in Callers, NEW m, Calling(c, m)  PROVE FilesInv'
  BY <1>3, SameFiles DEF Calling
<1>4. CASE Looking \/ Taking \/ Releasing \/ Finding
  BY <1>4, SameFiles DEF Looking, Taking, Releasing, Finding, Elsewhere
<1>5. CASE TerminateMsg
  BY <1>5, SameFiles DEF TerminateMsg
<1>6. CASE SinkIt
  <2>1. worker = "process" /\ out \in Logged /\ UNCHANGED <<alive, last_ex>>
        /\ written' = Append(written, out)
        /\ files' = LET f == IF Full THEN Rotated ELSE files IN [f EXCEPT ![0] = Append(@, out)]
    BY <1>6 DEF SinkIt, Hands, Holds, LogMessages
  <2>2. CASE ~alive
    BY <2>1, <2>2 DEF FilesInv
  <2>3. CASE alive
    <3>1. /\ files \in AllFiles /\ files[0] # Missing /\ ~last_ex /\ Stands(files, written)
          /\ Numbered(files) /\ Whole(files, written)
      BY <2>1, <2>3 DEF FilesInv, TypeOK
    <3>2. written \in Seq(LogMessages)
      BY DEF TypeOK, LogMessages
    <3> DEFINE f == IF Full THEN Rotated ELSE files
    <3>3. f \in AllFiles /\ f[0] # Missing /\ Stands(f, written) /\ Numbered(f) /\ Whole(f, written)
      <4>1. CASE Full
        <5>1. Rotated \in AllFiles /\ Rotated[0] # Missing /\ Stands(Rotated, written)
              /\ Numbered(Rotated) /\ Whole(Rotated, written)
          BY <4>1, <3>1, <3>2, RotatedStands DEF Rotated, Full
        <5> QED
          BY <4>1, <5>1
      <4>2. CASE ~Full
        BY <4>2, <3>1
      <4> QED
        BY <4>1, <4>2
    <3>4. files' = [f EXCEPT ![0] = Append(@, out)]
      BY <2>1
    <3> HIDE DEF f
    <3>5. /\ files' \in AllFiles /\ files'[0] # Missing /\ Stands(files', Append(written, out))
          /\ Numbered(files') /\ Whole(files', Append(written, out))
      BY <3>2, <3>3, <3>4, <2>1, WrittenStands
    <3>6. Stands(files, written)'
      <4>1. Stands(files', written')
        BY <3>5, <2>1
      <4> QED
        BY <4>1 DEF Stands, HoldsAt, Offset, Gap
    <3>7. Numbered(files)'
      BY <3>5 DEF Numbered
    <3>8. Whole(files, written)'
      BY <3>5, <2>1 DEF Whole, Offset, Gap
    <3> QED
      BY <3>1, <3>5, <3>6, <3>7, <3>8, <2>1 DEF FilesInv
  <2> QED
    BY <2>2, <2>3
<1>7. CASE SinkFails
  <2>1. /\ worker = "process" /\ last_ex' = TRUE /\ worker' = "ended" /\ UNCHANGED <<alive, written>>
        /\ files' \in {files} \cup (IF Full THEN {Rotated} \cup UNION {RotatedTo(j) : j \in 1 .. MaxFiles} ELSE {})
    BY <1>7 DEF SinkFails
  <2>2. CASE ~alive
    BY <2>1, <2>2 DEF FilesInv
  <2>3. CASE alive
    <3>1. /\ files \in AllFiles /\ files[0] # Missing /\ ~last_ex /\ Stands(files, written)
          /\ Numbered(files) /\ Whole(files, written)
      BY <2>1, <2>3 DEF FilesInv, TypeOK
    <3>2. written \in Seq(LogMessages)
      BY DEF TypeOK, LogMessages
    <3>3. files' \in AllFiles /\ files'[0] # Missing /\ Stands(files', written)
      <4>1. CASE files' = files
        BY <4>1, <3>1
      <4>2. CASE Full /\ files' = Rotated
        BY <4>2, <3>1, <3>2, RotatedStands DEF Rotated, Full
      <4>3. ASSUME Full, NEW j \in 1 .. MaxFiles, files' \in RotatedTo(j)
            PROVE  files' \in AllFiles /\ files'[0] # Missing /\ Stands(files', written)
        <5>1. PICK removed \in {TRUE, j < MaxFiles} :
                files' = [i \in 0 .. MaxFiles |-> IF i > j THEN files[i - 1]
                                                  ELSE IF i = j /\ removed THEN Missing ELSE files[i]]
          BY <4>3 DEF RotatedTo
        <5> QED
          BY <5>1, <4>3, <3>1, <3>2, HalfRotatedStands DEF Full
      <4> QED
        BY <2>1, <4>1, <4>2, <4>3
    <3> QED
      BY <3>3, <2>1 DEF FilesInv, Stands, HoldsAt, Offset, Gap
  <2> QED
    BY <2>2, <2>3
<1>8. CASE LoadConfig \/ CloseSession
  BY <1>8, SameFiles DEF LoadConfig, CloseSession
<1>9. ASSUME NEW new \in Ids, StartFails(new)  PROVE FilesInv'
  BY <1>9, SameFiles DEF StartFails
<1>10. ASSUME NEW new \in Ids, StartSession(new)  PROVE FilesInv'
  <2>1. /\ files' = [i \in 0 .. MaxFiles |-> IF i = 0 THEN <<>> ELSE Missing]
        /\ written' = <<>> /\ last_ex' = FALSE
    BY <1>10 DEF StartSession
  <2>2. /\ files' \in AllFiles /\ files'[0] # Missing /\ Stands(files', <<>>)
        /\ Numbered(files') /\ Whole(files', <<>>)
    BY <2>1, FirstFile
  <2>3. Stands(files, written)'
    BY <2>1, <2>2 DEF Stands, HoldsAt, Offset, Gap
  <2>4. Numbered(files)'
    BY <2>2 DEF Numbered
  <2>5. Whole(files, written)'
    BY <2>1, <2>2 DEF Whole, Offset, Gap
  <2> QED
    BY <2>1, <2>2, <2>3, <2>4, <2>5 DEF FilesInv
<1>11. CASE Destroying \/ Nothing \/ EndPut \/ EndReady \/ EndRefused \/ EndAgain
  BY <1>11, SameFiles DEF Destroying, Nothing, EndPut, EndReady, EndRefused, EndAgain, ControlOnly
<1>12. CASE Join
  BY <1>12, SameFiles DEF Join
<1>13. CASE CloseFlag
  BY <1>13, SameFiles DEF CloseFlag
<1> QED
  BY <1>1, <1>2, <1>3, <1>4, <1>5, <1>6, <1>7, <1>8, <1>9, <1>10, <1>11, <1>12, <1>13, StepCases

(* Whatever step of a rotation fails, the files hold the newest of what was  *)
(* written, in order and without a message between two of them missing, and  *)
(* as long as none has, everything that fits them                            *)
(* (rotating_file_sink::_sink_it, _rotate).                                  *)
THEOREM NewestKept == Spec => []FilesKeepNewest
<1>1. Init => FilesInv
  BY DEF Init, FilesInv
<1>2. LoggerInv /\ FilesInv /\ [Next]_vars => FilesInv'
  <2>1. LoggerInv /\ FilesInv /\ Next => FilesInv'
    BY FilesStep DEF LoggerInv
  <2>2. FilesInv /\ UNCHANGED vars => FilesInv'
    BY SameFiles DEF vars, sessionVars, workerVars
  <2> QED
    BY <2>1, <2>2
<1>3. FilesInv => FilesKeepNewest
  BY FilesAre DEF FilesInv
<1> QED
  BY <1>1, <1>2, <1>3, LoggerInvariant, PTL DEF Spec

=============================================================================
