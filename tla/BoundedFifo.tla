---- MODULE BoundedFifo ----
(***************************************************************************)
(* What the queue between the callers of the log and its worker promises:  *)
(* a first-in first-out queue of at most Size messages.  A call to enqueue *)
(* takes its place in one step and is ready in a later one; it is refused  *)
(* only when all Size cells are waiting or being read.  A call to dequeue  *)
(* takes the oldest message, and finds nothing only if there is none or    *)
(* the oldest is not ready yet.                                            *)
(***************************************************************************)
EXTENDS Integers, Sequences

CONSTANTS Producers,  \* the threads that enqueue; one other thread dequeues
          Messages,   \* what is enqueued
          Size,       \* buffer_size: the cells of the queue
          NoOne,      \* the owner of an entry that is ready
          NoMessage   \* what a thread holds before its first message

VARIABLES
  queue,   \* the entries, oldest first: a message and who still writes it
  call,    \* call[p]: where the producer's call stands
  item,    \* item[p]: the message of the call
  ret,     \* ret[p]: what its last call returned
  taking,  \* where the consumer's call stands
  out,     \* the message the consumer took last
  got      \* what its last call returned

fifoVars == <<queue, call, item, ret, taking, out, got>>

Entries == [msg : Messages, by : Producers \cup {NoOne}]

FifoInit ==
  /\ queue = <<>>
  /\ call = [p \in Producers |-> "idle"]
  /\ item = [p \in Producers |-> NoMessage]
  /\ ret = [p \in Producers |-> FALSE]
  /\ taking = "idle" /\ out = NoMessage /\ got = FALSE

----------------------------------------------------------------------------

\* The cells in use: the waiting messages and the one being read.
Used == Len(queue) + (IF taking = "taken" THEN 1 ELSE 0)

EnqueueCall(p, m) ==
  /\ call[p] = "idle"
  /\ call' = [call EXCEPT ![p] = "called"]
  /\ item' = [item EXCEPT ![p] = m]
  /\ UNCHANGED <<queue, ret, taking, out, got>>

\* The message has its place in the order, but is not written yet.
Put(p) ==
  /\ call[p] = "called" /\ Used < Size
  /\ queue' = Append(queue, [msg |-> item[p], by |-> p])
  /\ call' = [call EXCEPT ![p] = "put"]
  /\ UNCHANGED <<item, ret, taking, out, got>>

Ready(p) ==
  /\ call[p] = "put"
  /\ queue' = [i \in DOMAIN queue |->
                 [queue[i] EXCEPT !.by = IF @ = p THEN NoOne ELSE @]]
  /\ call' = [call EXCEPT ![p] = "idle"]
  /\ ret' = [ret EXCEPT ![p] = TRUE]
  /\ UNCHANGED <<item, taking, out, got>>

Refuse(p) ==
  /\ call[p] = "called" /\ Used = Size
  /\ call' = [call EXCEPT ![p] = "idle"]
  /\ ret' = [ret EXCEPT ![p] = FALSE]
  /\ UNCHANGED <<queue, item, taking, out, got>>

HeadReady == queue # <<>> /\ Head(queue).by = NoOne

DequeueCall ==
  /\ taking = "idle"
  /\ taking' = "called"
  /\ UNCHANGED <<queue, call, item, ret, out, got>>

Take ==
  /\ taking = "called" /\ HeadReady
  /\ queue' = Tail(queue) /\ out' = Head(queue).msg
  /\ taking' = "taken"
  /\ UNCHANGED <<call, item, ret, got>>

\* The message is read and its cell free again.
Release ==
  /\ taking = "taken"
  /\ taking' = "idle" /\ got' = TRUE
  /\ UNCHANGED <<queue, call, item, ret, out>>

Empty ==
  /\ taking = "called" /\ ~HeadReady
  /\ taking' = "idle" /\ got' = FALSE
  /\ UNCHANGED <<queue, call, item, ret, out>>

FifoNext ==
  \/ \E p \in Producers :
       (\E m \in Messages : EnqueueCall(p, m)) \/ Put(p) \/ Ready(p) \/ Refuse(p)
  \/ DequeueCall \/ Take \/ Release \/ Empty

FifoSpec == FifoInit /\ [][FifoNext]_fifoVars

====
