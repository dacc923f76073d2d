---- MODULE MpmcQueue ----
(***************************************************************************)
(* The queue without locks between the callers of the log and its worker:  *)
(* spdlog's mpmc_bounded_queue, as async_log_helper uses it, with many     *)
(* producers and one consumer.  Every load, store and compare-exchange on  *)
(* a shared word is a step.  Cells are numbered by position modulo Size    *)
(* (the code masks, Size being a power of two); a cell's sequence number   *)
(* tells whose turn it is: pos for the producer of position pos, pos + 1   *)
(* for its consumer, pos + Size for the next producer.                     *)
(*                                                                         *)
(* The words are 64 bits wide and never wrap in practice: positions are    *)
(* natural numbers here.  A relaxed load that returns an old position is   *)
(* a load followed by a pause, which every interleaving includes.          *)
(***************************************************************************)
EXTENDS Integers, Sequences

CONSTANTS Producers, Messages, Size, NoOne, NoMessage,
          MaxPos      \* bound: no call starts once this many positions are taken

ASSUME QueueAssumption == Size \in Nat /\ Size >= 2 /\ NoOne \notin Producers

VARIABLES
  sequence,     \* sequence_ of each cell
  data,         \* data_ of each cell
  enqueue_pos,  \* the next position to write
  dequeue_pos,  \* the next position to read
  at,           \* at[p]: the next statement of the producer's enqueue
  pos,          \* pos[p]: its local pos
  item,         \* item[p]: its argument
  ret,          \* ret[p]: what its last enqueue returned
  reading,      \* the next statement of the consumer's dequeue
  cpos,         \* its local pos
  out,          \* what its last successful dequeue moved out
  got           \* what its last dequeue returned

producerVars == <<at, pos, item, ret>>
consumerVars == <<reading, cpos, out, got>>
vars == <<sequence, data, enqueue_pos, dequeue_pos, producerVars, consumerVars>>

Cells == 0 .. Size - 1
Cell(n) == n % Size

Init ==
  /\ sequence = [c \in Cells |-> c]
  /\ data = [c \in Cells |-> NoMessage]
  /\ enqueue_pos = 0 /\ dequeue_pos = 0
  /\ at = [p \in Producers |-> "idle"]
  /\ pos = [p \in Producers |-> 0]
  /\ item = [p \in Producers |-> NoMessage]
  /\ ret = [p \in Producers |-> FALSE]
  /\ reading = "idle" /\ cpos = 0 /\ out = NoMessage /\ got = FALSE

----------------------------------------------------------------------------
(* Mutations: each is what a definition below would be after a plausible   *)
(* slip.                                                                   *)

\* The position is published under its own number, as if it were still free.
EnqueuePublishSame(p) ==
  /\ at[p] = "publish"
  /\ sequence' = [sequence EXCEPT ![Cell(pos[p])] = pos[p]]
  /\ at' = [at EXCEPT ![p] = "idle"]
  /\ ret' = [ret EXCEPT ![p] = TRUE]
  /\ UNCHANGED <<data, enqueue_pos, dequeue_pos, pos, item, consumerVars>>

\* The cell is given back before the message is moved out of it.
DequeueWinReleasing ==
  /\ reading = "cas"
  /\ dequeue_pos' = cpos + 1
  /\ reading' = "read"
  /\ sequence' = [sequence EXCEPT ![Cell(cpos)] = cpos + Size]
  /\ UNCHANGED <<data, enqueue_pos, producerVars, cpos, out, got>>

\* The consumer trusts enqueue_pos instead of the sequence of the cell.
DequeueLookAhead ==
  /\ reading = "look"
  /\ reading' = IF cpos < enqueue_pos THEN "cas" ELSE "idle"
  /\ got' = IF cpos < enqueue_pos THEN got ELSE FALSE
  /\ UNCHANGED <<sequence, data, enqueue_pos, dequeue_pos, producerVars, cpos, out>>

----------------------------------------------------------------------------

EnqueueCall(p, m) ==
  /\ at[p] = "idle" /\ enqueue_pos < MaxPos
  /\ at' = [at EXCEPT ![p] = "load"]
  /\ item' = [item EXCEPT ![p] = m]
  /\ UNCHANGED <<sequence, data, enqueue_pos, dequeue_pos, pos, ret, consumerVars>>

EnqueueLoad(p) ==
  /\ at[p] = "load"
  /\ pos' = [pos EXCEPT ![p] = enqueue_pos]
  /\ at' = [at EXCEPT ![p] = "look"]
  /\ UNCHANGED <<sequence, data, enqueue_pos, dequeue_pos, item, ret, consumerVars>>

\* The cell is free for this position, or still has the message of one
\* round before (full), or the position is taken: load again.
EnqueueLook(p) ==
  /\ at[p] = "look"
  /\ LET seq == sequence[Cell(pos[p])] IN
       /\ at' = [at EXCEPT ![p] = IF seq = pos[p] THEN "cas"
                                  ELSE IF seq < pos[p] THEN "idle" ELSE "load"]
       /\ ret' = IF seq < pos[p] THEN [ret EXCEPT ![p] = FALSE] ELSE ret
  /\ UNCHANGED <<sequence, data, enqueue_pos, dequeue_pos, pos, item, consumerVars>>

EnqueueWin(p) ==
  /\ at[p] = "cas" /\ enqueue_pos = pos[p]
  /\ enqueue_pos' = pos[p] + 1
  /\ at' = [at EXCEPT ![p] = "write"]
  /\ UNCHANGED <<sequence, data, dequeue_pos, pos, item, ret, consumerVars>>

\* compare_exchange_weak may also fail when the position is still free; a
\* failure leaves the value it found in pos.
EnqueueLose(p) ==
  /\ at[p] = "cas"
  /\ pos' = [pos EXCEPT ![p] = enqueue_pos]
  /\ at' = [at EXCEPT ![p] = "look"]
  /\ UNCHANGED <<sequence, data, enqueue_pos, dequeue_pos, item, ret, consumerVars>>

EnqueueWrite(p) ==
  /\ at[p] = "write"
  /\ data' = [data EXCEPT ![Cell(pos[p])] = item[p]]
  /\ at' = [at EXCEPT ![p] = "publish"]
  /\ UNCHANGED <<sequence, enqueue_pos, dequeue_pos, pos, item, ret, consumerVars>>

EnqueuePublish(p) ==
  /\ at[p] = "publish"
  /\ sequence' = [sequence EXCEPT ![Cell(pos[p])] = pos[p] + 1]
  /\ at' = [at EXCEPT ![p] = "idle"]
  /\ ret' = [ret EXCEPT ![p] = TRUE]
  /\ UNCHANGED <<data, enqueue_pos, dequeue_pos, pos, item, consumerVars>>

----------------------------------------------------------------------------

DequeueLoad ==
  /\ reading = "idle"
  /\ cpos' = dequeue_pos
  /\ reading' = "look"
  /\ UNCHANGED <<sequence, data, enqueue_pos, dequeue_pos, producerVars, out, got>>

DequeueLook ==
  /\ reading = "look"
  /\ LET seq == sequence[Cell(cpos)] IN
       /\ reading' = IF seq < cpos + 1 THEN "idle" ELSE "cas"
       /\ got' = IF seq < cpos + 1 THEN FALSE ELSE got
  /\ UNCHANGED <<sequence, data, enqueue_pos, dequeue_pos, producerVars, cpos, out>>

\* Nobody else moves dequeue_pos: only the weak form's failure makes the
\* consumer look again.
DequeueWin ==
  /\ reading = "cas"
  /\ dequeue_pos' = cpos + 1
  /\ reading' = "read"
  /\ UNCHANGED <<sequence, data, enqueue_pos, producerVars, cpos, out, got>>

DequeueLose ==
  /\ reading = "cas"
  /\ reading' = "look"
  /\ UNCHANGED <<sequence, data, enqueue_pos, dequeue_pos, producerVars, cpos, out, got>>

DequeueRead ==
  /\ reading = "read"
  /\ out' = data[Cell(cpos)]
  /\ reading' = "release"
  /\ UNCHANGED <<sequence, data, enqueue_pos, dequeue_pos, producerVars, cpos, got>>

DequeueRelease ==
  /\ reading = "release"
  /\ sequence' = [sequence EXCEPT ![Cell(cpos)] = cpos + Size]
  /\ reading' = "idle" /\ got' = TRUE
  /\ UNCHANGED <<data, enqueue_pos, dequeue_pos, producerVars, cpos, out>>

----------------------------------------------------------------------------

Enqueue(p) ==
  \/ \E m \in Messages : EnqueueCall(p, m)
  \/ EnqueueLoad(p) \/ EnqueueLook(p) \/ EnqueueWin(p) \/ EnqueueLose(p)
  \/ EnqueueWrite(p) \/ EnqueuePublish(p)

Dequeue ==
  DequeueLoad \/ DequeueLook \/ DequeueWin \/ DequeueLose \/ DequeueRead \/ DequeueRelease

Next == (\E p \in Producers : Enqueue(p)) \/ Dequeue

Spec == Init /\ [][Next]_vars

----------------------------------------------------------------------------

Holding(p) == at[p] \in {"write", "publish"}
ReadingCell == reading \in {"read", "release"}

\* The oldest position whose cell is not given back.
Oldest == IF ReadingCell THEN cpos ELSE dequeue_pos

\* The words and the threads' locals have their types.
TypeOK ==
  /\ sequence \in [Cells -> Nat]
  /\ data \in [Cells -> Messages \cup {NoMessage}]
  /\ enqueue_pos \in Nat /\ dequeue_pos \in Nat /\ cpos \in Nat
  /\ at \in [Producers -> {"idle", "load", "look", "cas", "write", "publish"}]
  /\ pos \in [Producers -> Nat]
  /\ item \in [Producers -> Messages \cup {NoMessage}]
  /\ ret \in [Producers -> BOOLEAN]
  /\ reading \in {"idle", "look", "cas", "read", "release"}
  /\ out \in Messages \cup {NoMessage} /\ got \in BOOLEAN

\* The positions in use fit the cells.
PositionsInv ==
  /\ Oldest <= dequeue_pos /\ dequeue_pos <= enqueue_pos /\ enqueue_pos <= Oldest + Size
  /\ ReadingCell => dequeue_pos = cpos + 1
  /\ reading \in {"look", "cas"} => cpos = dequeue_pos

\* A free cell waits for its position; a taken one is with the producer that
\* won the position until the message is published.
SequenceOK(n) ==
  IF n >= enqueue_pos THEN sequence[Cell(n)] = n
  ELSE \/ sequence[Cell(n)] = n + 1
       \/ sequence[Cell(n)] = n /\ \E p \in Producers : Holding(p) /\ pos[p] = n
SequenceInv == \A n \in Oldest .. Oldest + Size - 1 : SequenceOK(n)

ProducerOK(p) ==
  /\ at[p] # "idle" => item[p] \in Messages
  /\ pos[p] <= enqueue_pos
  /\ pos[p] < enqueue_pos => pos[p] <= sequence[Cell(pos[p])]
  /\ at[p] = "cas" /\ pos[p] = enqueue_pos => sequence[Cell(pos[p])] = pos[p]
  /\ Holding(p) => /\ pos[p] \in dequeue_pos .. enqueue_pos - 1
                   /\ sequence[Cell(pos[p])] = pos[p]
  /\ at[p] = "publish" => data[Cell(pos[p])] = item[p]
ProducerInv == \A p \in Producers : ProducerOK(p)

\* One thread won each position.
HoldersInv ==
  \A p, q \in Producers : Holding(p) /\ Holding(q) /\ pos[p] = pos[q] => p = q

ConsumerInv ==
  /\ reading \in {"cas", "read", "release"} => sequence[Cell(cpos)] = cpos + 1
  /\ reading = "cas" => dequeue_pos < enqueue_pos
  /\ reading = "release" => out = data[Cell(cpos)]

\* What is published is a message.
DataInv ==
  \A n \in Oldest .. enqueue_pos - 1 :
    sequence[Cell(n)] = n + 1 => data[Cell(n)] \in Messages

\* The invariant the proofs rest on: every cell in use belongs to one
\* position of one round, and to one thread while its message is moved
\* (enqueue and dequeue, mpmc_bounded_q.h:82-133).
QueueInv == TypeOK /\ PositionsInv /\ SequenceInv /\ ProducerInv /\ HoldersInv
            /\ ConsumerInv /\ DataInv

\* No two threads move a message in or out of the same cell at once, though
\* data_ is a plain member (lines 105 and 130).
CellsExclusive ==
  \A p \in Producers : Holding(p) =>
    /\ \A q \in Producers \ {p} : Holding(q) => Cell(pos[q]) # Cell(pos[p])
    /\ ReadingCell => Cell(cpos) # Cell(pos[p])

----------------------------------------------------------------------------

\* The queue that the words represent.
Writer(n) == CHOOSE p \in Producers : Holding(p) /\ pos[p] = n

EntryAt(n) ==
  IF sequence[Cell(n)] = n + 1
  THEN [msg |-> data[Cell(n)], by |-> NoOne]
  ELSE [msg |-> item[Writer(n)], by |-> Writer(n)]

Waiting == [i \in 1 .. enqueue_pos - dequeue_pos |-> EntryAt(dequeue_pos + i - 1)]

CallOf(p) == CASE at[p] = "idle" -> "idle" [] Holding(p) -> "put" [] OTHER -> "called"

Calls == [p \in Producers |-> CallOf(p)]
Taking == CASE reading = "idle" -> "idle" [] ReadingCell -> "taken" [] OTHER -> "called"
Taken == IF reading = "read" THEN data[Cell(cpos)] ELSE out

Fifo == INSTANCE BoundedFifo WITH
          queue <- Waiting, call <- Calls, taking <- Taking, out <- Taken

\* The words and the compare-exchanges implement the bounded queue: order
\* kept, nothing lost, repeated or half written, and enqueue and dequeue
\* fail only when it is full or its head is not there.
ImplementsFifo == Fifo!FifoSpec

====
