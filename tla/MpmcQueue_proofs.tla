---- MODULE MpmcQueue_proofs ----
(***************************************************************************)
(* Proofs about MpmcQueue: its inductive invariant, that the cells are     *)
(* exclusive, and that it implements BoundedFifo.  The arithmetic of the   *)
(* ring is in the three lemmas about Cell; nothing else expands Cell.      *)
(***************************************************************************)
EXTENDS MpmcQueue, SequenceTheorems, TLAPS

\* A cell number is in the buffer.
LEMMA CellInRange == \A n \in Nat : Cell(n) \in Cells
  BY QueueAssumption DEF Cell, Cells

\* Two numbers less than Size apart with the same remainder are equal.
LEMMA CellsDiffer ==
  \A i, j \in Nat : i < j /\ j < i + Size => Cell(i) # Cell(j)
  <1>1. SUFFICES ASSUME NEW i \in Nat, NEW j \in Nat, i < j, j < i + Size, Cell(i) = Cell(j)
                 PROVE  FALSE
    OBVIOUS
  <1> DEFINE a == i \div Size
             b == j \div Size
  <1>2. /\ a \in Int /\ b \in Int
        /\ i = (Size * a) + (i % Size) /\ j = (Size * b) + (j % Size)
    BY QueueAssumption, SMTT(20)
  <1>3. i % Size = j % Size
    BY <1>1 DEF Cell
  <1>4. j - i = Size * (b - a)
    BY <1>2, <1>3, QueueAssumption
  <1> HIDE DEF a, b
  <1>5. CASE b - a <= 0
    BY <1>1, <1>2, <1>4, <1>5, QueueAssumption
  <1>6. CASE b - a >= 1
    BY <1>1, <1>2, <1>4, <1>6, QueueAssumption
  <1> QED
    BY <1>2, <1>5, <1>6

\* Size positions on, the same cell comes round.
LEMMA CellNextRound == \A n \in Nat : Cell(n + Size) = Cell(n)
  <1>1. SUFFICES ASSUME NEW n \in Nat PROVE (n + Size) % Size = n % Size
    BY DEF Cell
  <1> DEFINE a == n \div Size
             b == (n + Size) \div Size
  <1>2. /\ a \in Int /\ b \in Int
        /\ n = (Size * a) + (n % Size) /\ n + Size = (Size * b) + ((n + Size) % Size)
        /\ n % Size \in 0 .. Size - 1 /\ (n + Size) % Size \in 0 .. Size - 1
    BY QueueAssumption, SMTT(20)
  <1>4. (n % Size) - ((n + Size) % Size) = Size * ((b - a) - 1)
    BY <1>2, QueueAssumption
  <1> HIDE DEF a, b
  <1>5. CASE b - a <= 0
    BY <1>2, <1>4, <1>5, QueueAssumption
  <1>6. CASE b - a >= 2
    BY <1>2, <1>4, <1>6, QueueAssumption
  <1>7. CASE b - a = 1
    BY <1>2, <1>4, <1>7, QueueAssumption
  <1> QED
    BY <1>2, <1>5, <1>6, <1>7

\* The queue starts with every cell free for its first position.
LEMMA QueueInit == Init => QueueInv
  <1>1. \A n \in 0 .. Size - 1 : Cell(n) = n
    BY QueueAssumption DEF Cell
  <1>2. Init => TypeOK
    <2>1. [c \in Cells |-> c] \in [Cells -> Nat] /\ 0 \in Nat
      BY QueueAssumption DEF Cells
    <2> QED
      BY <2>1 DEF Init, TypeOK
  <1>3. Init => PositionsInv
    BY <1>1, QueueAssumption DEF Init, Cells, Oldest, ReadingCell, Holding, PositionsInv
  <1>4. Init => SequenceInv
    BY <1>1, QueueAssumption DEF Init, Cells, Oldest, ReadingCell, Holding, SequenceInv, SequenceOK
  <1>5. Init => ProducerInv
    <2> SUFFICES ASSUME Init, NEW p \in Producers PROVE ProducerOK(p)
      BY DEF ProducerInv
    <2>1. at[p] = "idle" /\ pos[p] = 0 /\ enqueue_pos = 0
      BY DEF Init
    <2> QED
      BY <2>1 DEF ProducerOK, Holding
  <1>6. Init => HoldersInv
    BY <1>1, QueueAssumption DEF Init, Cells, Oldest, ReadingCell, Holding, HoldersInv
  <1>7. Init => ConsumerInv
    BY <1>1, QueueAssumption DEF Init, Cells, Oldest, ReadingCell, Holding, ConsumerInv
  <1>8. Init => DataInv
    BY <1>1, QueueAssumption DEF Init, Cells, Oldest, ReadingCell, Holding, DataInv
  <1> QED
    BY <1>2, <1>3, <1>4, <1>5, <1>6, <1>7, <1>8 DEF QueueInv

\* EnqueueCall keeps the invariant.
LEMMA EnqueueCallKeeps ==
  ASSUME QueueInv, NEW p \in Producers, NEW m \in Messages, EnqueueCall(p, m)
  PROVE  QueueInv'
  <1> USE QueueAssumption DEF EnqueueCall, QueueInv
  <1>1. TypeOK'
    BY CellInRange DEF TypeOK, Cells, producerVars, consumerVars
  <1>2. PositionsInv'
    BY CellInRange, CellsDiffer DEF TypeOK, PositionsInv, Oldest, ReadingCell, Cells, producerVars, consumerVars
  <1>3. SequenceInv'
    BY CellInRange, CellsDiffer DEF TypeOK, PositionsInv, SequenceInv, ProducerInv, ProducerOK, Oldest, ReadingCell, Holding, SequenceOK, Cells, producerVars, consumerVars
  <1>4. ProducerInv'
    BY CellInRange, CellsDiffer DEF TypeOK, PositionsInv, ProducerInv, ProducerOK, HoldersInv, Holding, ReadingCell, Oldest, Cells, producerVars, consumerVars
  <1>5. HoldersInv'
    BY CellInRange, CellsDiffer DEF TypeOK, HoldersInv, ProducerInv, ProducerOK, Holding, Cells, producerVars, consumerVars
  <1>6. ConsumerInv'
    BY CellInRange, CellsDiffer DEF TypeOK, PositionsInv, ConsumerInv, ProducerInv, ProducerOK, Holding, ReadingCell, Oldest, Cells, producerVars, consumerVars
  <1>7. DataInv'
    BY CellInRange, CellsDiffer DEF TypeOK, PositionsInv, SequenceInv, ProducerInv, ProducerOK, DataInv, Oldest, ReadingCell, Holding, SequenceOK, Cells, producerVars, consumerVars
  <1> QED
    BY <1>1, <1>2, <1>3, <1>4, <1>5, <1>6, <1>7

\* EnqueueLoad keeps the invariant.
LEMMA EnqueueLoadKeeps ==
  ASSUME QueueInv, NEW p \in Producers, EnqueueLoad(p)
  PROVE  QueueInv'
  <1> USE QueueAssumption DEF EnqueueLoad, QueueInv
  <1>1. TypeOK'
    BY CellInRange DEF TypeOK, Cells, producerVars, consumerVars
  <1>2. PositionsInv'
    BY CellInRange, CellsDiffer DEF TypeOK, PositionsInv, Oldest, ReadingCell, Cells, producerVars, consumerVars
  <1>3. SequenceInv'
    BY CellInRange, CellsDiffer DEF TypeOK, PositionsInv, SequenceInv, ProducerInv, ProducerOK, Oldest, ReadingCell, Holding, SequenceOK, Cells, producerVars, consumerVars
  <1>4. ProducerInv'
    <2> SUFFICES ASSUME NEW q \in Producers PROVE ProducerOK(q)'
      BY DEF ProducerInv
    <2>1. CASE q = p
      BY <2>1, CellInRange DEF TypeOK, PositionsInv, ProducerInv, HoldersInv, Holding, Oldest, ReadingCell, Cells, producerVars, consumerVars, ProducerOK
    <2>2. CASE q # p
      BY <2>2, CellInRange DEF TypeOK, PositionsInv, ProducerInv, HoldersInv, Holding, Oldest, ReadingCell, Cells, producerVars, consumerVars, ProducerOK
    <2> QED
      BY <2>1, <2>2
  <1>5. HoldersInv'
    BY CellInRange, CellsDiffer DEF TypeOK, HoldersInv, ProducerInv, ProducerOK, Holding, Cells, producerVars, consumerVars
  <1>6. ConsumerInv'
    BY CellInRange, CellsDiffer DEF TypeOK, PositionsInv, ConsumerInv, ProducerInv, ProducerOK, Holding, ReadingCell, Oldest, Cells, producerVars, consumerVars
  <1>7. DataInv'
    BY CellInRange, CellsDiffer DEF TypeOK, PositionsInv, SequenceInv, ProducerInv, ProducerOK, DataInv, Oldest, ReadingCell, Holding, SequenceOK, Cells, producerVars, consumerVars
  <1> QED
    BY <1>1, <1>2, <1>3, <1>4, <1>5, <1>6, <1>7

\* EnqueueLook keeps the invariant.
LEMMA EnqueueLookKeeps ==
  ASSUME QueueInv, NEW p \in Producers, EnqueueLook(p)
  PROVE  QueueInv'
  <1> USE QueueAssumption DEF EnqueueLook, QueueInv
  <1>1. TypeOK'
    BY CellInRange DEF TypeOK, Cells, producerVars, consumerVars
  <1>2. PositionsInv'
    BY CellInRange, CellsDiffer DEF TypeOK, PositionsInv, Oldest, ReadingCell, Cells, producerVars, consumerVars
  <1>3. SequenceInv'
    BY CellInRange, CellsDiffer DEF TypeOK, PositionsInv, SequenceInv, ProducerInv, ProducerOK, Oldest, ReadingCell, Holding, SequenceOK, Cells, producerVars, consumerVars
  <1>4. ProducerInv'
    BY CellInRange, CellsDiffer DEF TypeOK, PositionsInv, ProducerInv, ProducerOK, HoldersInv, Holding, ReadingCell, Oldest, Cells, producerVars, consumerVars
  <1>5. HoldersInv'
    BY CellInRange, CellsDiffer DEF TypeOK, HoldersInv, ProducerInv, ProducerOK, Holding, Cells, producerVars, consumerVars
  <1>6. ConsumerInv'
    BY CellInRange, CellsDiffer DEF TypeOK, PositionsInv, ConsumerInv, ProducerInv, ProducerOK, Holding, ReadingCell, Oldest, Cells, producerVars, consumerVars
  <1>7. DataInv'
    BY CellInRange, CellsDiffer DEF TypeOK, PositionsInv, SequenceInv, ProducerInv, ProducerOK, DataInv, Oldest, ReadingCell, Holding, SequenceOK, Cells, producerVars, consumerVars
  <1> QED
    BY <1>1, <1>2, <1>3, <1>4, <1>5, <1>6, <1>7

\* EnqueueWin keeps the invariant.
LEMMA EnqueueWinKeeps ==
  ASSUME QueueInv, NEW p \in Producers, EnqueueWin(p)
  PROVE  QueueInv'
  <1> USE QueueAssumption DEF EnqueueWin, QueueInv
  <1>0. /\ pos[p] = enqueue_pos /\ sequence[Cell(enqueue_pos)] = enqueue_pos
        /\ enqueue_pos < Oldest + Size
    <2>1. pos[p] = enqueue_pos /\ sequence[Cell(enqueue_pos)] = enqueue_pos
      BY DEF ProducerInv, ProducerOK
    <2>2. Oldest \in Nat /\ enqueue_pos <= Oldest + Size /\ dequeue_pos <= enqueue_pos
      BY DEF TypeOK, PositionsInv, Oldest
    <2>3. CASE enqueue_pos = Oldest + Size
      <3>1. Oldest \in Oldest .. Oldest + Size - 1 /\ Oldest < enqueue_pos
        BY <2>2, <2>3
      <3>2. SequenceOK(Oldest)
        BY <3>1 DEF SequenceInv
      <3>3. Cell(enqueue_pos) = Cell(Oldest)
        BY <2>2, <2>3, CellNextRound
      <3>4. sequence[Cell(Oldest)] = Oldest + 1 \/ sequence[Cell(Oldest)] = Oldest
        BY <2>2, <3>1, <3>2 DEF SequenceOK, TypeOK
      <3> QED
        BY <2>1, <2>2, <2>3, <3>3, <3>4, QueueAssumption
    <2> QED
      BY <2>1, <2>2, <2>3 DEF TypeOK
  <1>1. TypeOK'
    <2>1. enqueue_pos' \in Nat
      BY DEF TypeOK
    <2> QED
      BY <2>1 DEF TypeOK, producerVars, consumerVars
  <1>2. PositionsInv'
    BY <1>0 DEF TypeOK, PositionsInv, Oldest, ReadingCell, producerVars, consumerVars
  <1>3. SequenceInv'
    <2> SUFFICES ASSUME NEW n \in Oldest .. Oldest + Size - 1 PROVE SequenceOK(n)'
      BY DEF SequenceInv, Oldest, ReadingCell, producerVars, consumerVars
    <2>0. n \in Nat /\ SequenceOK(n)
      BY DEF SequenceInv, TypeOK, Oldest
    <2>1. CASE n = enqueue_pos
      BY <1>0, <2>1 DEF SequenceOK, Holding, TypeOK, producerVars, consumerVars
    <2>2. CASE n > enqueue_pos
      BY <1>0, <2>0, <2>2 DEF SequenceOK, TypeOK, producerVars, consumerVars
    <2>3. CASE n < enqueue_pos
      BY <1>0, <2>0, <2>3 DEF SequenceOK, Holding, TypeOK, producerVars, consumerVars
    <2> QED
      BY <2>0, <2>1, <2>2, <2>3 DEF TypeOK
  <1>4. ProducerInv'
    <2> SUFFICES ASSUME NEW q \in Producers PROVE ProducerOK(q)'
      BY DEF ProducerInv
    <2>0. ProducerOK(q) /\ pos[q] \in Nat /\ dequeue_pos <= enqueue_pos
      BY DEF ProducerInv, TypeOK, PositionsInv
    <2>1. enqueue_pos' = enqueue_pos + 1 /\ enqueue_pos \in Nat /\ dequeue_pos \in Nat
      BY <1>0 DEF TypeOK
    <2>2. CASE q = p
      BY <1>0, <2>0, <2>1, <2>2 DEF ProducerOK, Holding, TypeOK, producerVars, consumerVars
    <2>3. CASE q # p
      <3>1. pos[q] < enqueue_pos' => pos[q] <= sequence[Cell(pos[q])]
        BY <1>0, <2>0, <2>1 DEF ProducerOK
      <3> QED
        BY <2>0, <2>1, <2>3, <3>1 DEF ProducerOK, Holding, TypeOK, producerVars, consumerVars
    <2> QED
      BY <2>2, <2>3
  <1>5. HoldersInv'
    <2>1. \A q \in Producers : Holding(q) => pos[q] < enqueue_pos
      BY DEF ProducerInv, ProducerOK, TypeOK
    <2> QED
      BY <1>0, <2>1 DEF HoldersInv, Holding, TypeOK, producerVars, consumerVars
  <1>6. ConsumerInv'
    BY CellInRange, CellsDiffer DEF TypeOK, PositionsInv, ConsumerInv, ProducerInv, ProducerOK, Holding, ReadingCell, Oldest, Cells, producerVars, consumerVars
  <1>7. DataInv'
    <2> SUFFICES ASSUME NEW n \in Oldest .. enqueue_pos, sequence[Cell(n)] = n + 1
                 PROVE  data[Cell(n)] \in Messages
      BY <1>0 DEF DataInv, Oldest, ReadingCell, TypeOK, producerVars, consumerVars
    <2>1. n # enqueue_pos
      BY <1>0 DEF TypeOK
    <2> QED
      BY <2>1 DEF DataInv, TypeOK, Oldest
  <1> QED
    BY <1>1, <1>2, <1>3, <1>4, <1>5, <1>6, <1>7

\* EnqueueLose keeps the invariant.
LEMMA EnqueueLoseKeeps ==
  ASSUME QueueInv, NEW p \in Producers, EnqueueLose(p)
  PROVE  QueueInv'
  <1> USE QueueAssumption DEF EnqueueLose, QueueInv
  <1>1. TypeOK'
    BY CellInRange DEF TypeOK, Cells, producerVars, consumerVars
  <1>2. PositionsInv'
    BY CellInRange, CellsDiffer DEF TypeOK, PositionsInv, Oldest, ReadingCell, Cells, producerVars, consumerVars
  <1>3. SequenceInv'
    BY CellInRange, CellsDiffer DEF TypeOK, PositionsInv, SequenceInv, ProducerInv, ProducerOK, Oldest, ReadingCell, Holding, SequenceOK, Cells, producerVars, consumerVars
  <1>4. ProducerInv'
    <2> SUFFICES ASSUME NEW q \in Producers PROVE ProducerOK(q)'
      BY DEF ProducerInv
    <2>1. CASE q = p
      BY <2>1, CellInRange DEF TypeOK, PositionsInv, ProducerInv, HoldersInv, Holding, Oldest, ReadingCell, Cells, producerVars, consumerVars, ProducerOK
    <2>2. CASE q # p
      BY <2>2, CellInRange DEF TypeOK, PositionsInv, ProducerInv, HoldersInv, Holding, Oldest, ReadingCell, Cells, producerVars, consumerVars, ProducerOK
    <2> QED
      BY <2>1, <2>2
  <1>5. HoldersInv'
    BY CellInRange, CellsDiffer DEF TypeOK, HoldersInv, ProducerInv, ProducerOK, Holding, Cells, producerVars, consumerVars
  <1>6. ConsumerInv'
    BY CellInRange, CellsDiffer DEF TypeOK, PositionsInv, ConsumerInv, ProducerInv, ProducerOK, Holding, ReadingCell, Oldest, Cells, producerVars, consumerVars
  <1>7. DataInv'
    BY CellInRange, CellsDiffer DEF TypeOK, PositionsInv, SequenceInv, ProducerInv, ProducerOK, DataInv, Oldest, ReadingCell, Holding, SequenceOK, Cells, producerVars, consumerVars
  <1> QED
    BY <1>1, <1>2, <1>3, <1>4, <1>5, <1>6, <1>7

\* EnqueueWrite keeps the invariant.
LEMMA EnqueueWriteKeeps ==
  ASSUME QueueInv, NEW p \in Producers, EnqueueWrite(p)
  PROVE  QueueInv'
  <1> USE QueueAssumption DEF EnqueueWrite, QueueInv
  <1>0. \A n \in Oldest .. Oldest + Size - 1 : n # pos[p] => Cell(n) # Cell(pos[p])
    <2>1. Oldest \in Nat /\ pos[p] \in Oldest .. Oldest + Size - 1
      BY DEF TypeOK, PositionsInv, ProducerInv, ProducerOK, Holding, Oldest, ReadingCell
    <2> QED
      BY <2>1, CellsDiffer DEF TypeOK
  <1>a. \A q \in Producers : Holding(q) => pos[q] \in Oldest .. Oldest + Size - 1
    BY DEF TypeOK, PositionsInv, ProducerInv, ProducerOK, Oldest, ReadingCell
  <1>b. ReadingCell => cpos \in Oldest .. Oldest + Size - 1 /\ cpos < dequeue_pos
    BY DEF TypeOK, PositionsInv, Oldest
  <1>c. Holding(p) /\ pos[p] \in dequeue_pos .. enqueue_pos - 1 /\ sequence[Cell(pos[p])] = pos[p]
    BY DEF ProducerInv, ProducerOK, Holding
  <1>1. TypeOK'
    BY CellInRange DEF TypeOK, Cells, producerVars, consumerVars
  <1>2. PositionsInv'
    BY CellInRange, CellsDiffer DEF TypeOK, PositionsInv, Oldest, ReadingCell, Cells, producerVars, consumerVars
  <1>3. SequenceInv'
    <2> SUFFICES ASSUME NEW n \in Oldest .. Oldest + Size - 1 PROVE SequenceOK(n)'
      BY DEF SequenceInv, Oldest, ReadingCell, producerVars, consumerVars
    <2>0. n \in Nat /\ SequenceOK(n)
      BY DEF SequenceInv, TypeOK, Oldest
    <2>1. \A q \in Producers : Holding(q)' = Holding(q)
      BY DEF Holding, TypeOK
    <2> QED
      BY <2>0, <2>1 DEF SequenceOK, producerVars, consumerVars
  <1>4. ProducerInv'
    <2> SUFFICES ASSUME NEW q \in Producers PROVE ProducerOK(q)'
      BY DEF ProducerInv
    <2>0. ProducerOK(q) /\ Cell(pos[p]) \in Cells
      BY CellInRange DEF ProducerInv, TypeOK
    <2>1. CASE q = p
      BY <1>c, <2>0, <2>1 DEF TypeOK, ProducerOK, Holding, producerVars, consumerVars
    <2>2. CASE q # p
      <3>1. Holding(q) => Cell(pos[q]) # Cell(pos[p])
        BY <1>0, <1>a, <1>c, <2>2 DEF HoldersInv
      <3> QED
        BY <2>0, <2>2, <3>1 DEF TypeOK, ProducerOK, Holding, producerVars, consumerVars
    <2> QED
      BY <2>1, <2>2
  <1>5. HoldersInv'
    BY CellInRange, CellsDiffer DEF TypeOK, HoldersInv, ProducerInv, ProducerOK, Holding, Cells, producerVars, consumerVars
  <1>6. ConsumerInv'
    <2>1. ReadingCell => Cell(cpos) # Cell(pos[p])
      BY <1>0, <1>b, <1>c DEF TypeOK
    <2> QED
      BY <2>1, CellInRange DEF ConsumerInv, TypeOK, ReadingCell, producerVars, consumerVars
  <1>7. DataInv'
    <2> SUFFICES ASSUME NEW n \in Oldest .. enqueue_pos - 1, sequence[Cell(n)] = n + 1
                 PROVE  data'[Cell(n)] \in Messages
      BY DEF DataInv, Oldest, ReadingCell, producerVars, consumerVars
    <2>1. n \in Nat /\ n # pos[p] /\ n \in Oldest .. Oldest + Size - 1
      BY <1>c DEF TypeOK, Oldest, PositionsInv
    <2> QED
      BY <2>1, <1>0, CellInRange DEF DataInv, TypeOK
  <1> QED
    BY <1>1, <1>2, <1>3, <1>4, <1>5, <1>6, <1>7

\* EnqueuePublish keeps the invariant.
LEMMA EnqueuePublishKeeps ==
  ASSUME QueueInv, NEW p \in Producers, EnqueuePublish(p)
  PROVE  QueueInv'
  <1> USE QueueAssumption DEF EnqueuePublish, QueueInv
  <1>0. \A n \in Oldest .. Oldest + Size - 1 : n # pos[p] => Cell(n) # Cell(pos[p])
    <2>1. Oldest \in Nat /\ pos[p] \in Oldest .. Oldest + Size - 1
      BY DEF TypeOK, PositionsInv, ProducerInv, ProducerOK, Holding, Oldest, ReadingCell
    <2> QED
      BY <2>1, CellsDiffer DEF TypeOK
  <1>a. \A q \in Producers : Holding(q) => pos[q] \in Oldest .. Oldest + Size - 1
    BY DEF TypeOK, PositionsInv, ProducerInv, ProducerOK, Oldest, ReadingCell
  <1>b. ReadingCell => cpos \in Oldest .. Oldest + Size - 1 /\ cpos < dequeue_pos
    BY DEF TypeOK, PositionsInv, Oldest
  <1>c. Holding(p) /\ pos[p] \in dequeue_pos .. enqueue_pos - 1 /\ sequence[Cell(pos[p])] = pos[p]
    BY DEF ProducerInv, ProducerOK, Holding
  <1>1. TypeOK'
    <2>1. pos[p] + 1 \in Nat
      BY DEF TypeOK
    <2> QED
      BY <2>1 DEF TypeOK, producerVars, consumerVars
  <1>2. PositionsInv'
    BY CellInRange, CellsDiffer DEF TypeOK, PositionsInv, Oldest, ReadingCell, Cells, producerVars, consumerVars
  <1>3. SequenceInv'
    <2> SUFFICES ASSUME NEW n \in Oldest .. Oldest + Size - 1 PROVE SequenceOK(n)'
      BY DEF SequenceInv, Oldest, ReadingCell, producerVars, consumerVars
    <2>0. n \in Nat /\ SequenceOK(n)
      BY DEF SequenceInv, TypeOK, Oldest
    <2>2. CASE n = pos[p]
      BY <1>c, <2>0, <2>2, CellInRange DEF SequenceOK, TypeOK, producerVars, consumerVars
    <2>3. CASE n # pos[p]
      <3>1. sequence'[Cell(n)] = sequence[Cell(n)]
        BY <1>0, <2>3, <2>0, CellInRange DEF TypeOK
      <3> QED
        BY <2>0, <2>3, <3>1 DEF SequenceOK, Holding, TypeOK, producerVars, consumerVars
    <2> QED
      BY <2>2, <2>3
  <1>4. ProducerInv'
    <2> SUFFICES ASSUME NEW q \in Producers PROVE ProducerOK(q)'
      BY DEF ProducerInv
    <2>0. ProducerOK(q) /\ Cell(pos[p]) \in Cells
      BY CellInRange DEF ProducerInv, TypeOK
    <2>9. Cell(pos[q]) \in Cells /\ sequence[Cell(pos[q])] <= sequence'[Cell(pos[q])]
      BY <1>c, CellInRange DEF TypeOK
    <2>1. CASE q = p
      BY <1>c, <2>0, <2>1 DEF TypeOK, ProducerOK, Holding, producerVars, consumerVars
    <2>2. CASE q # p
      <3>1. Holding(q) => Cell(pos[q]) # Cell(pos[p])
        BY <1>0, <1>a, <1>c, <2>2 DEF HoldersInv
      <3>2. at[q] = "cas" /\ pos[q] = enqueue_pos => sequence'[Cell(pos[q])] = sequence[Cell(pos[q])]
        <4>1. sequence[Cell(pos[p])] = pos[p] /\ pos[p] < enqueue_pos
          BY <1>c DEF TypeOK
        <4>2. at[q] = "cas" /\ pos[q] = enqueue_pos => Cell(pos[q]) # Cell(pos[p])
          BY <2>0, <4>1 DEF ProducerOK, TypeOK
        <4> QED
          BY <4>2, CellInRange DEF TypeOK
      <3> QED
        BY <2>0, <2>2, <2>9, <3>1, <3>2 DEF TypeOK, ProducerOK, Holding, producerVars, consumerVars
    <2> QED
      BY <2>1, <2>2
  <1>5. HoldersInv'
    BY CellInRange, CellsDiffer DEF TypeOK, HoldersInv, ProducerInv, ProducerOK, Holding, Cells, producerVars, consumerVars
  <1>6. ConsumerInv'
    <2>1. reading = "cas" => Cell(cpos) # Cell(pos[p])
      <3>1. reading = "cas" => /\ cpos \in Oldest .. Oldest + Size - 1
                               /\ sequence[Cell(cpos)] = cpos + 1
        BY DEF ConsumerInv, PositionsInv, TypeOK, Oldest, ReadingCell
      <3> QED
        BY <1>0, <1>c, <3>1 DEF TypeOK
    <2>2. ReadingCell => Cell(cpos) # Cell(pos[p])
      BY <1>0, <1>b, <1>c DEF TypeOK
    <2> QED
      BY <2>1, <2>2, CellInRange DEF ConsumerInv, TypeOK, ReadingCell, producerVars, consumerVars
  <1>7. DataInv'
    <2> SUFFICES ASSUME NEW n \in Oldest .. enqueue_pos - 1, sequence'[Cell(n)] = n + 1
                 PROVE  data[Cell(n)] \in Messages
      BY DEF DataInv, Oldest, ReadingCell, producerVars, consumerVars
    <2>0. n \in Nat /\ n \in Oldest .. Oldest + Size - 1
      BY DEF TypeOK, Oldest, PositionsInv
    <2>1. CASE n = pos[p]
      BY <2>1 DEF ProducerInv, ProducerOK
    <2>2. CASE n # pos[p]
      BY <2>0, <2>2, <1>0, CellInRange DEF DataInv, TypeOK
    <2> QED
      BY <2>1, <2>2
  <1> QED
    BY <1>1, <1>2, <1>3, <1>4, <1>5, <1>6, <1>7

\* DequeueLoad keeps the invariant.
LEMMA DequeueLoadKeeps ==
  ASSUME QueueInv, DequeueLoad
  PROVE  QueueInv'
  <1> USE QueueAssumption DEF DequeueLoad, QueueInv
  <1>1. TypeOK'
    BY CellInRange DEF TypeOK, Cells, producerVars, consumerVars
  <1>2. PositionsInv'
    BY CellInRange, CellsDiffer DEF TypeOK, PositionsInv, Oldest, ReadingCell, Cells, producerVars, consumerVars
  <1>3. SequenceInv'
    BY CellInRange, CellsDiffer DEF TypeOK, PositionsInv, SequenceInv, ProducerInv, ProducerOK, Oldest, ReadingCell, Holding, SequenceOK, Cells, producerVars, consumerVars
  <1>4. ProducerInv'
    BY CellInRange, CellsDiffer DEF TypeOK, PositionsInv, ProducerInv, ProducerOK, HoldersInv, Holding, ReadingCell, Oldest, Cells, producerVars, consumerVars
  <1>5. HoldersInv'
    BY CellInRange, CellsDiffer DEF TypeOK, HoldersInv, ProducerInv, ProducerOK, Holding, Cells, producerVars, consumerVars
  <1>6. ConsumerInv'
    BY CellInRange, CellsDiffer DEF TypeOK, PositionsInv, ConsumerInv, ProducerInv, ProducerOK, Holding, ReadingCell, Oldest, Cells, producerVars, consumerVars
  <1>7. DataInv'
    BY CellInRange, CellsDiffer DEF TypeOK, PositionsInv, SequenceInv, ProducerInv, ProducerOK, DataInv, Oldest, ReadingCell, Holding, SequenceOK, Cells, producerVars, consumerVars
  <1> QED
    BY <1>1, <1>2, <1>3, <1>4, <1>5, <1>6, <1>7

\* DequeueLook keeps the invariant.
LEMMA DequeueLookKeeps ==
  ASSUME QueueInv, DequeueLook
  PROVE  QueueInv'
  <1> USE QueueAssumption DEF DequeueLook, QueueInv
  <1>1. TypeOK'
    BY CellInRange DEF TypeOK, Cells, producerVars, consumerVars
  <1>2. PositionsInv'
    BY CellInRange, CellsDiffer DEF TypeOK, PositionsInv, Oldest, ReadingCell, Cells, producerVars, consumerVars
  <1>3. SequenceInv'
    BY CellInRange, CellsDiffer DEF TypeOK, PositionsInv, SequenceInv, ProducerInv, ProducerOK, Oldest, ReadingCell, Holding, SequenceOK, Cells, producerVars, consumerVars
  <1>4. ProducerInv'
    BY CellInRange, CellsDiffer DEF TypeOK, PositionsInv, ProducerInv, ProducerOK, HoldersInv, Holding, ReadingCell, Oldest, Cells, producerVars, consumerVars
  <1>5. HoldersInv'
    BY CellInRange, CellsDiffer DEF TypeOK, HoldersInv, ProducerInv, ProducerOK, Holding, Cells, producerVars, consumerVars
  <1>6. ConsumerInv'
    <2>1. cpos = dequeue_pos /\ Oldest = dequeue_pos /\ dequeue_pos \in Nat
      BY DEF PositionsInv, TypeOK, Oldest, ReadingCell
    <2>2. sequence[Cell(cpos)] >= cpos + 1 => sequence[Cell(cpos)] = cpos + 1 /\ dequeue_pos < enqueue_pos
      <3>1. SequenceOK(dequeue_pos)
        BY <2>1 DEF SequenceInv
      <3> QED
        BY <2>1, <3>1 DEF SequenceOK, TypeOK
    <2>3. sequence[Cell(cpos)] \in Nat
      BY <2>1, CellInRange DEF TypeOK
    <2> QED
      BY <2>1, <2>2, <2>3 DEF ConsumerInv, TypeOK, producerVars, consumerVars
  <1>7. DataInv'
    BY CellInRange, CellsDiffer DEF TypeOK, PositionsInv, SequenceInv, ProducerInv, ProducerOK, DataInv, Oldest, ReadingCell, Holding, SequenceOK, Cells, producerVars, consumerVars
  <1> QED
    BY <1>1, <1>2, <1>3, <1>4, <1>5, <1>6, <1>7

\* DequeueWin keeps the invariant.
LEMMA DequeueWinKeeps ==
  ASSUME QueueInv, DequeueWin
  PROVE  QueueInv'
  <1> USE QueueAssumption DEF DequeueWin, QueueInv
  <1>0. /\ cpos = dequeue_pos /\ dequeue_pos < enqueue_pos /\ Oldest = dequeue_pos /\ Oldest' = dequeue_pos
        /\ sequence[Cell(dequeue_pos)] = dequeue_pos + 1
    BY DEF PositionsInv, ConsumerInv, Oldest, ReadingCell
  <1>1. TypeOK'
    <2>1. dequeue_pos' \in Nat
      BY DEF TypeOK
    <2> QED
      BY <2>1 DEF TypeOK, producerVars, consumerVars
  <1>2. PositionsInv'
    BY <1>0 DEF TypeOK, PositionsInv, Oldest, ReadingCell, producerVars, consumerVars
  <1>3. SequenceInv'
    BY CellInRange, CellsDiffer DEF TypeOK, PositionsInv, SequenceInv, ProducerInv, ProducerOK, Oldest, ReadingCell, Holding, SequenceOK, Cells, producerVars, consumerVars
  <1>4. ProducerInv'
    <2> SUFFICES ASSUME NEW q \in Producers PROVE ProducerOK(q)'
      BY DEF ProducerInv
    <2>0. ProducerOK(q)
      BY DEF ProducerInv
    <2>1. Holding(q) => pos[q] # dequeue_pos
      BY <1>0, <2>0 DEF ProducerOK, TypeOK
    <2> QED
      BY <1>0, <2>0, <2>1 DEF TypeOK, ProducerOK, Holding, producerVars, consumerVars
  <1>5. HoldersInv'
    BY CellInRange, CellsDiffer DEF TypeOK, HoldersInv, ProducerInv, ProducerOK, Holding, Cells, producerVars, consumerVars
  <1>6. ConsumerInv'
    BY CellInRange, CellsDiffer DEF TypeOK, PositionsInv, ConsumerInv, ProducerInv, ProducerOK, Holding, ReadingCell, Oldest, Cells, producerVars, consumerVars
  <1>7. DataInv'
    BY CellInRange, CellsDiffer DEF TypeOK, PositionsInv, SequenceInv, ProducerInv, ProducerOK, DataInv, Oldest, ReadingCell, Holding, SequenceOK, Cells, producerVars, consumerVars
  <1> QED
    BY <1>1, <1>2, <1>3, <1>4, <1>5, <1>6, <1>7

\* DequeueLose keeps the invariant.
LEMMA DequeueLoseKeeps ==
  ASSUME QueueInv, DequeueLose
  PROVE  QueueInv'
  <1> USE QueueAssumption DEF DequeueLose, QueueInv
  <1>1. TypeOK'
    BY CellInRange DEF TypeOK, Cells, producerVars, consumerVars
  <1>2. PositionsInv'
    BY CellInRange, CellsDiffer DEF TypeOK, PositionsInv, Oldest, ReadingCell, Cells, producerVars, consumerVars
  <1>3. SequenceInv'
    BY CellInRange, CellsDiffer DEF TypeOK, PositionsInv, SequenceInv, ProducerInv, ProducerOK, Oldest, ReadingCell, Holding, SequenceOK, Cells, producerVars, consumerVars
  <1>4. ProducerInv'
    BY CellInRange, CellsDiffer DEF TypeOK, PositionsInv, ProducerInv, ProducerOK, HoldersInv, Holding, ReadingCell, Oldest, Cells, producerVars, consumerVars
  <1>5. HoldersInv'
    BY CellInRange, CellsDiffer DEF TypeOK, HoldersInv, ProducerInv, ProducerOK, Holding, Cells, producerVars, consumerVars
  <1>6. ConsumerInv'
    BY CellInRange, CellsDiffer DEF TypeOK, PositionsInv, ConsumerInv, ProducerInv, ProducerOK, Holding, ReadingCell, Oldest, Cells, producerVars, consumerVars
  <1>7. DataInv'
    BY CellInRange, CellsDiffer DEF TypeOK, PositionsInv, SequenceInv, ProducerInv, ProducerOK, DataInv, Oldest, ReadingCell, Holding, SequenceOK, Cells, producerVars, consumerVars
  <1> QED
    BY <1>1, <1>2, <1>3, <1>4, <1>5, <1>6, <1>7

\* DequeueRead keeps the invariant.
LEMMA DequeueReadKeeps ==
  ASSUME QueueInv, DequeueRead
  PROVE  QueueInv'
  <1> USE QueueAssumption DEF DequeueRead, QueueInv
  <1>1. TypeOK'
    BY CellInRange DEF TypeOK, Cells, producerVars, consumerVars
  <1>2. PositionsInv'
    BY CellInRange, CellsDiffer DEF TypeOK, PositionsInv, Oldest, ReadingCell, Cells, producerVars, consumerVars
  <1>3. SequenceInv'
    BY CellInRange, CellsDiffer DEF TypeOK, PositionsInv, SequenceInv, ProducerInv, ProducerOK, Oldest, ReadingCell, Holding, SequenceOK, Cells, producerVars, consumerVars
  <1>4. ProducerInv'
    BY CellInRange, CellsDiffer DEF TypeOK, PositionsInv, ProducerInv, ProducerOK, HoldersInv, Holding, ReadingCell, Oldest, Cells, producerVars, consumerVars
  <1>5. HoldersInv'
    BY CellInRange, CellsDiffer DEF TypeOK, HoldersInv, ProducerInv, ProducerOK, Holding, Cells, producerVars, consumerVars
  <1>6. ConsumerInv'
    BY CellInRange, CellsDiffer DEF TypeOK, PositionsInv, ConsumerInv, ProducerInv, ProducerOK, Holding, ReadingCell, Oldest, Cells, producerVars, consumerVars
  <1>7. DataInv'
    BY CellInRange, CellsDiffer DEF TypeOK, PositionsInv, SequenceInv, ProducerInv, ProducerOK, DataInv, Oldest, ReadingCell, Holding, SequenceOK, Cells, producerVars, consumerVars
  <1> QED
    BY <1>1, <1>2, <1>3, <1>4, <1>5, <1>6, <1>7

\* DequeueRelease keeps the invariant.
LEMMA DequeueReleaseKeeps ==
  ASSUME QueueInv, DequeueRelease
  PROVE  QueueInv'
  <1> USE QueueAssumption DEF DequeueRelease, QueueInv
  <1>0. /\ cpos \in Nat /\ Oldest = cpos /\ Oldest' = cpos + 1 /\ dequeue_pos = cpos + 1
        /\ Cell(cpos + Size) = Cell(cpos) /\ Cell(cpos) \in Cells
    BY CellInRange, CellNextRound DEF TypeOK, PositionsInv, Oldest, ReadingCell
  <1>a. \A n \in cpos + 1 .. cpos + Size - 1 : sequence'[Cell(n)] = sequence[Cell(n)]
    BY <1>0, CellsDiffer, CellInRange DEF TypeOK
  <1>1. TypeOK'
    <2>1. cpos + Size \in Nat
      BY DEF TypeOK
    <2> QED
      BY <2>1 DEF TypeOK, producerVars, consumerVars
  <1>2. PositionsInv'
    BY CellInRange, CellsDiffer DEF TypeOK, PositionsInv, Oldest, ReadingCell, Cells, producerVars, consumerVars
  <1>3. SequenceInv'
    <2> SUFFICES ASSUME NEW n \in cpos + 1 .. cpos + Size PROVE SequenceOK(n)'
      BY <1>0 DEF SequenceInv
    <2>1. CASE n = cpos + Size
      BY <1>0, <2>1 DEF SequenceOK, TypeOK, PositionsInv, producerVars, consumerVars
    <2>2. CASE n # cpos + Size
      <3>1. SequenceOK(n) /\ sequence'[Cell(n)] = sequence[Cell(n)]
        BY <1>0, <1>a, <2>2 DEF SequenceInv
      <3> QED
        BY <3>1 DEF SequenceOK, Holding, producerVars, consumerVars
    <2> QED
      BY <2>1, <2>2
  <1>4. ProducerInv'
    <2> SUFFICES ASSUME NEW q \in Producers PROVE ProducerOK(q)'
      BY DEF ProducerInv
    <2>0. ProducerOK(q) /\ pos[q] \in Nat
      BY DEF ProducerInv, TypeOK
    <2>3. Cell(pos[q]) \in Cells /\ sequence[Cell(pos[q])] <= sequence'[Cell(pos[q])]
      BY <1>0, CellInRange DEF TypeOK, ConsumerInv
    <2>1. Holding(q) => sequence'[Cell(pos[q])] = sequence[Cell(pos[q])]
      <3>1. Holding(q) => pos[q] \in cpos + 1 .. cpos + Size - 1
        BY <1>0, <2>0 DEF ProducerOK, PositionsInv, TypeOK
      <3> QED
        BY <1>a, <3>1
    <2>2. at[q] = "cas" /\ pos[q] = enqueue_pos => sequence'[Cell(pos[q])] = sequence[Cell(pos[q])]
      <3>1. enqueue_pos \in cpos + 1 .. cpos + Size
        BY <1>0 DEF PositionsInv, TypeOK
      <3>2. CASE enqueue_pos = cpos + Size
        BY <1>0, <2>0, <3>2 DEF ProducerOK, ConsumerInv, TypeOK
      <3> QED
        BY <1>a, <3>1, <3>2, <1>0
    <2> QED
      BY <2>0, <2>3, <2>1, <2>2 DEF TypeOK, ProducerOK, Holding, producerVars, consumerVars
  <1>5. HoldersInv'
    BY CellInRange, CellsDiffer DEF TypeOK, HoldersInv, ProducerInv, ProducerOK, Holding, Cells, producerVars, consumerVars
  <1>6. ConsumerInv'
    BY CellInRange, CellsDiffer DEF TypeOK, PositionsInv, ConsumerInv, ProducerInv, ProducerOK, Holding, ReadingCell, Oldest, Cells, producerVars, consumerVars
  <1>7. DataInv'
    <2> SUFFICES ASSUME NEW n \in cpos + 1 .. enqueue_pos - 1, sequence'[Cell(n)] = n + 1
                 PROVE  data[Cell(n)] \in Messages
      BY <1>0 DEF DataInv, producerVars, consumerVars
    <2>1. n \in cpos + 1 .. cpos + Size - 1
      BY <1>0 DEF PositionsInv, TypeOK
    <2> QED
      BY <1>0, <1>a, <2>1 DEF DataInv, TypeOK
  <1> QED
    BY <1>1, <1>2, <1>3, <1>4, <1>5, <1>6, <1>7

----------------------------------------------------------------------------

\* The inductive invariant of mpmc_bounded_queue holds for any number of
\* producers, messages and cells: enqueue_pos, dequeue_pos and the sequence
\* numbers (mpmc_bounded_q.h:82-133) always say whose each cell is.
THEOREM QueueInvariant == Spec => []QueueInv
  <1>1. QueueInv /\ [Next]_vars => QueueInv'
    <2> SUFFICES ASSUME QueueInv, [Next]_vars PROVE QueueInv'
      OBVIOUS
    <2>1. ASSUME NEW p \in Producers, Enqueue(p) PROVE QueueInv'
      BY <2>1, EnqueueCallKeeps, EnqueueLoadKeeps, EnqueueLookKeeps, EnqueueWinKeeps,
         EnqueueLoseKeeps, EnqueueWriteKeeps, EnqueuePublishKeeps DEF Enqueue
    <2>2. CASE Dequeue
      BY <2>2, DequeueLoadKeeps, DequeueLookKeeps, DequeueWinKeeps, DequeueLoseKeeps,
         DequeueReadKeeps, DequeueReleaseKeeps DEF Dequeue
    <2>3. CASE UNCHANGED vars
      BY <2>3 DEF vars, producerVars, consumerVars, QueueInv, TypeOK, PositionsInv, SequenceInv,
         SequenceOK, ProducerInv, ProducerOK, HoldersInv, ConsumerInv, DataInv, Oldest,
         ReadingCell, Holding
    <2> QED
      BY <2>1, <2>2, <2>3 DEF Next
  <1> QED
    BY <1>1, QueueInit, PTL DEF Spec

\* No two threads move a message in or out of one cell at the same time:
\* the plain member data_ (mpmc_bounded_q.h:105, 130) is never raced for.
THEOREM Exclusive == Spec => []CellsExclusive
  <1>1. QueueInv => CellsExclusive
    <2> SUFFICES ASSUME QueueInv, NEW p \in Producers, Holding(p) PROVE
                   /\ \A q \in Producers \ {p} : Holding(q) => Cell(pos[q]) # Cell(pos[p])
                   /\ ReadingCell => Cell(cpos) # Cell(pos[p])
      BY DEF CellsExclusive
    <2>1. \A q \in Producers : Holding(q) =>
            pos[q] \in Nat /\ pos[q] \in Oldest .. Oldest + Size - 1 /\ pos[q] >= dequeue_pos
      BY QueueAssumption DEF QueueInv, TypeOK, PositionsInv, ProducerInv, ProducerOK, Oldest
    <2>2. Oldest \in Nat /\ (ReadingCell => cpos = Oldest /\ dequeue_pos = cpos + 1)
      BY DEF QueueInv, TypeOK, PositionsInv, Oldest
    <2>3. \A i, j \in Oldest .. Oldest + Size - 1 : i # j => Cell(i) # Cell(j)
      BY <2>2, CellsDiffer, QueueAssumption
    <2>4. ASSUME NEW q \in Producers \ {p}, Holding(q) PROVE Cell(pos[q]) # Cell(pos[p])
      BY <2>1, <2>3, <2>4 DEF QueueInv, HoldersInv
    <2>5. ASSUME ReadingCell PROVE Cell(cpos) # Cell(pos[p])
      BY <2>1, <2>2, <2>3, <2>5, QueueAssumption DEF QueueInv, TypeOK
    <2> QED
      BY <2>4, <2>5
  <1> QED
    BY <1>1, QueueInvariant, PTL

----------------------------------------------------------------------------
(* The refinement: what each position in use looks like from outside.      *)

LEMMA WriterUnique ==
  QueueInv => \A w \in Producers : Holding(w) => Writer(pos[w]) = w
  BY DEF QueueInv, HoldersInv, Writer

LEMMA WriterUniqueNext ==
  QueueInv' => (\A w \in Producers : Holding(w) => Writer(pos[w]) = w)'
  BY WriterUnique, PTL

\* A position in use is published, or with the one producer that won it.
LEMMA EntryCases ==
  QueueInv => \A n \in dequeue_pos .. enqueue_pos - 1 :
    \/ /\ sequence[Cell(n)] = n + 1
       /\ EntryAt(n) = [msg |-> data[Cell(n)], by |-> NoOne]
       /\ data[Cell(n)] \in Messages
    \/ \E p \in Producers :
         /\ Holding(p) /\ pos[p] = n /\ sequence[Cell(n)] = n
         /\ EntryAt(n) = [msg |-> item[p], by |-> p]
         /\ item[p] \in Messages
  <1> SUFFICES ASSUME QueueInv, NEW n \in dequeue_pos .. enqueue_pos - 1
               PROVE  \/ /\ sequence[Cell(n)] = n + 1
                         /\ EntryAt(n) = [msg |-> data[Cell(n)], by |-> NoOne]
                         /\ data[Cell(n)] \in Messages
                      \/ \E p \in Producers :
                           /\ Holding(p) /\ pos[p] = n /\ sequence[Cell(n)] = n
                           /\ EntryAt(n) = [msg |-> item[p], by |-> p]
                           /\ item[p] \in Messages
    OBVIOUS
  <1>1. n \in Nat /\ n < enqueue_pos /\ n \in Oldest .. Oldest + Size - 1 /\ n \in Oldest .. enqueue_pos - 1
    BY QueueAssumption DEF QueueInv, TypeOK, PositionsInv, Oldest
  <1>2. SequenceOK(n)
    BY <1>1 DEF QueueInv, SequenceInv
  <1>3. CASE sequence[Cell(n)] = n + 1
    BY <1>1, <1>3 DEF QueueInv, DataInv, EntryAt
  <1>4. CASE sequence[Cell(n)] # n + 1
    <2>1. PICK p \in Producers : Holding(p) /\ pos[p] = n /\ sequence[Cell(n)] = n
      BY <1>1, <1>2, <1>4 DEF SequenceOK, QueueInv, TypeOK
    <2>2. Writer(n) = p /\ item[p] \in Messages
      BY <2>1, WriterUnique DEF QueueInv, ProducerInv, ProducerOK, Holding
    <2> QED
      BY <1>4, <2>1, <2>2 DEF EntryAt
  <1> QED
    BY <1>3, <1>4

LEMMA WaitingSeq ==
  QueueInv => Waiting \in Seq(Fifo!Entries) /\ Len(Waiting) = enqueue_pos - dequeue_pos
  <1> SUFFICES ASSUME QueueInv
               PROVE  Waiting \in Seq(Fifo!Entries) /\ Len(Waiting) = enqueue_pos - dequeue_pos
    OBVIOUS
  <1>1. enqueue_pos - dequeue_pos \in Nat
    BY DEF QueueInv, TypeOK, PositionsInv
  <1>2. \A i \in 1 .. enqueue_pos - dequeue_pos : dequeue_pos + i - 1 \in dequeue_pos .. enqueue_pos - 1
    BY DEF QueueInv, TypeOK
  <1>3. \A i \in 1 .. enqueue_pos - dequeue_pos : EntryAt(dequeue_pos + i - 1) \in Fifo!Entries
    BY <1>2, EntryCases DEF Fifo!Entries
  <1> QED
    BY <1>1, <1>3 DEF Waiting

\* What a position holds does not change while its cell and its writer do not.
LEMMA EntryKept ==
  ASSUME QueueInv, QueueInv', NEW n \in dequeue_pos .. enqueue_pos - 1,
         n \in dequeue_pos' .. enqueue_pos' - 1,
         sequence'[Cell(n)] = sequence[Cell(n)],
         sequence[Cell(n)] = n + 1 => data'[Cell(n)] = data[Cell(n)],
         \A p \in Producers : Holding(p) /\ pos[p] = n =>
           Holding(p)' /\ pos'[p] = n /\ item'[p] = item[p]
  PROVE  EntryAt(n)' = EntryAt(n)
  <1>0. (\A w \in Producers : Holding(w) => Writer(pos[w]) = w)'
    BY WriterUniqueNext
  <1>1. CASE sequence[Cell(n)] = n + 1
    BY <1>1 DEF EntryAt
  <1>2. CASE sequence[Cell(n)] # n + 1
    <2>1. PICK p \in Producers : Holding(p) /\ pos[p] = n /\ EntryAt(n) = [msg |-> item[p], by |-> p]
      BY <1>2, EntryCases
    <2>2. Writer(n)' = p
      BY <1>0, <2>1
    <2> QED
      BY <1>2, <2>1, <2>2 DEF EntryAt
  <1> QED
    BY <1>1, <1>2

LEMMA WaitingKept ==
  ASSUME QueueInv, QueueInv', UNCHANGED <<enqueue_pos, dequeue_pos>>,
         \A n \in dequeue_pos .. enqueue_pos - 1 :
           /\ sequence'[Cell(n)] = sequence[Cell(n)]
           /\ sequence[Cell(n)] = n + 1 => data'[Cell(n)] = data[Cell(n)],
         \A p \in Producers : Holding(p) =>
           Holding(p)' /\ pos'[p] = pos[p] /\ item'[p] = item[p]
  PROVE  Waiting' = Waiting
  <1>1. \A n \in dequeue_pos .. enqueue_pos - 1 : EntryAt(n)' = EntryAt(n)
    BY EntryKept
  <1>2. \A i \in 1 .. enqueue_pos - dequeue_pos : dequeue_pos + i - 1 \in dequeue_pos .. enqueue_pos - 1
    BY DEF QueueInv, TypeOK
  <1> QED
    BY <1>1, <1>2 DEF Waiting

\* The positions, threads and cells of a step that only one of them takes.
LEMMA WinAppends ==
  ASSUME QueueInv, QueueInv', NEW p \in Producers, EnqueueWin(p)
  PROVE  Waiting' = Append(Waiting, [msg |-> item[p], by |-> p])
  <1> DEFINE e == [msg |-> item[p], by |-> p]
             k == enqueue_pos - dequeue_pos
  <1>0. /\ pos[p] = enqueue_pos /\ enqueue_pos' = enqueue_pos + 1 /\ dequeue_pos' = dequeue_pos
        /\ enqueue_pos \in Nat /\ dequeue_pos \in Nat /\ dequeue_pos <= enqueue_pos /\ k \in Nat
    BY DEF EnqueueWin, QueueInv, TypeOK, PositionsInv
  <1>1. e \in Fifo!Entries
    BY DEF EnqueueWin, QueueInv, ProducerInv, ProducerOK, Fifo!Entries
  <1>2. Waiting \in Seq(Fifo!Entries) /\ Len(Waiting) = k
    BY WaitingSeq
  <1>3. Waiting' \in Seq(Fifo!Entries) /\ Len(Waiting') = k + 1
    <2>1. (Waiting \in Seq(Fifo!Entries) /\ Len(Waiting) = enqueue_pos - dequeue_pos)'
      BY WaitingSeq, PTL
    <2> QED
      BY <2>1, <1>0 DEF Fifo!Entries
  <1>4. \A i \in 1 .. k : Waiting'[i] = Waiting[i]
    <2> SUFFICES ASSUME NEW i \in 1 .. k PROVE Waiting'[i] = Waiting[i]
      OBVIOUS
    <2>0. PICK n \in Nat : n = dequeue_pos + i - 1
      BY <1>0
    <2>1. n \in dequeue_pos .. enqueue_pos - 1 /\ n \in dequeue_pos' .. enqueue_pos' - 1
      BY <1>0, <2>0
    <2>2. EntryAt(n)' = EntryAt(n)
      <3>1. sequence' = sequence /\ data' = data /\ item' = item /\ pos' = pos
        BY DEF EnqueueWin
      <3>2. \A q \in Producers : Holding(q) => Holding(q)'
        BY DEF EnqueueWin, Holding, QueueInv, TypeOK
      <3>3. \A q \in Producers : Holding(q) /\ pos[q] = n =>
              Holding(q)' /\ pos'[q] = n /\ item'[q] = item[q]
        BY <3>1, <3>2
      <3> QED
        BY <2>1, <3>1, <3>3, EntryKept
    <2> QED
      BY <2>0, <2>1, <2>2, <1>0 DEF Waiting
  <1>5. Waiting'[k + 1] = [msg |-> item[p], by |-> p]
    <2>0. PICK n \in Nat : n = enqueue_pos
      BY <1>0
    <2>1. Holding(p)' /\ pos'[p] = n /\ item' = item /\ sequence' = sequence
      BY <1>0, <2>0 DEF EnqueueWin, Holding, QueueInv, TypeOK
    <2>2. Writer(n)' = p
      BY <2>1, WriterUniqueNext
    <2>3. sequence'[Cell(n)] # n + 1
      BY <1>0, <2>0, <2>1 DEF EnqueueWin, QueueInv, ProducerInv, ProducerOK
    <2>4. EntryAt(n)' = [msg |-> item[p], by |-> p]
      BY <2>1, <2>2, <2>3 DEF EntryAt
    <2>5. k + 1 \in 1 .. enqueue_pos' - dequeue_pos' /\ dequeue_pos' + (k + 1) - 1 = n
      BY <1>0, <2>0
    <2> QED
      BY <2>4, <2>5 DEF Waiting
  <1> HIDE DEF e, k
  <1>6. /\ Append(Waiting, e) \in Seq(Fifo!Entries) /\ Len(Append(Waiting, e)) = k + 1
        /\ \A i \in 1 .. k : Append(Waiting, e)[i] = Waiting[i]
        /\ Append(Waiting, e)[k + 1] = e
    BY <1>1, <1>2, AppendProperties
  <1>7. \A i \in 1 .. Len(Waiting') : Waiting'[i] = Append(Waiting, e)[i]
    BY <1>0, <1>3, <1>4, <1>5, <1>6 DEF e
  <1>8. Waiting' = Append(Waiting, e)
    BY <1>3, <1>6, <1>7, SeqEqual
  <1> QED
    BY <1>8 DEF e

LEMMA PublishReadies ==
  ASSUME QueueInv, QueueInv', NEW p \in Producers, EnqueuePublish(p)
  PROVE  Waiting' = [i \in DOMAIN Waiting |->
                       [Waiting[i] EXCEPT !.by = IF @ = p THEN NoOne ELSE @]]
  <1>0. /\ UNCHANGED <<enqueue_pos, dequeue_pos, data, pos, item>>
        /\ Holding(p) /\ data[Cell(pos[p])] = item[p]
        /\ pos[p] \in dequeue_pos .. enqueue_pos - 1 /\ pos[p] \in Nat
        /\ enqueue_pos \in Nat /\ dequeue_pos \in Nat
    BY DEF EnqueuePublish, Holding, QueueInv, TypeOK, ProducerInv, ProducerOK
  <1>1. \A n \in dequeue_pos .. enqueue_pos - 1 : n # pos[p] => Cell(n) # Cell(pos[p])
    <2>1. Oldest \in Nat /\ Oldest <= dequeue_pos /\ enqueue_pos <= Oldest + Size
      BY DEF QueueInv, TypeOK, PositionsInv, Oldest
    <2>2. \A n \in dequeue_pos .. enqueue_pos - 1 :
            n \in Nat /\ (n < pos[p] => pos[p] < n + Size) /\ (n > pos[p] => n < pos[p] + Size)
      BY <1>0, <2>1, QueueAssumption
    <2> QED
      BY <1>0, <2>2, CellsDiffer
  <1>2. ASSUME NEW n \in dequeue_pos .. enqueue_pos - 1
        PROVE  EntryAt(n)' = [EntryAt(n) EXCEPT !.by = IF @ = p THEN NoOne ELSE @]
    <2>1. CASE n = pos[p]
      <3>1. EntryAt(n) = [msg |-> item[p], by |-> p]
        <4>1. Writer(n) = p
          BY <1>0, <2>1, WriterUnique
        <4>2. sequence[Cell(n)] # n + 1
          BY <1>0, <2>1 DEF QueueInv, ProducerInv, ProducerOK
        <4> QED
          BY <4>1, <4>2 DEF EntryAt
      <3>2. sequence'[Cell(n)] = n + 1
        BY <1>0, <2>1, CellInRange DEF EnqueuePublish, QueueInv, TypeOK
      <3>3. EntryAt(n)' = [msg |-> item[p], by |-> NoOne]
        BY <1>0, <2>1, <3>2 DEF EntryAt
      <3> QED
        BY <3>1, <3>3
    <2>2. CASE n # pos[p]
      <3>1. sequence'[Cell(n)] = sequence[Cell(n)]
        BY <1>0, <1>1, <2>2, CellInRange DEF EnqueuePublish, QueueInv, TypeOK
      <3>2. \A q \in Producers : Holding(q) /\ pos[q] = n =>
              Holding(q)' /\ pos'[q] = n /\ item'[q] = item[q]
        BY <1>0, <2>2 DEF EnqueuePublish, Holding, QueueInv, TypeOK
      <3>3. EntryAt(n)' = EntryAt(n)
        BY <1>0, <3>1, <3>2, EntryKept
      <3>4. \/ EntryAt(n) = [msg |-> data[Cell(n)], by |-> NoOne]
            \/ \E q \in Producers : q # p /\ EntryAt(n) = [msg |-> item[q], by |-> q]
        BY <2>2, EntryCases
      <3> QED
        BY <3>3, <3>4, QueueAssumption
    <2> QED
      BY <2>1, <2>2
  <1>3. DOMAIN Waiting = 1 .. enqueue_pos - dequeue_pos /\ DOMAIN Waiting' = 1 .. enqueue_pos - dequeue_pos
    BY <1>0 DEF Waiting
  <1>4. ASSUME NEW i \in 1 .. enqueue_pos - dequeue_pos
        PROVE  Waiting'[i] = [Waiting[i] EXCEPT !.by = IF @ = p THEN NoOne ELSE @]
    <2>1. PICK n \in Nat : n = dequeue_pos + i - 1 /\ n \in dequeue_pos .. enqueue_pos - 1
      BY <1>0
    <2>2. Waiting[i] = EntryAt(n) /\ Waiting'[i] = EntryAt(n)'
      BY <1>0, <2>1 DEF Waiting
    <2> QED
      BY <1>2, <2>1, <2>2
  <1>5. Waiting' = [i \in 1 .. enqueue_pos - dequeue_pos |-> Waiting'[i]]
    BY <1>0 DEF Waiting
  <1> QED
    BY <1>3, <1>4, <1>5

LEMMA WinTakes ==
  ASSUME QueueInv, QueueInv', DequeueWin
  PROVE  /\ Waiting # <<>> /\ Head(Waiting) = [msg |-> data[Cell(cpos)], by |-> NoOne]
         /\ Waiting' = Tail(Waiting)
  <1> DEFINE k == enqueue_pos - dequeue_pos
  <1>0. /\ cpos = dequeue_pos /\ dequeue_pos < enqueue_pos
        /\ sequence[Cell(dequeue_pos)] = dequeue_pos + 1
        /\ enqueue_pos \in Nat /\ dequeue_pos \in Nat /\ k \in Nat \ {0}
        /\ enqueue_pos' = enqueue_pos /\ dequeue_pos' = dequeue_pos + 1
    BY DEF DequeueWin, QueueInv, TypeOK, PositionsInv, ConsumerInv
  <1>1. Waiting \in Seq(Fifo!Entries) /\ Len(Waiting) = k
    BY WaitingSeq
  <1>2. Waiting' \in Seq(Fifo!Entries) /\ Len(Waiting') = k - 1
    <2>1. (Waiting \in Seq(Fifo!Entries) /\ Len(Waiting) = enqueue_pos - dequeue_pos)'
      BY WaitingSeq, PTL
    <2> QED
      BY <2>1, <1>0 DEF Fifo!Entries
  <1>3. Waiting # <<>> /\ Head(Waiting) = [msg |-> data[Cell(cpos)], by |-> NoOne]
    <2>1. Waiting[1] = EntryAt(dequeue_pos)
      BY <1>0 DEF Waiting
    <2> QED
      BY <1>0, <1>1, <2>1 DEF EntryAt
  <1>4. \A i \in 1 .. k - 1 : Waiting'[i] = Waiting[i + 1]
    <2> SUFFICES ASSUME NEW i \in 1 .. k - 1 PROVE Waiting'[i] = Waiting[i + 1]
      OBVIOUS
    <2>0. PICK n \in Nat : n = dequeue_pos + i
      BY <1>0
    <2>1. n \in dequeue_pos .. enqueue_pos - 1 /\ n \in dequeue_pos' .. enqueue_pos' - 1
      BY <1>0, <2>0
    <2>2. EntryAt(n)' = EntryAt(n)
      <3>1. \A q \in Producers : Holding(q) /\ pos[q] = n =>
              Holding(q)' /\ pos'[q] = n /\ item'[q] = item[q]
        BY DEF DequeueWin, producerVars, Holding
      <3> QED
        BY <2>1, <3>1, EntryKept DEF DequeueWin
    <2>3. /\ i \in 1 .. enqueue_pos' - dequeue_pos' /\ dequeue_pos' + i - 1 = n
          /\ i + 1 \in 1 .. enqueue_pos - dequeue_pos /\ dequeue_pos + (i + 1) - 1 = n
      BY <1>0, <2>0
    <2> QED
      BY <2>2, <2>3 DEF Waiting
  <1> HIDE DEF k
  <1>5. /\ Tail(Waiting) \in Seq(Fifo!Entries) /\ Len(Tail(Waiting)) = k - 1
        /\ \A i \in 1 .. k - 1 : Tail(Waiting)[i] = Waiting[i + 1]
    BY <1>1, <1>3, HeadTailProperties
  <1>6. \A i \in 1 .. Len(Waiting') : Waiting'[i] = Tail(Waiting)[i]
    BY <1>2, <1>4, <1>5
  <1>7. Waiting' = Tail(Waiting)
    BY <1>2, <1>5, <1>6, SeqEqual
  <1> QED
    BY <1>3, <1>7

----------------------------------------------------------------------------
(* Every step is a step of the bounded queue, or none.                     *)

LEMMA CallsUpdate ==
  ASSUME NEW p \in Producers, \A q \in Producers \ {p} : at'[q] = at[q]
  PROVE  Calls' = [Calls EXCEPT ![p] = CallOf(p)']
  <1>1. \A q \in Producers \ {p} : CallOf(q)' = CallOf(q)
    BY DEF CallOf, Holding
  <1> QED
    BY <1>1 DEF Calls

\* What is published stays as it is while another message is written.
LEMMA WriteKeepsPublished ==
  ASSUME QueueInv, NEW p \in Producers, EnqueueWrite(p), NEW n \in Nat, sequence[Cell(n)] = n + 1
  PROVE  data'[Cell(n)] = data[Cell(n)]
  <1>1. sequence[Cell(pos[p])] = pos[p] /\ pos[p] \in Nat
    BY DEF EnqueueWrite, Holding, QueueInv, TypeOK, ProducerInv, ProducerOK
  <1>2. Cell(n) # Cell(pos[p])
    <2>1. SUFFICES ASSUME Cell(n) = Cell(pos[p]) PROVE FALSE
      OBVIOUS
    <2>2. pos[p] = n + 1
      BY <1>1, <2>1
    <2> QED
      BY <1>1, <2>1, <2>2, CellsDiffer, QueueAssumption
  <1> QED
    BY <1>2, CellInRange DEF EnqueueWrite, QueueInv, TypeOK

LEMMA EnqueueCallMaps ==
  ASSUME QueueInv, QueueInv', NEW p \in Producers, NEW m \in Messages, EnqueueCall(p, m)
  PROVE  Fifo!EnqueueCall(p, m)
  <1>0. at \in [Producers -> {"idle", "load", "look", "cas", "write", "publish"}]
    BY DEF QueueInv, TypeOK
  <1>1. \A q \in Producers : Holding(q) => Holding(q)' /\ pos'[q] = pos[q] /\ item'[q] = item[q]
    BY <1>0 DEF EnqueueCall, Holding, QueueInv, TypeOK
  <1>2. Waiting' = Waiting
    BY <1>1, WaitingKept DEF EnqueueCall
  <1>3. CallOf(p) = "idle" /\ CallOf(p)' = "called" /\ \A q \in Producers \ {p} : at'[q] = at[q]
    BY <1>0 DEF EnqueueCall, CallOf, Holding
  <1>4. UNCHANGED <<ret, Taking, Taken, got>> /\ item' = [item EXCEPT ![p] = m]
    BY DEF EnqueueCall, consumerVars, Taking, Taken, ReadingCell
  <1>5. Calls[p] = "idle" /\ Calls' = [Calls EXCEPT ![p] = "called"]
    BY <1>3, CallsUpdate DEF Calls
  <1> QED
    BY <1>2, <1>4, <1>5 DEF Fifo!EnqueueCall

\* Loads, lost exchanges and the writing of the message do not show.
LEMMA EnqueueStutters ==
  ASSUME QueueInv, QueueInv', NEW p \in Producers,
         \/ EnqueueLoad(p) \/ EnqueueLose(p) \/ EnqueueWrite(p)
         \/ EnqueueLook(p) /\ sequence[Cell(pos[p])] >= pos[p]
  PROVE  UNCHANGED Fifo!fifoVars
  <1>0. /\ at \in [Producers -> {"idle", "load", "look", "cas", "write", "publish"}]
        /\ sequence[Cell(pos[p])] \in Nat /\ pos[p] \in Nat
    BY CellInRange DEF QueueInv, TypeOK
  <1>1. UNCHANGED <<enqueue_pos, dequeue_pos, sequence, item, ret, reading, cpos, out, got>>
    BY <1>0 DEF EnqueueLoad, EnqueueLose, EnqueueWrite, EnqueueLook, consumerVars
  <1>2. \A n \in Nat : sequence[Cell(n)] = n + 1 => data'[Cell(n)] = data[Cell(n)]
    <2>1. CASE EnqueueWrite(p)
      BY <2>1, WriteKeepsPublished
    <2>2. CASE ~EnqueueWrite(p)
      BY <2>2 DEF EnqueueLoad, EnqueueLose, EnqueueLook
    <2> QED
      BY <2>1, <2>2
  <1>3. \A q \in Producers : Holding(q) => Holding(q)' /\ pos'[q] = pos[q] /\ item'[q] = item[q]
    BY <1>0 DEF EnqueueLoad, EnqueueLose, EnqueueWrite, EnqueueLook, Holding, QueueInv, TypeOK
  <1>4. Waiting' = Waiting
    <2>1. \A n \in dequeue_pos .. enqueue_pos - 1 : n \in Nat
      BY DEF QueueInv, TypeOK
    <2> QED
      BY <1>1, <1>2, <1>3, <2>1, WaitingKept
  <1>5. \A q \in Producers \ {p} : at'[q] = at[q]
    BY <1>0 DEF EnqueueLoad, EnqueueLose, EnqueueWrite, EnqueueLook
  <1>6. CallOf(p)' = CallOf(p)
    BY <1>0 DEF EnqueueLoad, EnqueueLose, EnqueueWrite, EnqueueLook, CallOf, Holding
  <1>7. Calls' = Calls
    BY <1>5, <1>6, CallsUpdate DEF Calls
  <1>8. Taking' = Taking
    BY <1>1 DEF Taking, ReadingCell
  <1>9. Taken' = Taken
    <2>1. reading = "read" => cpos \in Nat /\ sequence[Cell(cpos)] = cpos + 1
      BY DEF QueueInv, TypeOK, ConsumerInv
    <2> QED
      BY <1>1, <1>2, <2>1 DEF Taken
  <1> QED
    BY <1>1, <1>4, <1>7, <1>8, <1>9 DEF Fifo!fifoVars

\* A refused call found every cell waiting or being read.
LEMMA LookRefuses ==
  ASSUME QueueInv, QueueInv', NEW p \in Producers, EnqueueLook(p), sequence[Cell(pos[p])] < pos[p]
  PROVE  Fifo!Refuse(p)
  <1>0. /\ at \in [Producers -> {"idle", "load", "look", "cas", "write", "publish"}]
        /\ sequence[Cell(pos[p])] \in Nat /\ pos[p] \in Nat /\ ret \in [Producers -> BOOLEAN]
        /\ enqueue_pos \in Nat /\ dequeue_pos \in Nat /\ cpos \in Nat
    BY CellInRange DEF QueueInv, TypeOK
  <1>1. pos[p] = enqueue_pos
    BY <1>0 DEF QueueInv, ProducerInv, ProducerOK
  <1>2. enqueue_pos = Oldest + Size
    <2>1. CASE enqueue_pos < Oldest + Size
      <3>1. enqueue_pos \in Oldest .. Oldest + Size - 1
        BY <1>0, <2>1, QueueAssumption DEF QueueInv, PositionsInv, Oldest
      <3>2. sequence[Cell(enqueue_pos)] = enqueue_pos
        BY <1>0, <3>1 DEF QueueInv, SequenceInv, SequenceOK
      <3> QED
        BY <1>0, <1>1, <3>2
    <2> QED
      BY <1>0, <2>1, QueueAssumption DEF QueueInv, PositionsInv, Oldest
  <1>3. Fifo!Used = Size
    <2>1. Len(Waiting) = enqueue_pos - dequeue_pos
      BY WaitingSeq
    <2>2. (Taking = "taken") <=> ReadingCell
      BY DEF Taking, ReadingCell
    <2> QED
      BY <1>0, <1>2, <2>1, <2>2, QueueAssumption DEF Fifo!Used, QueueInv, PositionsInv, Oldest
  <1>4. UNCHANGED <<sequence, data, enqueue_pos, dequeue_pos, pos, item, reading, cpos, out, got>>
    BY DEF EnqueueLook, consumerVars
  <1>5. at' = [at EXCEPT ![p] = "idle"] /\ ret' = [ret EXCEPT ![p] = FALSE] /\ at[p] = "look"
    <2>1. sequence[Cell(pos[p])] # pos[p]
      BY <1>0
    <2> QED
      BY <2>1, Zenon DEF EnqueueLook
  <1>6. Waiting' = Waiting
    <2>1. \A q \in Producers : Holding(q) => Holding(q)' /\ pos'[q] = pos[q] /\ item'[q] = item[q]
      BY <1>0, <1>4, <1>5 DEF Holding
    <2> QED
      BY <1>4, <2>1, WaitingKept
  <1>7. CallOf(p) = "called" /\ CallOf(p)' = "idle" /\ \A q \in Producers \ {p} : at'[q] = at[q]
    BY <1>0, <1>5 DEF CallOf, Holding
  <1>8. Calls[p] = "called" /\ Calls' = [Calls EXCEPT ![p] = "idle"]
    BY <1>7, CallsUpdate DEF Calls
  <1>9. Taking' = Taking /\ Taken' = Taken
    BY <1>4 DEF Taking, Taken, ReadingCell
  <1> QED
    BY <1>3, <1>4, <1>5, <1>6, <1>8, <1>9 DEF Fifo!Refuse

LEMMA WinPuts ==
  ASSUME QueueInv, QueueInv', NEW p \in Producers, EnqueueWin(p)
  PROVE  Fifo!Put(p)
  <1>0. /\ at \in [Producers -> {"idle", "load", "look", "cas", "write", "publish"}]
        /\ enqueue_pos \in Nat /\ dequeue_pos \in Nat /\ cpos \in Nat
    BY DEF QueueInv, TypeOK
  <1>1. Fifo!Used < Size
    <2>1. enqueue_pos + 1 <= Oldest + Size
      <3>1. (Oldest' = Oldest) /\ (enqueue_pos' = enqueue_pos + 1)
        BY DEF EnqueueWin, consumerVars, Oldest, ReadingCell, QueueInv, TypeOK
      <3> QED
        BY <3>1 DEF QueueInv, PositionsInv
    <2>2. Len(Waiting) = enqueue_pos - dequeue_pos
      BY WaitingSeq
    <2>3. (Taking = "taken") <=> ReadingCell
      BY DEF Taking, ReadingCell
    <2> QED
      BY <1>0, <2>1, <2>2, <2>3, QueueAssumption DEF Fifo!Used, QueueInv, PositionsInv, Oldest
  <1>2. CallOf(p) = "called" /\ CallOf(p)' = "put" /\ \A q \in Producers \ {p} : at'[q] = at[q]
    BY <1>0 DEF EnqueueWin, CallOf, Holding
  <1>3. Calls[p] = "called" /\ Calls' = [Calls EXCEPT ![p] = "put"]
    BY <1>2, CallsUpdate DEF Calls
  <1>4. UNCHANGED <<item, ret, Taking, Taken, got>>
    BY DEF EnqueueWin, consumerVars, Taking, Taken, ReadingCell
  <1> QED
    BY <1>1, <1>3, <1>4, WinAppends DEF Fifo!Put

LEMMA PublishMaps ==
  ASSUME QueueInv, QueueInv', NEW p \in Producers, EnqueuePublish(p)
  PROVE  Fifo!Ready(p)
  <1>0. at \in [Producers -> {"idle", "load", "look", "cas", "write", "publish"}]
    BY DEF QueueInv, TypeOK
  <1>1. CallOf(p) = "put" /\ CallOf(p)' = "idle" /\ \A q \in Producers \ {p} : at'[q] = at[q]
    BY <1>0 DEF EnqueuePublish, CallOf, Holding
  <1>2. Calls[p] = "put" /\ Calls' = [Calls EXCEPT ![p] = "idle"]
    BY <1>1, CallsUpdate DEF Calls
  <1>3. UNCHANGED <<item, Taking, Taken, got>> /\ ret' = [ret EXCEPT ![p] = TRUE]
    BY DEF EnqueuePublish, consumerVars, Taking, Taken, ReadingCell
  <1> QED
    BY <1>2, <1>3, PublishReadies DEF Fifo!Ready

\* A dequeue that finds nothing found no message, or one not yet published.
LEMMA LookEmpty ==
  ASSUME QueueInv, QueueInv', DequeueLook, sequence[Cell(cpos)] < cpos + 1
  PROVE  Fifo!Empty
  <1>0. /\ cpos = dequeue_pos /\ cpos \in Nat /\ enqueue_pos \in Nat /\ sequence[Cell(cpos)] \in Nat
        /\ reading = "look"
    BY CellInRange DEF DequeueLook, QueueInv, TypeOK, PositionsInv
  <1>1. ~Fifo!HeadReady
    <2>1. SUFFICES ASSUME Waiting # <<>>, Head(Waiting).by = NoOne PROVE FALSE
      BY DEF Fifo!HeadReady
    <2>2. Waiting \in Seq(Fifo!Entries) /\ Len(Waiting) = enqueue_pos - dequeue_pos
      BY WaitingSeq
    <2>3. enqueue_pos - dequeue_pos >= 1
      BY <1>0, <2>1, <2>2
    <2>4. Head(Waiting) = EntryAt(dequeue_pos)
      BY <1>0, <2>1, <2>2, <2>3 DEF Waiting
    <2>5. dequeue_pos \in dequeue_pos .. enqueue_pos - 1
      BY <1>0, <2>3
    <2>6. \E q \in Producers : EntryAt(dequeue_pos) = [msg |-> item[q], by |-> q]
      BY <1>0, <2>5, EntryCases
    <2> QED
      BY <2>1, <2>4, <2>6, QueueAssumption
  <1>2. UNCHANGED <<sequence, data, enqueue_pos, dequeue_pos, at, pos, item, ret, cpos, out>>
    BY DEF DequeueLook, producerVars
  <1>3. reading' = "idle" /\ got' = FALSE
    BY DEF DequeueLook
  <1>4. Waiting' = Waiting /\ Calls' = Calls
    BY <1>2 DEF Waiting, EntryAt, Writer, Holding, Calls, CallOf
  <1>5. Taking = "called" /\ Taking' = "idle" /\ Taken' = Taken
    BY <1>0, <1>2, <1>3 DEF Taking, Taken, ReadingCell
  <1> QED
    BY <1>1, <1>2, <1>3, <1>4, <1>5 DEF Fifo!Empty

LEMMA WinTakesHead ==
  ASSUME QueueInv, QueueInv', DequeueWin
  PROVE  Fifo!Take
  <1>1. Taking = "called" /\ Taking' = "taken" /\ Taken' = data[Cell(cpos)]
    BY DEF DequeueWin, Taking, Taken, ReadingCell
  <1>2. UNCHANGED <<item, ret, got>> /\ Calls' = Calls
    BY DEF DequeueWin, producerVars, Calls, CallOf, Holding
  <1> QED
    BY <1>1, <1>2, WinTakes DEF Fifo!Take, Fifo!HeadReady

LEMMA ReleaseMaps ==
  ASSUME QueueInv, QueueInv', DequeueRelease
  PROVE  Fifo!Release
  <1>1. UNCHANGED <<data, enqueue_pos, dequeue_pos, at, pos, item, ret, cpos, out>>
    BY DEF DequeueRelease, producerVars
  <1>2. \A n \in dequeue_pos .. enqueue_pos - 1 : sequence'[Cell(n)] = sequence[Cell(n)]
    <2>1. /\ cpos \in Nat /\ dequeue_pos = cpos + 1 /\ enqueue_pos \in Nat /\ enqueue_pos <= cpos + Size
      BY DEF DequeueRelease, QueueInv, TypeOK, PositionsInv, Oldest, ReadingCell
    <2>2. \A n \in dequeue_pos .. enqueue_pos - 1 : n \in Nat /\ cpos < n /\ n < cpos + Size
      BY <2>1, QueueAssumption
    <2>3. \A n \in dequeue_pos .. enqueue_pos - 1 : Cell(n) # Cell(cpos) /\ Cell(n) \in Cells
      BY <2>1, <2>2, CellsDiffer, CellInRange
    <2> QED
      BY <2>3 DEF DequeueRelease, QueueInv, TypeOK
  <1>3. \A q \in Producers : Holding(q) => Holding(q)' /\ pos'[q] = pos[q] /\ item'[q] = item[q]
    BY <1>1 DEF Holding
  <1>4. Waiting' = Waiting
    BY <1>1, <1>2, <1>3, WaitingKept
  <1>5. Taking = "taken" /\ Taking' = "idle" /\ Taken' = Taken
    BY DEF DequeueRelease, Taking, Taken, ReadingCell
  <1>6. UNCHANGED <<item, ret>> /\ Calls' = Calls /\ got' = TRUE
    BY <1>1 DEF Calls, CallOf, Holding, DequeueRelease
  <1> QED
    BY <1>4, <1>5, <1>6 DEF Fifo!Release

LEMMA LoadCalls ==
  ASSUME DequeueLoad
  PROVE  Fifo!DequeueCall
  <1>1. UNCHANGED <<sequence, data, enqueue_pos, dequeue_pos, at, pos, item, ret, out, got>>
    BY DEF DequeueLoad, producerVars
  <1>2. Waiting' = Waiting /\ Calls' = Calls
    BY <1>1 DEF Waiting, EntryAt, Writer, Holding, Calls, CallOf
  <1>3. Taking = "idle" /\ Taking' = "called" /\ Taken' = Taken
    BY <1>1 DEF DequeueLoad, Taking, Taken, ReadingCell
  <1> QED
    BY <1>1, <1>2, <1>3 DEF Fifo!DequeueCall

LEMMA DequeueStutters ==
  ASSUME QueueInv, \/ DequeueLose \/ DequeueRead
                   \/ DequeueLook /\ sequence[Cell(cpos)] >= cpos + 1
  PROVE  UNCHANGED Fifo!fifoVars
  <1>0. sequence[Cell(cpos)] \in Nat /\ cpos \in Nat
    BY CellInRange DEF QueueInv, TypeOK
  <1>1. UNCHANGED <<sequence, data, enqueue_pos, dequeue_pos, at, pos, item, ret, cpos>>
    BY DEF DequeueLose, DequeueRead, DequeueLook, producerVars
  <1>2. Waiting' = Waiting /\ Calls' = Calls
    BY <1>1 DEF Waiting, EntryAt, Writer, Holding, Calls, CallOf
  <1>3. DequeueLook => ~(sequence[Cell(cpos)] < cpos + 1)
    BY <1>0 DEF DequeueLook, DequeueLose, DequeueRead
  <1>4. got' = got
    BY <1>3, Zenon DEF DequeueLose, DequeueRead, DequeueLook
  <1>5. Taking' = Taking /\ Taken' = Taken
    BY <1>3 DEF DequeueLose, DequeueRead, DequeueLook, Taking, Taken, ReadingCell
  <1> QED
    BY <1>1, <1>2, <1>4, <1>5 DEF Fifo!fifoVars

\* The queue of cells and sequence numbers implements the bounded queue, for
\* any number of producers, messages and cells: the order of the messages is
\* the order of the positions won, none is lost, repeated or half written, and
\* enqueue and dequeue return false only when the queue is full or its head is
\* missing (mpmc_bounded_q.h:82-133).
THEOREM Implements == Spec => ImplementsFifo
  <1>1. Init => Fifo!FifoInit
    <2> SUFFICES ASSUME Init PROVE Fifo!FifoInit
      OBVIOUS
    <2>1. Waiting = <<>>
      BY DEF Init, Waiting
    <2>0. at = [p \in Producers |-> "idle"] /\ reading = "idle" /\ out = NoMessage
      BY Zenon DEF Init
    <2>2. Calls = [p \in Producers |-> "idle"]
      BY <2>0 DEF Calls, CallOf, Holding
    <2>3. Taking = "idle" /\ Taken = NoMessage
      BY <2>0 DEF Taking, Taken, ReadingCell
    <2> QED
      BY <2>1, <2>2, <2>3 DEF Init, Fifo!FifoInit
  <1>2. QueueInv /\ QueueInv' /\ [Next]_vars => [Fifo!FifoNext]_Fifo!fifoVars
    <2> SUFFICES ASSUME QueueInv, QueueInv', [Next]_vars PROVE [Fifo!FifoNext]_Fifo!fifoVars
      OBVIOUS
    <2>1. ASSUME NEW p \in Producers, Enqueue(p) PROVE [Fifo!FifoNext]_Fifo!fifoVars
      <3>0. sequence[Cell(pos[p])] \in Nat /\ pos[p] \in Nat
        BY CellInRange DEF QueueInv, TypeOK
      <3>1. CASE \E m \in Messages : EnqueueCall(p, m)
        BY <3>1, EnqueueCallMaps DEF Fifo!FifoNext
      <3>2. CASE EnqueueLook(p) /\ sequence[Cell(pos[p])] < pos[p]
        BY <3>2, LookRefuses DEF Fifo!FifoNext
      <3>3. CASE EnqueueWin(p)
        BY <3>3, WinPuts DEF Fifo!FifoNext
      <3>4. CASE EnqueuePublish(p)
        BY <3>4, PublishMaps DEF Fifo!FifoNext
      <3>5. CASE \/ EnqueueLoad(p) \/ EnqueueLose(p) \/ EnqueueWrite(p)
                 \/ EnqueueLook(p) /\ sequence[Cell(pos[p])] >= pos[p]
        BY <3>5, EnqueueStutters
      <3> QED
        BY <2>1, <3>0, <3>1, <3>2, <3>3, <3>4, <3>5 DEF Enqueue
    <2>2. CASE Dequeue
      <3>0. sequence[Cell(cpos)] \in Nat /\ cpos \in Nat
        BY CellInRange DEF QueueInv, TypeOK
      <3>1. CASE DequeueLoad
        BY <3>1, LoadCalls DEF Fifo!FifoNext
      <3>2. CASE DequeueLook /\ sequence[Cell(cpos)] < cpos + 1
        BY <3>2, LookEmpty DEF Fifo!FifoNext
      <3>3. CASE DequeueWin
        BY <3>3, WinTakesHead DEF Fifo!FifoNext
      <3>4. CASE DequeueRelease
        BY <3>4, ReleaseMaps DEF Fifo!FifoNext
      <3>5. CASE \/ DequeueLose \/ DequeueRead
                 \/ DequeueLook /\ sequence[Cell(cpos)] >= cpos + 1
        BY <3>5, DequeueStutters
      <3> QED
        BY <2>2, <3>0, <3>1, <3>2, <3>3, <3>4, <3>5 DEF Dequeue
    <2>3. CASE UNCHANGED vars
      BY <2>3 DEF vars, producerVars, consumerVars, Fifo!fifoVars, Waiting, EntryAt, Writer,
         Holding, Calls, CallOf, Taking, Taken, ReadingCell
    <2> QED
      BY <2>1, <2>2, <2>3 DEF Next
  <1> QED
    BY <1>1, <1>2, QueueInvariant, PTL DEF Spec, ImplementsFifo, Fifo!FifoSpec

====
