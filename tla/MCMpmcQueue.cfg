\* Two producers and the worker on two cells, until every cell has been
\* used three times.
SPECIFICATION Spec
CONSTANTS
  Producers = {a, b}
  Messages = {m1, m2}
  Size = 2
  NoOne = NoOne
  NoMessage = NoMessage
  MaxPos = 6
INVARIANTS QueueInv CellsExclusive
PROPERTY ImplementsFifo
SYMMETRY Symmetry
