CONSTANTS
  Depth = 3
  Pass = TRUE
  Data = {d1, d2}
  NoItem = NoItem
SPECIFICATION FifoSpec
INVARIANT PointersInOrder
PROPERTY ImplementsQueue
