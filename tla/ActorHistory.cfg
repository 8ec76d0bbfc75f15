\* A timeline of two entries that is overwritten; every partial snapshot.
CONSTANTS
  Item <- Transitions
  capacity = 2
  MaxAdded = 4
  Hole = Hole
  Snapshot <- Snapshots
  Null = Null
SPECIFICATION HistorySpec
INVARIANTS
  EvictedCounts
  TimelineChains
  ClientIsTold
PROPERTIES
  ImplementsHistory
