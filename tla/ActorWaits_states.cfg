\* Two calls compete for one slot; snapshots move back and forth.
CONSTANTS
  Wait = {w1, w2}
  SessionId = {a}
  EventType = {run}
  Snapshot = {s1, s2}
  Predicate <- EachAndAny
  BufferSize = 1
  MaxWaiters = 1
  MaxGenerations = 2
  MaxVersions = 2
  MaxEvents = 0
  NoActor = NoActor
  NoSnapshot = NoSnapshot
  NoCursor = NoCursor
  NoRequest = NoRequest
SPECIFICATION SafeSpec
SYMMETRY Symmetry
INVARIANTS
  PendingWaits
PROPERTIES
  SettledOnce
  NewerSnapshotOnly
