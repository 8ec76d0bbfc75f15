\* Event waits over a ring of two entries that four events overflow twice; no
\* symmetry, as liveness is checked.
CONSTANTS
  Wait = {w1}
  SessionId = {a}
  EventType = {run, stop}
  Snapshot = {}
  Predicate = {}
  BufferSize = 2
  MaxWaiters = 1
  MaxGenerations = 2
  MaxVersions = 0
  MaxEvents = 4
  NoActor = NoActor
  NoSnapshot = NoSnapshot
  NoCursor = NoCursor
  NoRequest = NoRequest
SPECIFICATION Spec
INVARIANTS
  PendingWaits
  CursorsStayUsable
PROPERTIES
  FirstMatch
  PendingLosesNoHistory
  WaitsEnd
