\* A socket and the one that replaces it, more events than the page can keep; no
\* symmetry, as liveness is checked.
CONSTANTS
  Socket = {s1, s2}
  NoSocket = NoSocket
  workspace = workspace
  document = document
  Actor <- Spawned
  RecentLimit = 2
  MaxEvents = 3
  MaxInbox = 1
SPECIFICATION Spec
INVARIANTS
  ConnectionKept
  UpdatesUnderstood
  EventsKept
PROPERTIES
  Reconnects
