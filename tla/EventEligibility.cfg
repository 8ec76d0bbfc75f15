\* Machines of one state with many handlers, and of six states in three levels.
CONSTANTS
  Node = {0, 1, 2, 3, 4, 5, 6}
  Parent <- Tree
  Machine <- Machines
  Event <- Events
  DEPTH_LIMIT = 2
  VISIT_LIMIT = 4
  NoDefinition = NoDefinition
  NoSnapshot = NoSnapshot
  NoValue = NoValue
  NoAnswer = NoAnswer
  Absent = Absent
  Malformed = Malformed
SPECIFICATION Spec
INVARIANTS
  DefiniteIsRight
  UnknownIsJustified
