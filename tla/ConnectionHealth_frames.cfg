\* One connection after another, every frame; counters saturate at three.
CONSTANTS
  Socket = {s1}
  Hello = {h1, h2}
  LocalId = {x0}
  Sendable <- EveryFrame
  COUNTER_MAX = 3
  CommandFailures = {}
  HeartbeatInterval = 1
  StaleAfter = 0
  Responsive = {}
  NoHello = NoHello
SPECIFICATION Spec
SYMMETRY Symmetry
INVARIANTS
  FramesAccounted
PROPERTIES
  RefusedCannotInspect
