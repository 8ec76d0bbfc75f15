\* Two connections against every order of start, close and their late answers,
\* of an embedder's bridge and of the command line's; no symmetry, as liveness
\* is checked.
CONSTANTS
  Conn = {c1, c2}
SPECIFICATION ProcessSpec
INVARIANTS
  StateIsTrue
  ClosedReleasesAll
  ExitStatus
PROPERTIES
  NoRestart
  ShutdownEnds
  ProcessEnds
