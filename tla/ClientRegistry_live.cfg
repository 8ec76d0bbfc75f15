\* Fairness of timers and close events, a host that clears the registry alone;
\* no symmetry, as liveness is checked.
CONSTANTS
  Socket = {s1, s2}
  ConnId = {c1, c2}
  LocalId = {x0}
  Command = {r1, r2}
  Event = {run}
  Writable = {run}
  Hello = {writer}
  SendCapable = {writer}
  EmbedderApi = {"registryClear"}
  MaxSessions = 2
  NoConn = NoConn
  NoSession = NoSession
  NoSocket = NoSocket
  NoHello = NoHello
SPECIFICATION Spec
PROPERTIES
  ImplementsContract
