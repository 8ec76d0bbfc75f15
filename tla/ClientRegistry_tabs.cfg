\* Two overlapping tabs (or a tab and its reconnect), one actor each.
CONSTANTS
  Socket = {s1, s2}
  ConnId = {c1, c2}
  LocalId = {x0}
  Command = {r1, r2}
  Event = {run, drop}
  Writable = {run}
  Hello = {writer, reader}
  SendCapable = {writer}
  EmbedderApi = {"removeActor"}
  MaxSessions = 3
  NoConn = NoConn
  NoSession = NoSession
  NoSocket = NoSocket
  NoHello = NoHello
SPECIFICATION SafeSpec
SYMMETRY Symmetry
INVARIANTS
  Ownership
  CommandsBound
  ClosedIsEmpty
PROPERTIES
  SettledOnce
  DisconnectIsLocal
  HandshakeLocked
