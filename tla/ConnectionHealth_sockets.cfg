\* Two connections that come, fail and go; the aggregates outlive them and stop
\* at two. A heartbeat every tick and staleness at three, the ratio of 15s to 45s;
\* one peer answers its pings, the other need not.
CONSTANTS
  Socket = {s1, s2}
  Hello = {}
  LocalId = {x0}
  Sendable <- ActorFrames
  COUNTER_MAX = 2
  CommandFailures = {"unsupportedCommands"}
  HeartbeatInterval = 1
  StaleAfter = 3
  Responsive = {s1}
  NoHello = NoHello
SPECIFICATION Spec
INVARIANTS
  AggregatesCover
  ResponsiveStaysFresh
