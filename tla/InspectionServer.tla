--------------------------- MODULE InspectionServer ---------------------------
(***************************************************************************)
(* Lifecycle of a bridge (src/src/inspection-server.ts): start(), close(),  *)
(* shutdown() and what they drive: the HTTP listener, the WebSocket server  *)
(* and its sockets, the MCP server over a transport the host supplies, the  *)
(* registry, the store, and the two shutdown timers.                        *)
(*                                                                         *)
(* What runs between two awaits is one action. Node's listener, the ws      *)
(* library, the MCP SDK and the transport are external: they answer in any  *)
(* order, late or never, and a transport may reject. The store is the set   *)
(* of connections whose actors it retains.                                  *)
(***************************************************************************)
EXTENDS Naturals, FiniteSets

CONSTANTS Conn    \* connections a peer may open

VARIABLES
  state,        \* "idle" | "starting" | "running" | "closing" | "closed"
  startup,      \* where the start() call stands
  aborted,      \* lifetime.signal.aborted
  http,         \* the HTTP listener
  wss,          \* the WebSocket server
  listener,     \* health.listener.state
  conn,         \* what has become of each connection
  disposed,     \* the MCP server's waits and store callbacks are disposed
  attached,     \* mcpServer.server.transport === transport
  handlers,     \* transport.onclose, onerror and onmessage are set
  released,     \* the transport has been told to close, or says it has closed
  connecting,   \* transport.start() has not answered
  mcpClose,     \* the MCP server's single close operation
  spareClose,   \* unusedTransportClosed
  regClosed,    \* clientRegistry.isClosed
  retained,     \* connections whose actors the store retains
  graceTimer, deadlineTimer,
  promise       \* what close() returns, also "closed"

netVars == <<http, wss, listener, conn>>
mcpVars == <<disposed, attached, handlers, released, connecting, mcpClose,
             spareClose>>
endVars == <<graceTimer, deadlineTimer, promise>>
vars == <<state, startup, aborted, netVars, mcpVars, regClosed, retained,
          endVars>>

Results == {"resolved", "rejected"}

TypeOK ==
  /\ state \in {"idle", "starting", "running", "closing", "closed"}
  /\ startup \in {"none", "listening", "bound", "connecting", "connected",
                  "broken", "failing", "ok", "failed"}
  /\ aborted \in BOOLEAN
  /\ http \in {"none", "binding", "failed", "listening", "stopped", "done"}
  /\ wss \in {"none", "open", "stopped", "done"}
  /\ listener \in {"not_started", "starting", "listening", "error", "closed"}
  /\ conn \in [Conn -> {"none", "raw", "ws", "handshake", "destroyed",
                        "terminated", "gone"}]
  /\ disposed \in BOOLEAN /\ attached \in BOOLEAN /\ handlers \in BOOLEAN
  /\ released \in BOOLEAN /\ connecting \in BOOLEAN
  /\ mcpClose \in {"none", "scheduled", "pending"} \cup Results
  /\ spareClose \in {"none", "pending"} \cup Results
  /\ regClosed \in BOOLEAN /\ retained \subseteq Conn
  /\ graceTimer \in BOOLEAN /\ deadlineTimer \in BOOLEAN
  /\ promise \in {"pending"} \cup Results

Init ==
  /\ state = "idle" /\ startup = "none" /\ aborted = FALSE
  /\ http = "none" /\ wss = "none" /\ listener = "not_started"
  /\ conn = [c \in Conn |-> "none"]
  /\ disposed = FALSE /\ attached = FALSE /\ handlers = FALSE
  /\ released = FALSE /\ connecting = FALSE
  /\ mcpClose = "none" /\ spareClose = "none"
  /\ regClosed = FALSE /\ retained = {}
  /\ graceTimer = FALSE /\ deadlineTimer = FALSE /\ promise = "pending"

-----------------------------------------------------------------------------
(* Shutting down *)

ShuttingDown == state \in {"closing", "closed"}

\* mcpServer.close(): its one operation starts in a later microtask.
ClosingMcp == IF mcpClose = "none" THEN "scheduled" ELSE mcpClose

\* The await of start() that lifetime.abort() rejects at once; the code after
\* an await that has been answered looks at the signal itself.
Cancelled == IF startup \in {"listening", "connecting"} THEN "broken" ELSE startup

\* http.close() and wss.close()
StopListening ==
  /\ http' = IF http \in {"binding", "failed", "listening"} THEN "stopped" ELSE http
  /\ wss' = IF wss = "open" THEN "stopped" ELSE wss

\* ws.close(1001) on every client
Farewell == [c \in Conn |-> IF conn[c] = "ws" THEN "handshake" ELSE conn[c]]

\* Variants of Shutdown: a transport the SDK does not hold is left alone; the
\* deadline is not armed.
ShutdownLeavingTransport(held) ==
  /\ state' = "closing" /\ aborted' = TRUE
  /\ StopListening /\ conn' = Farewell
  /\ disposed' = TRUE /\ mcpClose' = ClosingMcp
  /\ regClosed' = TRUE /\ retained' = {}
  /\ graceTimer' = TRUE /\ deadlineTimer' = TRUE
  /\ UNCHANGED <<spareClose, released>>
ShutdownUntimed(held) ==
  LET spare == ~held /\ startup # "none" IN
  /\ state' = "closing" /\ aborted' = TRUE
  /\ StopListening /\ conn' = Farewell
  /\ disposed' = TRUE /\ mcpClose' = ClosingMcp
  /\ spareClose' = IF spare THEN "pending" ELSE "none"
  /\ released' = (released \/ spare)
  /\ regClosed' = TRUE /\ retained' = {}
  /\ graceTimer' = TRUE /\ UNCHANGED deadlineTimer

\* shutdown() up to its await. "held": the SDK holds the transport; one that
\* start() was given and the SDK does not hold is closed directly.
Shutdown(held) ==
  LET spare == ~held /\ startup # "none" IN
  /\ state' = "closing" /\ aborted' = TRUE
  /\ StopListening /\ conn' = Farewell
  /\ disposed' = TRUE /\ mcpClose' = ClosingMcp
  /\ spareClose' = IF spare THEN "pending" ELSE "none"
  /\ released' = (released \/ spare)
  /\ regClosed' = TRUE /\ retained' = {}
  /\ graceTimer' = TRUE /\ deadlineTimer' = TRUE

\* Variant of Close: a call after the shutdown starts it over.
CloseAgain(held) ==
  IF state = "closing"
    THEN UNCHANGED <<state, aborted, http, wss, conn, disposed, mcpClose,
                     spareClose, released, regClosed, retained, graceTimer,
                     deadlineTimer>>
    ELSE Shutdown(held)

\* close(): only the first call shuts down.
Close(held) ==
  IF ShuttingDown
    THEN UNCHANGED <<state, aborted, http, wss, conn, disposed, mcpClose,
                     spareClose, released, regClosed, retained, graceTimer,
                     deadlineTimer>>
    ELSE Shutdown(held)

\* The host calls close().
HostCloses ==
  /\ startup' = Cancelled
  /\ Close(attached)
  /\ UNCHANGED <<listener, attached, handlers, connecting, promise>>

\* forceSockets()
ForcedSockets ==
  [c \in Conn |-> IF conn[c] = "raw" THEN "destroyed"
                  ELSE IF conn[c] \in {"ws", "handshake"} THEN "terminated"
                  ELSE conn[c]]

\* The grace timer.
GraceEnds ==
  /\ graceTimer
  /\ graceTimer' = FALSE
  /\ conn' = ForcedSockets
  /\ UNCHANGED <<state, startup, aborted, http, wss, listener, mcpVars,
                 regClosed, retained, deadlineTimer, promise>>

\* The finally block of shutdown(): sockets go, and a transport the SDK still
\* holds is taken from it by running its onclose. The microtask of the MCP
\* close was queued before anything that can end the shutdown.
Finish(result) ==
  /\ state = "closing" /\ mcpClose # "scheduled"
  /\ state' = "closed" /\ promise' = result
  /\ graceTimer' = FALSE /\ deadlineTimer' = FALSE
  /\ conn' = ForcedSockets
  /\ attached' = FALSE /\ handlers' = FALSE
  /\ UNCHANGED <<startup, aborted, http, wss, listener, disposed, released,
                 connecting, mcpClose, spareClose, regClosed, retained>>

\* Promise.all of the four operations...
AllClosed ==
  /\ http \in {"none", "done"} /\ wss \in {"none", "done"}
  /\ mcpClose = "resolved" /\ spareClose \in {"none", "resolved"}
ShutdownCompletes == AllClosed /\ Finish("resolved")
ShutdownFails == "rejected" \in {mcpClose, spareClose} /\ Finish("rejected")

\* ... in a race with the deadline timer.
DeadlineFires == deadlineTimer /\ Finish("rejected")

\* The host closes the registry it was handed.
HostClosesRegistry ==
  /\ ~regClosed
  /\ regClosed' = TRUE
  /\ UNCHANGED <<state, startup, aborted, netVars, mcpVars, retained, endVars>>

-----------------------------------------------------------------------------
(* The MCP server and the transport *)

\* The host closes the MCP server it was handed.
HostClosesMcp ==
  /\ mcpClose = "none"
  /\ disposed' = TRUE /\ mcpClose' = ClosingMcp
  /\ UNCHANGED <<state, startup, aborted, netVars, attached, handlers, released,
                 connecting, spareClose, regClosed, retained, endVars>>

\* The microtask of mcpServer.close(): the SDK closes the transport it holds.
McpCloseRuns ==
  /\ mcpClose = "scheduled"
  /\ mcpClose' = IF attached THEN "pending" ELSE "resolved"
  /\ released' = (released \/ attached)
  /\ UNCHANGED <<state, startup, aborted, netVars, disposed, attached, handlers,
                 connecting, spareClose, regClosed, retained, endVars>>

\* transport.close() answers the SDK, or shutdown().
McpCloseAnswers(result) ==
  /\ mcpClose = "pending"
  /\ mcpClose' = result
  /\ UNCHANGED <<state, startup, aborted, netVars, disposed, attached, handlers,
                 released, connecting, spareClose, regClosed, retained, endVars>>
SpareCloseAnswers(result) ==
  /\ spareClose = "pending"
  /\ spareClose' = result
  /\ UNCHANGED <<state, startup, aborted, netVars, disposed, attached, handlers,
                 released, connecting, mcpClose, regClosed, retained, endVars>>

\* The transport reports onclose, because its peer left or it was told to
\* close: the SDK lets it go, then the bridge's onclose disposes and closes.
TransportCloses ==
  /\ attached
  /\ attached' = FALSE
  /\ startup' = Cancelled
  /\ IF ShuttingDown
       THEN /\ released' = TRUE
            /\ UNCHANGED <<state, aborted, http, wss, conn, disposed, mcpClose,
                           spareClose, regClosed, retained, graceTimer,
                           deadlineTimer>>
       ELSE Close(FALSE)
  /\ UNCHANGED <<listener, handlers, connecting, promise>>

-----------------------------------------------------------------------------
(* Starting *)

\* start() up to the await of the listener.
Start ==
  /\ state = "idle"
  /\ state' = "starting" /\ startup' = "listening"
  /\ http' = "binding" /\ wss' = "open" /\ listener' = "starting"
  /\ UNCHANGED <<aborted, conn, mcpVars, regClosed, retained, endVars>>

Listening ==
  /\ http = "binding"
  /\ http' = "listening" /\ listener' = "listening" /\ startup' = "bound"
  /\ UNCHANGED <<state, aborted, wss, conn, mcpVars, regClosed, retained, endVars>>

\* The port is taken.
BindFails ==
  /\ http = "binding"
  /\ http' = "failed" /\ listener' = "error" /\ startup' = "broken"
  /\ UNCHANGED <<state, aborted, wss, conn, mcpVars, regClosed, retained, endVars>>

\* After the listener: connect() throws when the MCP server is closed, and
\* otherwise gives the transport to the SDK before it starts it.
ConnectMcp ==
  /\ startup = "bound"
  /\ IF aborted \/ disposed
       THEN startup' = "broken" /\ UNCHANGED <<attached, handlers, connecting>>
       ELSE /\ startup' = "connecting"
            /\ attached' = TRUE /\ handlers' = TRUE /\ connecting' = TRUE
  /\ UNCHANGED <<state, aborted, netVars, disposed, released, mcpClose,
                 spareClose, regClosed, retained, endVars>>

\* transport.start() answers, perhaps after the await was cancelled.
TransportStarts(ok) ==
  /\ connecting
  /\ connecting' = FALSE
  /\ startup' = IF startup # "connecting" THEN startup
                ELSE IF ok THEN "connected" ELSE "broken"
  /\ UNCHANGED <<state, aborted, netVars, disposed, attached, handlers, released,
                 mcpClose, spareClose, regClosed, retained, endVars>>

\* After connect(): the bridge runs, unless it was closed in the meantime.
StartEnds ==
  /\ startup = "connected"
  /\ IF aborted THEN startup' = "broken" /\ UNCHANGED state
     ELSE startup' = "ok" /\ state' = "running"
  /\ UNCHANGED <<aborted, netVars, mcpVars, regClosed, retained, endVars>>

\* The catch block: close(), and start() rejects when the shutdown is over.
StartCloses ==
  /\ startup = "broken"
  /\ startup' = "failing"
  /\ Close(attached)
  /\ UNCHANGED <<listener, attached, handlers, connecting, promise>>
StartRejects ==
  /\ startup = "failing" /\ promise # "pending"
  /\ startup' = "failed"
  /\ UNCHANGED <<state, aborted, netVars, mcpVars, regClosed, retained, endVars>>

-----------------------------------------------------------------------------
(* Connections *)

ConnStep(c, next) ==
  /\ conn' = [conn EXCEPT ![c] = next]
  /\ UNCHANGED <<state, startup, aborted, http, wss, listener, mcpVars,
                 regClosed, endVars>>

\* The listener's connection event. One accepted as the listener stops may
\* still be announced, and is destroyed.
PeerConnects(c) ==
  /\ conn[c] = "none"
  /\ http \in {"listening", "stopped"}
  /\ ConnStep(c, IF aborted THEN "destroyed" ELSE "raw")
  /\ UNCHANGED retained

\* The WebSocket upgrade.
Upgrade(c) ==
  /\ conn[c] = "raw" /\ wss = "open"
  /\ ConnStep(c, IF aborted \/ regClosed THEN "terminated" ELSE "ws")
  /\ UNCHANGED retained

\* Variant of Frame: frames are taken until the socket is closed.
FrameAlways(c) ==
  /\ conn[c] \in {"ws", "handshake"}
  /\ retained' = retained \cup {c}
  /\ UNCHANGED <<state, startup, aborted, netVars, mcpVars, regClosed, endVars>>

\* An inspection frame that registers an actor; the peer may still send some
\* during the close handshake.
Frame(c) ==
  /\ conn[c] \in {"ws", "handshake"}
  /\ ~aborted /\ ~regClosed
  /\ retained' = retained \cup {c}
  /\ UNCHANGED <<state, startup, aborted, netVars, mcpVars, regClosed, endVars>>

\* A closed registry no longer knows whose actors to remove.
Gone(c) ==
  /\ ConnStep(c, "gone")
  /\ retained' = IF regClosed THEN retained ELSE retained \ {c}

\* The peer closes, or completes the handshake.
PeerCloses(c) == conn[c] \in {"raw", "ws", "handshake"} /\ Gone(c)

\* The close event of a socket the bridge has destroyed.
SocketCloses(c) == conn[c] \in {"destroyed", "terminated"} /\ Gone(c)

ListenerClosed == IF listener = "error" THEN "error" ELSE "closed"

\* The close events of the two servers, when their last connection is gone.
HttpDrained ==
  /\ http = "stopped" /\ \A c \in Conn : conn[c] \in {"none", "gone"}
  /\ http' = "done" /\ listener' = ListenerClosed
  /\ UNCHANGED <<state, startup, aborted, wss, conn, mcpVars, regClosed,
                 retained, endVars>>
WsDrained ==
  /\ wss = "stopped"
  /\ \A c \in Conn : conn[c] \notin {"ws", "handshake", "terminated"}
  /\ wss' = "done" /\ listener' = ListenerClosed
  /\ UNCHANGED <<state, startup, aborted, http, conn, mcpVars, regClosed,
                 retained, endVars>>

-----------------------------------------------------------------------------

ConnNext(c) ==
  PeerConnects(c) \/ Upgrade(c) \/ Frame(c) \/ PeerCloses(c) \/ SocketCloses(c)

\* What the host calls, and what follows without it.
HostNext == Start \/ HostCloses \/ HostClosesRegistry \/ HostClosesMcp

BridgeNext ==
  \/ Listening \/ BindFails \/ ConnectMcp \/ StartEnds \/ StartCloses
  \/ StartRejects
  \/ McpCloseRuns \/ TransportCloses
  \/ \E ok \in BOOLEAN : TransportStarts(ok)
  \/ \E result \in Results : McpCloseAnswers(result) \/ SpareCloseAnswers(result)
  \/ GraceEnds \/ ShutdownCompletes \/ ShutdownFails \/ DeadlineFires
  \/ \E c \in Conn : ConnNext(c)
  \/ HttpDrained \/ WsDrained

Next == HostNext \/ BridgeNext

SafeSpec == Init /\ [][Next]_vars

\* The event loop runs microtasks, expired timers and the close events of what
\* was destroyed. Nothing is assumed of peers, transports or the host.
Fairness ==
  /\ WF_vars(ConnectMcp) /\ WF_vars(StartEnds) /\ WF_vars(StartCloses)
  /\ WF_vars(StartRejects) /\ WF_vars(McpCloseRuns)
  /\ WF_vars(GraceEnds) /\ WF_vars(DeadlineFires)
  /\ WF_vars(ShutdownCompletes) /\ WF_vars(ShutdownFails)
  /\ WF_vars(HttpDrained) /\ WF_vars(WsDrained)
  /\ \A c \in Conn : WF_vars(SocketCloses(c))

Spec == SafeSpec /\ Fairness

-----------------------------------------------------------------------------
(* Safety *)

\* From the first moment of a shutdown nothing works any more: no listening, no
\* await of start() left open, no store callbacks, no commands, no actors, and
\* no later frame brings one back.
ClosingStopsWork ==
  ShuttingDown =>
    /\ aborted /\ disposed /\ regClosed /\ retained = {}
    /\ mcpClose # "none"
    /\ http \notin {"binding", "failed", "listening"} /\ wss # "open"
    /\ startup \notin {"listening", "connecting"}

\* The timers run during a shutdown only. Once closed, however the shutdown
\* ended, the bridge holds no transport and no usable socket.
NothingHeld ==
  /\ deadlineTimer <=> state = "closing"
  /\ graceTimer => state = "closing"
  /\ state = "closed" =>
       /\ ~attached /\ ~handlers
       /\ \A c \in Conn : conn[c] \notin {"raw", "ws", "handshake"}

\* A transport given to start() is closed by the end of the shutdown, also when
\* the MCP server never took it.
TransportNotLeaked ==
  state = "closed" /\ startup # "none" => released

\* A shutdown that resolves has waited for every socket and both servers.
ResolvedMeansStopped ==
  promise = "resolved" =>
    /\ http \in {"none", "done"} /\ wss \in {"none", "done"}
    /\ listener \in {"not_started", "closed", "error"}
    /\ \A c \in Conn : conn[c] \in {"none", "gone"}

\* What is left of a bridge whose shutdown has ended.
ClosedReleasesAll == NothingHeld /\ TransportNotLeaked /\ ResolvedMeansStopped

\* A bridge that runs listens, and its transport has started.
RunningIsUp ==
  state = "running" =>
    /\ startup = "ok" /\ http = "listening" /\ listener = "listening"
    /\ handlers /\ ~connecting /\ ~aborted

\* The parts of the bridge agree with its state, while it runs and while it goes.
StateIsTrue == TypeOK /\ RunningIsUp /\ ClosingStopsWork

\* What a shutdown comes to: a pending start() is answered, the sockets and the
\* port are given back.
ShutdownOver ==
  /\ state = "closed" /\ startup \in {"none", "ok", "failed"}
  /\ http \in {"none", "done"} /\ wss \in {"none", "done"}
  /\ \A c \in Conn : conn[c] \in {"none", "gone"}

-----------------------------------------------------------------------------
(* Action properties *)

\* Shutdown is terminal: it ends once, and no late completion of the listener,
\* of connect() or of transport.start() brings the bridge back.
NoRestart ==
  [][ShuttingDown =>
       /\ state' = state \/ state' = "closed"
       /\ promise # "pending" => promise' = promise
       /\ startup # "ok" => startup' # "ok"]_vars

-----------------------------------------------------------------------------
(* Liveness *)

\* docs/server-lifecycle.md: "closed" settles after the exposed MCP server
\* closes. The SDK reports the close of a transport it holds, so an MCP server
\* closed before start() goes unnoticed.
McpCloseEndsBridge ==
  mcpClose = "resolved" /\ state = "idle" ~> state # "idle"

=============================================================================
