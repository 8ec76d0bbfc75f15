------------------------ MODULE InspectionServerProofs ------------------------
(***************************************************************************)
(* Proofs about the bridge and the process around it, for any number of     *)
(* connections. Every step of the process is a step of the bridge or leaves *)
(* it alone, so that what is shown of the bridge holds in any process.      *)
(***************************************************************************)
EXTENDS CommandLine, TLAPS

-----------------------------------------------------------------------------
(* The invariant of the bridge *)

\* How far start() has come in each state, and what it holds by then.
Phases ==
  /\ state = "idle" => startup = "none" /\ http = "none" /\ wss = "none"
  /\ state = "starting" =>
       startup \in {"listening", "bound", "connecting", "connected", "broken"}
  /\ state = "running" => startup = "ok"
  /\ startup \in {"failing", "failed"} => ShuttingDown
  /\ startup = "failed" => state = "closed"
  /\ attached => startup # "none"
  /\ aborted <=> ShuttingDown
  /\ promise # "pending" <=> state = "closed"

StartupHolds ==
  /\ http = "binding" <=> startup = "listening"
  /\ startup \in {"bound", "connecting", "connected", "ok"} =>
       listener \in {"listening", "closed"}
  /\ ~aborted /\ startup \in {"bound", "connecting", "connected", "ok"} =>
       http = "listening" /\ listener = "listening"
  /\ ~aborted /\ startup \in {"connecting", "connected", "ok"} => handlers
  /\ startup \in {"connected", "ok"} => ~connecting

\* A transport the SDK holds is told to close by the MCP close; one it does not
\* hold has been told by the shutdown.
TransportHeld ==
  /\ disposed <=> mcpClose # "none"
  /\ attached /\ mcpClose \notin {"none", "scheduled"} => released
  /\ ShuttingDown /\ startup # "none" => released \/ attached

\* The listener outlives its connections.
ListenerHolds ==
  /\ http = "none" <=> startup = "none"
  /\ http = "none" <=> wss = "none"
  /\ wss \in {"stopped", "done"} => aborted
  /\ http = "none" => listener = "not_started" /\ \A c \in Conn : conn[c] = "none"
  /\ http \in {"binding", "failed"} => \A c \in Conn : conn[c] = "none"
  /\ http = "done" => /\ listener \in {"closed", "error"}
                      /\ \A c \in Conn : conn[c] \in {"none", "gone"}

BridgeInv ==
  /\ TypeOK /\ RunningIsUp /\ ClosingStopsWork
  /\ NothingHeld /\ TransportNotLeaked /\ ResolvedMeansStopped
  /\ Phases /\ StartupHolds /\ TransportHeld /\ ListenerHolds

LEMMA InvMeans == BridgeInv => StateIsTrue /\ ClosedReleasesAll
BY DEF BridgeInv, StateIsTrue, ClosedReleasesAll

LEMMA BridgeInit == Init => BridgeInv
BY DEF Init, BridgeInv, TypeOK, RunningIsUp, ClosingStopsWork, ShuttingDown,
       NothingHeld, TransportNotLeaked, ResolvedMeansStopped, Phases,
       StartupHolds, TransportHeld, ListenerHolds

\* The first call of close(), by whomever.
LEMMA ShutdownKeeps ==
  ASSUME BridgeInv, NEW held \in BOOLEAN, held => attached, ~ShuttingDown, Shutdown(held),
         startup' = Cancelled \/ (startup = "broken" /\ startup' = "failing"),
         attached' = held,
         UNCHANGED <<listener, handlers, connecting, promise>>
  PROVE  BridgeInv'
<1> USE DEF BridgeInv, TypeOK, Phases, Shutdown, StopListening, Farewell, Cancelled,
            ClosingMcp, ShuttingDown, Results
<1>1. TypeOK'
  OBVIOUS
<1>2. RunningIsUp' /\ ClosingStopsWork'
  BY DEF RunningIsUp, ClosingStopsWork, StartupHolds
<1>3. NothingHeld' /\ TransportNotLeaked' /\ ResolvedMeansStopped'
  BY DEF NothingHeld, TransportNotLeaked, ResolvedMeansStopped
<1>4. Phases' /\ StartupHolds' /\ TransportHeld' /\ ListenerHolds'
  BY DEF StartupHolds, TransportHeld, ListenerHolds
<1> QED  BY <1>1, <1>2, <1>3, <1>4 DEF BridgeInv

\* The finally block of shutdown(), however the shutdown ended.
LEMMA FinishKeeps ==
  ASSUME BridgeInv, NEW result \in Results, Finish(result),
         result = "resolved" => AllClosed
  PROVE  BridgeInv'
<1>1. TypeOK'
  <2>1. conn' \in [Conn -> {"none", "raw", "ws", "handshake", "destroyed",
                           "terminated", "gone"}]
    BY DEF BridgeInv, TypeOK, Finish, ForcedSockets
  <2>2. UNCHANGED <<startup, aborted, http, wss, listener, disposed, released,
                    connecting, mcpClose, spareClose, regClosed, retained>>
    BY DEF Finish
  <2>3. /\ state' \in {"idle", "starting", "running", "closing", "closed"}
        /\ promise' \in {"pending"} \cup Results
        /\ graceTimer' \in BOOLEAN /\ deadlineTimer' \in BOOLEAN
        /\ attached' \in BOOLEAN /\ handlers' \in BOOLEAN
    BY DEF Finish
  <2> QED  BY <2>1, <2>2, <2>3 DEF BridgeInv, TypeOK
<1>2. RunningIsUp' /\ ClosingStopsWork'
  BY DEF BridgeInv, Finish, ShuttingDown, RunningIsUp, ClosingStopsWork
<1>3. NothingHeld'
  BY DEF BridgeInv, Finish, ForcedSockets, TypeOK, NothingHeld
<1>4. TransportNotLeaked'
  BY DEF BridgeInv, Finish, ShuttingDown, ClosingStopsWork, TransportHeld,
         TransportNotLeaked
<1>5. ResolvedMeansStopped'
  BY DEF BridgeInv, Finish, ForcedSockets, AllClosed, TypeOK, ListenerHolds,
         ResolvedMeansStopped
<1>6. Phases' /\ StartupHolds' /\ TransportHeld'
  <2>1. Phases'
    BY DEF BridgeInv, Finish, ShuttingDown, Results, Phases
  <2>2. StartupHolds'
    BY DEF BridgeInv, Finish, ShuttingDown, Phases, StartupHolds
  <2>3. TransportHeld'
    BY DEF BridgeInv, Finish, ShuttingDown, ClosingStopsWork, TransportHeld
  <2> QED  BY <2>1, <2>2, <2>3
<1>7. ListenerHolds'
  BY DEF BridgeInv, Finish, ForcedSockets, TypeOK, ListenerHolds
<1> QED  BY <1>1, <1>2, <1>3, <1>4, <1>5, <1>6, <1>7 DEF BridgeInv

\* The calls of close().
LEMMA CloseKeeps ==
  ASSUME BridgeInv, HostCloses \/ TransportCloses \/ StartCloses
  PROVE  BridgeInv'
<1> USE DEF BridgeInv, TypeOK, ShuttingDown, Cancelled
<1>1. CASE ShuttingDown
  <2>1. CASE HostCloses
    BY <1>1, <2>1 DEF HostCloses, Close, RunningIsUp, ClosingStopsWork,
       NothingHeld, TransportNotLeaked, ResolvedMeansStopped, Phases,
       StartupHolds, TransportHeld, ListenerHolds
  <2>2. CASE TransportCloses
    <3>1. /\ attached /\ attached' = FALSE /\ released' = TRUE
          /\ startup' = IF startup \in {"listening", "connecting"} THEN "broken" ELSE startup
          /\ UNCHANGED <<state, aborted, http, wss, conn, disposed, mcpClose, spareClose,
                         regClosed, retained, graceTimer, deadlineTimer, listener,
                         handlers, connecting, promise>>
      BY <1>1, <2>2 DEF TransportCloses
    <3>2. TypeOK'
      <4>1. startup' \in {startup, "broken"} /\ {released', attached'} \subseteq BOOLEAN
        BY <3>1
      <4>2. conn' = conn /\ retained' = retained
        BY <3>1
      <4>3. UNCHANGED <<state, aborted, http, wss, disposed, mcpClose, spareClose, regClosed,
                       graceTimer, deadlineTimer, listener, handlers, connecting, promise>>
        BY <3>1
      <4> QED  BY <4>1, <4>2, <4>3
    <3>3. RunningIsUp' /\ ClosingStopsWork' /\ NothingHeld' /\ TransportNotLeaked'
      BY <1>1, <3>1 DEF RunningIsUp, ClosingStopsWork, NothingHeld, TransportNotLeaked
    <3>4. StartupHolds'
      BY <1>1, <3>1 DEF StartupHolds, Phases, ClosingStopsWork
    <3>5. TransportHeld' /\ ResolvedMeansStopped'
      BY <1>1, <3>1 DEF TransportHeld, ResolvedMeansStopped
    <3>6. Phases'
      BY <1>1, <3>1 DEF Phases
    <3>7. ListenerHolds'
      BY <1>1, <3>1 DEF ListenerHolds
    <3> QED  BY <3>2, <3>3, <3>4, <3>5, <3>6, <3>7
  <2>3. CASE StartCloses
    BY <1>1, <2>3 DEF StartCloses, Close, RunningIsUp, ClosingStopsWork,
       NothingHeld, TransportNotLeaked, ResolvedMeansStopped, Phases,
       StartupHolds, TransportHeld, ListenerHolds
  <2> QED  BY <2>1, <2>2, <2>3
<1>2. CASE ~ShuttingDown
  <2>1. CASE HostCloses
    BY <1>2, <2>1, ShutdownKeeps DEF HostCloses, Close
  <2>2. CASE TransportCloses
    BY <1>2, <2>2, ShutdownKeeps DEF TransportCloses, Close
  <2>3. CASE StartCloses
    BY <1>2, <2>3, ShutdownKeeps DEF StartCloses, Close
  <2> QED  BY <2>1, <2>2, <2>3
<1> QED  BY <1>1, <1>2

LEMMA StepTyped ==
  ASSUME TypeOK, GraceEnds \/ ConnectMcp \/ \E ok \in BOOLEAN : TransportStarts(ok)
  PROVE  TypeOK'
<1> USE DEF netVars, mcpVars, endVars
<1>1. CASE GraceEnds
  <2>1. conn' \in [Conn -> {"none", "raw", "ws", "handshake", "destroyed",
                           "terminated", "gone"}]
    BY <1>1 DEF TypeOK, GraceEnds, ForcedSockets
  <2>2. graceTimer' \in BOOLEAN
    BY <1>1 DEF GraceEnds
  <2> QED  BY <1>1, <2>1, <2>2 DEF TypeOK, GraceEnds
<1>2. CASE ConnectMcp
  <2>1. /\ attached' \in BOOLEAN /\ handlers' \in BOOLEAN /\ connecting' \in BOOLEAN
        /\ startup' \in {"broken", "connecting"}
    BY <1>2 DEF TypeOK, ConnectMcp
  <2> QED  BY <1>2, <2>1 DEF TypeOK, ConnectMcp
<1>3. ASSUME NEW ok \in BOOLEAN, TransportStarts(ok) PROVE TypeOK'
  <2>1. connecting' \in BOOLEAN /\ startup' \in {startup, "connected", "broken"}
    BY <1>3 DEF TransportStarts
  <2> QED  BY <1>3, <2>1 DEF TypeOK, TransportStarts
<1> QED  BY <1>1, <1>2, <1>3

LEMMA BridgeNextKeeps ==
  ASSUME BridgeInv, [Next]_vars
  PROVE  BridgeInv'
<1>0. GraceEnds \/ ConnectMcp \/ (\E ok \in BOOLEAN : TransportStarts(ok)) => TypeOK'
  BY StepTyped DEF BridgeInv
<1> USE DEF BridgeInv, TypeOK, RunningIsUp, ClosingStopsWork, NothingHeld,
            TransportNotLeaked, ResolvedMeansStopped, Phases, StartupHolds,
            TransportHeld, ListenerHolds, ShuttingDown, Results,
            netVars, mcpVars, endVars
<1>1. CASE Start
  BY <1>1 DEF Start
<1>2. CASE HostClosesRegistry
  BY <1>2 DEF HostClosesRegistry
<1>3. CASE HostClosesMcp
  BY <1>3 DEF HostClosesMcp, ClosingMcp
<1>4. CASE Listening
  BY <1>4 DEF Listening
<1>5. CASE BindFails
  BY <1>5 DEF BindFails
<1>6. CASE ConnectMcp
  <2>1. TypeOK'
    BY <1>0, <1>6
  <2>2. /\ RunningIsUp' /\ ClosingStopsWork' /\ NothingHeld' /\ TransportNotLeaked'
        /\ ResolvedMeansStopped' /\ Phases' /\ StartupHolds' /\ TransportHeld'
        /\ ListenerHolds'
    BY <1>6 DEF ConnectMcp
  <2> QED  BY <2>1, <2>2
<1>7. CASE StartEnds
  BY <1>7 DEF StartEnds
<1>8. CASE StartRejects
  BY <1>8 DEF StartRejects
<1>9. CASE McpCloseRuns
  BY <1>9 DEF McpCloseRuns
<1>10. CASE GraceEnds
  <2>1. TypeOK'
    BY <1>0, <1>10
  <2>2. /\ RunningIsUp' /\ ClosingStopsWork' /\ NothingHeld' /\ TransportNotLeaked'
        /\ ResolvedMeansStopped' /\ Phases' /\ StartupHolds' /\ TransportHeld'
        /\ ListenerHolds'
    BY <1>10 DEF GraceEnds, ForcedSockets
  <2> QED  BY <2>1, <2>2
<1>11. CASE HttpDrained
  BY <1>11 DEF HttpDrained, ListenerClosed
<1>12. CASE WsDrained
  BY <1>12 DEF WsDrained, ListenerClosed
<1>13. ASSUME NEW result \in Results, McpCloseAnswers(result) PROVE BridgeInv'
  BY <1>13 DEF McpCloseAnswers
<1>14. ASSUME NEW result \in Results, SpareCloseAnswers(result) PROVE BridgeInv'
  BY <1>14 DEF SpareCloseAnswers
<1>15. ASSUME NEW ok \in BOOLEAN, TransportStarts(ok) PROVE BridgeInv'
  <2>1. TypeOK'
    BY <1>0, <1>15
  <2>2. /\ RunningIsUp' /\ ClosingStopsWork' /\ NothingHeld' /\ TransportNotLeaked'
        /\ ResolvedMeansStopped' /\ Phases' /\ StartupHolds' /\ TransportHeld'
        /\ ListenerHolds'
    BY <1>15 DEF TransportStarts
  <2> QED  BY <2>1, <2>2
<1>16. ASSUME NEW c \in Conn, PeerConnects(c) PROVE BridgeInv'
  BY <1>16 DEF PeerConnects, ConnStep
<1>17. ASSUME NEW c \in Conn, Upgrade(c) PROVE BridgeInv'
  BY <1>17 DEF Upgrade, ConnStep
<1>18. ASSUME NEW c \in Conn, Frame(c) PROVE BridgeInv'
  BY <1>18 DEF Frame
<1>19. ASSUME NEW c \in Conn, PeerCloses(c) PROVE BridgeInv'
  BY <1>19 DEF PeerCloses, ConnStep, Gone
<1>20. ASSUME NEW c \in Conn, SocketCloses(c) PROVE BridgeInv'
  BY <1>20 DEF SocketCloses, ConnStep, Gone
<1>21. CASE HostCloses \/ TransportCloses \/ StartCloses
  BY <1>21, CloseKeeps
<1>22. CASE ShutdownCompletes \/ ShutdownFails \/ DeadlineFires
  BY <1>22, FinishKeeps DEF ShutdownCompletes, ShutdownFails, DeadlineFires
<1>23. CASE UNCHANGED vars
  BY <1>23 DEF vars
<1> HIDE DEF BridgeInv, TypeOK
<1> QED
  BY <1>1, <1>2, <1>3, <1>4, <1>5, <1>6, <1>7, <1>8, <1>9, <1>10, <1>11, <1>12,
     <1>13, <1>14, <1>15, <1>16, <1>17, <1>18, <1>19, <1>20, <1>21, <1>22, <1>23
     DEF Next, HostNext, BridgeNext, ConnNext

-----------------------------------------------------------------------------
(* In a process *)

\* No step of the process touches the bridge but by a step of the bridge.
LEMMA ProcessStep == [ProcessNext]_allVars => [Next]_vars
BY DEF ProcessNext, allVars, Next, ConfigurationFails, StdinEnded, MainStarts, HostNext,
       MainRuns, MainEnds, Stop, BridgeSteps, EmbedderCalls, Exits,
       ExitDeadlineFires, Over

LEMMA ProcessKeepsBridge == ProcessSpec => []BridgeInv
<1>1. ProcessInit => BridgeInv
  BY BridgeInit DEF ProcessInit
<1>2. BridgeInv /\ [ProcessNext]_allVars => BridgeInv'
  BY ProcessStep, BridgeNextKeeps
<1> QED  BY <1>1, <1>2, PTL DEF ProcessSpec

\* A running bridge listens with a started transport, and nothing works any more
\* from the first moment of a shutdown, whatever start(), close() and the late
\* answers of listener, MCP server and transport are ordered like.
THEOREM StateStaysTrue == ProcessSpec => []StateIsTrue
BY ProcessKeepsBridge, InvMeans, PTL

\* A bridge whose shutdown has ended holds no timer, transport or usable socket,
\* and one whose shutdown resolved has waited for its sockets and both servers.
THEOREM ClosedHoldsNothing == ProcessSpec => []ClosedReleasesAll
BY ProcessKeepsBridge, InvMeans, PTL

LEMMA BridgeStaysClosed ==
  ASSUME BridgeInv, [Next]_vars, ShuttingDown
  PROVE  /\ state' = state \/ state' = "closed"
         /\ promise # "pending" => promise' = promise
         /\ startup # "ok" => startup' # "ok"
<1> DEFINE Goal == /\ state' = state \/ state' = "closed"
                   /\ promise # "pending" => promise' = promise
                   /\ startup # "ok" => startup' # "ok"
<1> SUFFICES Goal
  OBVIOUS
<1> USE DEF netVars, mcpVars, endVars
<1>1. /\ aborted /\ http # "binding" /\ state # "idle"
      /\ promise # "pending" => state = "closed"
      /\ startup \notin {"listening", "connecting"}
  BY DEF BridgeInv, Phases, ClosingStopsWork, ShuttingDown
<1>2. CASE HostNext
  BY <1>1, <1>2 DEF HostNext, Start, HostCloses, Close, Cancelled, HostClosesRegistry,
                    HostClosesMcp
<1>3. CASE Listening \/ BindFails \/ ConnectMcp \/ StartEnds \/ StartCloses \/ StartRejects
  BY <1>1, <1>3 DEF Listening, BindFails, ConnectMcp, StartEnds, StartCloses,
                    StartRejects, Close
<1>4. CASE McpCloseRuns \/ TransportCloses \/ GraceEnds \/ HttpDrained \/ WsDrained
  BY <1>1, <1>4 DEF McpCloseRuns, TransportCloses, Cancelled, GraceEnds, HttpDrained,
                    WsDrained
<1>5. ASSUME NEW ok \in BOOLEAN, TransportStarts(ok) PROVE Goal
  BY <1>1, <1>5 DEF TransportStarts
<1>6. ASSUME NEW result \in Results, McpCloseAnswers(result) \/ SpareCloseAnswers(result)
      PROVE  Goal
  BY <1>1, <1>6 DEF McpCloseAnswers, SpareCloseAnswers
<1>7. ASSUME NEW result \in Results, Finish(result) PROVE Goal
  BY <1>1, <1>7 DEF Finish
<1>8. ASSUME NEW c \in Conn, ConnNext(c) PROVE Goal
  BY <1>1, <1>8 DEF ConnNext, PeerConnects, Upgrade, Frame, PeerCloses,
                    SocketCloses, Gone, ConnStep
<1>9. CASE UNCHANGED vars
  BY <1>9 DEF vars
<1> QED
  BY <1>2, <1>3, <1>4, <1>5, <1>6, <1>7, <1>8, <1>9
     DEF Next, BridgeNext, ShutdownCompletes, ShutdownFails, DeadlineFires, Results

\* Shutdown is terminal, and no late answer brings the bridge back.
THEOREM NeverRestarts == ProcessSpec => NoRestart
<1>1. BridgeInv /\ [ProcessNext]_allVars
        => [ShuttingDown =>
              /\ state' = state \/ state' = "closed"
              /\ promise # "pending" => promise' = promise
              /\ startup # "ok" => startup' # "ok"]_vars
  BY ProcessStep, BridgeStaysClosed
<1> QED  BY ProcessKeepsBridge, <1>1, PTL DEF ProcessSpec, NoRestart

-----------------------------------------------------------------------------
(* The exit status *)

\* A start() that broke has a cause, and a taken port is never put down to a stop.
CauseHolds ==
  /\ cause \in {"none", "closed", "other"}
  /\ startup \in {"broken", "failing", "failed"} => cause # "none"
  /\ cause # "none" =>
       startup \in {"broken", "failing", "failed"} \/ (startup = "none" /\ main = "ended")
  /\ listener = "error" => cause = "other"

\* What exitCode 0 must come to.
Clean ==
  /\ promise = "resolved" /\ stream = "ok" /\ cause # "other"
  /\ startup = "ok" \/ stopping

\* Where main() stands: the exit status is that of the streams until main() ends,
\* and final from then on, but for the error stream.
MainHolds ==
  /\ main \in {"loading", "starting", "running", "ended"}
  /\ stream \in {"ok", "errored"} /\ stopping \in BOOLEAN
  /\ main = "loading" => state = "idle"
  /\ main = "running" => startup = "ok" \/ (startup = "none" /\ stopping)
  /\ main # "ended" => (exitCode = 0 <=> stream = "ok")
  /\ main = "ended" =>
       \/ cause = "other" /\ exitCode # 0
       \/ promise # "pending" /\ (exitCode = 0 <=> Clean)

ExitInv ==
  /\ BridgeInv
  /\ host = "cli" /\ process # "forced" => CauseHolds /\ MainHolds
  /\ process = "exited" => host = "cli" /\ main = "ended"

\* What a step of the bridge, or a call of close(), does to start().
StartupMoves ==
  /\ \/ startup' = startup
     \/ /\ startup \in {"listening", "bound", "connecting", "connected"}
        /\ startup' \in {"bound", "connecting", "connected", "ok", "broken"}
     \/ startup = "broken" /\ startup' = "failing"
     \/ startup = "failing" /\ startup' = "failed"
  /\ listener' = "error" =>
       listener = "error" \/ (startup = "listening" /\ startup' = "broken" /\ ~aborted')

LEMMA BridgeMoves ==
  ASSUME BridgeInv, BridgeNext \/ HostCloses
  PROVE  StartupMoves
<1> USE DEF StartupMoves, netVars, mcpVars, endVars
<1>1. /\ http = "binding" => startup = "listening" /\ ~aborted
      /\ startup \in {"none", "listening", "bound", "connecting", "connected",
                      "broken", "failing", "ok", "failed"}
  BY DEF BridgeInv, TypeOK, Phases, StartupHolds, ClosingStopsWork
<1>2. CASE HostCloses \/ TransportCloses \/ StartCloses
  BY <1>1, <1>2 DEF HostCloses, TransportCloses, StartCloses, Cancelled
<1>3. CASE Listening \/ BindFails \/ ConnectMcp \/ StartEnds \/ StartRejects
  BY <1>1, <1>3 DEF Listening, BindFails, ConnectMcp, StartEnds, StartRejects
<1>4. CASE McpCloseRuns \/ GraceEnds \/ HttpDrained \/ WsDrained
  BY <1>4 DEF McpCloseRuns, GraceEnds, HttpDrained, WsDrained, ListenerClosed
<1>5. ASSUME NEW ok \in BOOLEAN, TransportStarts(ok) PROVE StartupMoves
  BY <1>1, <1>5 DEF TransportStarts
<1>6. ASSUME NEW result \in Results, McpCloseAnswers(result) \/ SpareCloseAnswers(result)
      PROVE  StartupMoves
  BY <1>6 DEF McpCloseAnswers, SpareCloseAnswers
<1>7. ASSUME NEW result \in Results, Finish(result) PROVE StartupMoves
  BY <1>7 DEF Finish
<1>8. ASSUME NEW c \in Conn, ConnNext(c) PROVE StartupMoves
  BY <1>8 DEF ConnNext, PeerConnects, Upgrade, Frame, PeerCloses, SocketCloses, Gone,
              ConnStep
<1> QED
  BY <1>2, <1>3, <1>4, <1>5, <1>6, <1>7, <1>8
     DEF BridgeNext, ShutdownCompletes, ShutdownFails, DeadlineFires, Results

\* A bridge that was not started stays idle.
LEMMA IdleStays ==
  ASSUME BridgeInv, BridgeNext, state = "idle"
  PROVE  state' = "idle"
<1>1. startup = "none" /\ ~attached /\ ~deadlineTimer
  BY DEF BridgeInv, Phases, NothingHeld
<1> QED
  BY <1>1
     DEF BridgeNext, netVars, mcpVars, endVars, Listening, BindFails, ConnectMcp,
         StartEnds, StartCloses, StartRejects, McpCloseRuns, TransportCloses,
         TransportStarts, McpCloseAnswers, SpareCloseAnswers, GraceEnds, Finish,
         ShutdownCompletes, ShutdownFails, DeadlineFires, ConnNext, PeerConnects,
         Upgrade, Frame, PeerCloses, SocketCloses, Gone, ConnStep, HttpDrained,
         WsDrained

\* A step of the bridge in which the cause is noted.
LEMMA BlameKeeps ==
  ASSUME BridgeInv, BridgeInv', CauseHolds, StartupMoves, Blame, main' = main
  PROVE  CauseHolds'
BY DEF CauseHolds, StartupMoves, Blame

\* Once the bridge has closed, nothing the exit status depends on changes but the
\* streams.
LEMMA CleanIsFinal ==
  ASSUME BridgeInv, BridgeInv', [Next]_vars, CauseHolds, StartupMoves, Blame,
         promise # "pending", stopping' = stopping, stream' = stream
  PROVE  promise' # "pending" /\ (Clean' <=> Clean)
<1>1. state = "closed" /\ aborted /\ startup \notin {"listening", "connecting"}
  BY DEF BridgeInv, Phases, ClosingStopsWork, ShuttingDown
<1>2. promise' = promise /\ (startup # "ok" => startup' # "ok")
  BY <1>1, BridgeStaysClosed DEF ShuttingDown
<1>3. aborted'
  BY <1>1, <1>2 DEF BridgeInv, Phases, ShuttingDown
<1>4. cause' = "other" <=> cause = "other"
  BY <1>3 DEF Blame
<1>5. startup = "ok" => startup' = "ok"
  BY DEF StartupMoves
<1> QED  BY <1>2, <1>4, <1>5 DEF Clean

LEMMA ExitInit == ProcessInit => ExitInv
BY BridgeInit
   DEF ProcessInit, Init, ExitInv, CauseHolds, MainHolds

LEMMA ExitNext == ExitInv /\ [ProcessNext]_allVars => ExitInv'
<1> SUFFICES ASSUME ExitInv, [ProcessNext]_allVars PROVE ExitInv'
  OBVIOUS
<1>1. BridgeInv /\ BridgeInv' /\ [Next]_vars
  BY ProcessStep, BridgeNextKeeps DEF ExitInv
<1>2. CASE host = "cli" /\ process # "forced"
  <2>1. CauseHolds /\ MainHolds
    BY <1>2 DEF ExitInv
  <2>2. CASE ConfigurationFails
    <3>1. CauseHolds' /\ MainHolds'
      BY <1>1, <2>1, <2>2
         DEF ConfigurationFails, BridgeInv, Phases, ShuttingDown, CauseHolds, MainHolds, vars, netVars
    <3> QED  BY <1>1, <1>2, <2>2, <3>1 DEF ConfigurationFails, Cli, Alive, ExitInv
  <2>3. CASE StdinEnded
    <3>1. startup' = "none" /\ cause = "none" /\ listener' = listener
      BY <1>1, <2>1, <2>3
         DEF StdinEnded, HostCloses, Cancelled, BridgeInv, Phases, CauseHolds, MainHolds
    <3>2. CauseHolds' /\ MainHolds'
      BY <2>1, <2>3, <3>1 DEF StdinEnded, CauseHolds, MainHolds
    <3> QED  BY <1>1, <1>2, <2>3, <3>2 DEF StdinEnded, Cli, Alive, ExitInv
  <2>4. CASE MainStarts
    <3>1. cause = "none" /\ startup' = "listening" /\ listener' = "starting"
      BY <1>1, <2>1, <2>4 DEF MainStarts, Start, BridgeInv, Phases, CauseHolds, MainHolds
    <3>2. CauseHolds' /\ MainHolds'
      BY <2>1, <2>4, <3>1 DEF MainStarts, CauseHolds, MainHolds
    <3> QED  BY <1>1, <1>2, <2>4, <3>2 DEF MainStarts, Cli, Alive, ExitInv
  <2>5. CASE MainRuns
    <3>1. CauseHolds' /\ MainHolds'
      BY <2>1, <2>5 DEF MainRuns, CauseHolds, MainHolds, vars, netVars
    <3> QED  BY <1>1, <1>2, <2>5, <3>1 DEF MainRuns, Cli, Alive, ExitInv
  <2>6. CASE MainEnds
    <3>1. UNCHANGED <<startup, listener, promise, cause, stream, stopping, state>>
      BY <2>6 DEF MainEnds, vars, netVars, endVars
    <3>2. promise # "pending" /\ promise \in {"resolved", "rejected", "pending"}
      BY <1>1, <2>6 DEF MainEnds, BridgeInv, Phases, TypeOK, Results, ShuttingDown
    <3>3. main' = "ended" /\ main # "ended"
      BY <2>6 DEF MainEnds
    <3>4. exitCode' = 0 <=> Clean
      <4>1. CASE main = "running"
        BY <2>1, <2>6, <3>2, <4>1 DEF MainEnds, Clean, CauseHolds, MainHolds
      <4>2. CASE main = "starting"
        <5>1. startup = "failed" /\ cause \in {"closed", "other"}
          BY <2>1, <2>6, <4>2 DEF MainEnds, CauseHolds
        <5> QED  BY <2>1, <2>6, <3>2, <4>2, <5>1 DEF MainEnds, Expected, Clean, MainHolds
      <4> QED  BY <2>6, <4>1, <4>2 DEF MainEnds
    <3>5. CauseHolds' /\ MainHolds'
      BY <2>1, <3>1, <3>2, <3>3, <3>4 DEF CauseHolds, MainHolds, Clean
    <3> QED  BY <1>1, <1>2, <2>6, <3>5 DEF MainEnds, Cli, Alive, ExitInv
  <2>7. ASSUME NEW errored \in BOOLEAN, Stop(errored) PROVE ExitInv'
    <3>1. StartupMoves /\ Blame
      BY <1>1, <2>7, BridgeMoves DEF Stop, StartupMoves, vars, netVars
    <3>2. main' = main /\ main # "loading"
      BY <2>7 DEF Stop
    <3>3. CauseHolds'
      BY <1>1, <2>1, <3>1, <3>2, BlameKeeps
    <3>4. MainHolds'
      <4>1. CASE main # "ended"
        <5>1. stopping' = TRUE
          BY <2>7, <4>1 DEF Stop
        <5>2. main = "running" => startup' = "ok" \/ (startup' = "none" /\ stopping')
          BY <2>1, <3>1, <5>1 DEF StartupMoves, MainHolds
        <5>3. stream' \in {"ok", "errored"} /\ (exitCode' = 0 <=> stream' = "ok")
          <6>1. CASE errored
            BY <2>7, <6>1 DEF Stop
          <6>2. CASE ~errored
            BY <2>1, <2>7, <4>1, <6>2 DEF Stop, MainHolds
          <6> QED  BY <6>1, <6>2
        <5> QED  BY <2>1, <3>2, <4>1, <5>1, <5>2, <5>3 DEF MainHolds
      <4>2. CASE main = "ended"
        <5>1. stopping' = stopping
          BY <2>1, <2>7, <4>2 DEF Stop, MainHolds
        <5>2. CASE cause = "other"
          <6>1. cause' = "other" /\ exitCode' # 0 /\ stream' \in {"ok", "errored"}
            BY <2>1, <2>7, <3>1, <4>2, <5>2 DEF Stop, Blame, MainHolds, Clean
          <6> QED  BY <2>1, <3>2, <4>2, <5>1, <6>1 DEF MainHolds
        <5>3. CASE cause # "other"
          <6>1. promise # "pending" /\ (exitCode = 0 <=> Clean)
            BY <2>1, <4>2, <5>3 DEF MainHolds
          <6>2. CASE errored
            <7>1. exitCode' = 1 /\ stream' = "errored"
              BY <2>7, <6>2 DEF Stop
            <7>2. promise' # "pending"
              BY <1>1, <6>1, BridgeStaysClosed DEF BridgeInv, Phases, ShuttingDown
            <7> QED  BY <2>1, <3>2, <4>2, <5>1, <7>1, <7>2 DEF MainHolds, Clean
          <6>3. CASE ~errored
            <7>1. exitCode' = exitCode /\ stream' = stream
              BY <2>7, <6>3 DEF Stop
            <7>2. promise' # "pending" /\ (Clean' <=> Clean)
              BY <1>1, <2>1, <3>1, <5>1, <6>1, <7>1, CleanIsFinal
            <7> QED  BY <2>1, <3>2, <4>2, <5>1, <6>1, <7>1, <7>2 DEF MainHolds
          <6> QED  BY <6>2, <6>3
        <5> QED  BY <5>2, <5>3
      <4> QED  BY <4>1, <4>2
    <3> QED  BY <1>1, <1>2, <2>7, <3>3, <3>4 DEF Stop, Cli, Alive, ExitInv
  <2>8. CASE BridgeSteps
    <3>1. StartupMoves /\ Blame /\ UNCHANGED <<main, stopping, exitCode, stream, host, process>>
      BY <1>1, <2>8, BridgeMoves DEF BridgeSteps
    <3>2. CauseHolds'
      BY <1>1, <2>1, <3>1, BlameKeeps
    <3>3. main = "loading" => state' = "idle"
      BY <1>1, <2>1, <2>8, IdleStays DEF BridgeSteps, MainHolds
    <3>4. main = "running" => startup' = "ok" \/ (startup' = "none" /\ stopping')
      BY <2>1, <3>1 DEF StartupMoves, MainHolds
    <3>5. ASSUME main # "ended" PROVE MainHolds'
      BY <2>1, <3>1, <3>3, <3>4, <3>5 DEF MainHolds
    <3>6. ASSUME main = "ended", cause = "other", exitCode # 0 PROVE MainHolds'
      BY <2>1, <3>1, <3>6 DEF MainHolds, Blame
    <3>7. ASSUME main = "ended", promise # "pending", exitCode = 0 <=> Clean
          PROVE  MainHolds'
      <4>1. promise' # "pending" /\ (Clean' <=> Clean)
        BY <1>1, <2>1, <3>1, <3>7, CleanIsFinal
      <4> QED  BY <2>1, <3>1, <3>7, <4>1 DEF MainHolds
    <3>8. MainHolds'
      BY <2>1, <3>5, <3>6, <3>7 DEF MainHolds
    <3> QED  BY <1>1, <1>2, <2>8, <3>1, <3>2, <3>8 DEF BridgeSteps, Alive, ExitInv
  <2>9. CASE Exits
    BY <1>1, <1>2, <2>1, <2>9
       DEF Exits, Cli, ExitInv, CauseHolds, MainHolds, Clean, vars, netVars, endVars
  <2>10. CASE ExitDeadlineFires
    BY <1>1, <2>10 DEF ExitDeadlineFires, ExitInv
  <2>11. CASE Over \/ UNCHANGED allVars
    BY <1>1, <1>2, <2>1, <2>11
       DEF Over, allVars, cliVars, ExitInv, CauseHolds, MainHolds, Clean, vars, netVars, endVars
  <2>12. ~EmbedderCalls
    BY <1>2 DEF EmbedderCalls
  <2> QED
    BY <2>2, <2>3, <2>4, <2>5, <2>6, <2>7, <2>8, <2>9, <2>10, <2>11, <2>12 DEF ProcessNext
<1>3. CASE ~(host = "cli" /\ process # "forced")
  <2>1. host' = host
    BY DEF ProcessNext, allVars, cliVars, ConfigurationFails, StdinEnded, MainStarts,
           MainRuns, MainEnds, Stop, BridgeSteps, EmbedderCalls, Exits,
           ExitDeadlineFires, Over
  <2>2. ~Cli
    BY <1>3 DEF Cli, Alive
  <2>3. process' = process /\ main' = main
    BY <2>2 DEF ProcessNext, allVars, cliVars, ConfigurationFails, StdinEnded,
           MainStarts, MainRuns, MainEnds, Stop, BridgeSteps, EmbedderCalls, Exits,
           ExitDeadlineFires, Over
  <2> QED  BY <1>1, <1>3, <2>1, <2>3 DEF ExitInv
<1> QED  BY <1>2, <1>3

\* A process that ends by itself exits with status 0 just after a requested stop
\* or a bridge that ran, whose cleanup succeeded and whose streams stayed whole.
THEOREM ExitStatusTells == ProcessSpec => []ExitStatus
<1>1. ExitInv => ExitStatus
  BY DEF ExitInv, ExitStatus, CauseHolds, MainHolds, Clean
<1> QED  BY ExitInit, ExitNext, <1>1, PTL DEF ProcessSpec

===============================================================================
