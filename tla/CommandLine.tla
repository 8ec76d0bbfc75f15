------------------------------ MODULE CommandLine ------------------------------
(***************************************************************************)
(* The process around one bridge (src/src/cli.ts): main(), the triggers of   *)
(* its shutdown (signals, the end of stdin, errors of the three streams) and *)
(* the exit deadline. A bridge that an application embeds, whose host makes  *)
(* every call of its interface at any time, is the other choice of "host".   *)
(*                                                                           *)
(* A turn of the bridge is a turn of the process, while that lives.          *)
(***************************************************************************)
EXTENDS InspectionServer

VARIABLES
  host,          \* "embedder" or "cli"
  main,          \* "loading", "starting", "running", "ended": where main() stands
  stopping,
  exitDeadline,  \* the unreferenced timer of 1500ms is armed
  exitCode,
  cause,         \* the error start() was left with: "none", "closed" (during startup), "other"
  stream,        \* "ok", or "errored": a stream failed with anything but EPIPE
  process        \* "alive", "exited" (nothing left to do), "forced" (by the deadline)

cliVars == <<host, main, stopping, exitDeadline, exitCode, cause, stream, process>>
allVars == <<vars, cliVars>>

ProcessInit ==
  /\ Init
  /\ host \in {"embedder", "cli"} /\ main = "loading"
  /\ stopping = FALSE /\ exitDeadline = FALSE /\ exitCode = 0
  /\ cause = "none" /\ stream = "ok" /\ process = "alive"

Alive == process = "alive"
Cli == host = "cli" /\ Alive

\* What breaks a start() that has not ended: the shutdown, or a failure.
Blame == cause' = IF startup' # "broken" \/ cause # "none" THEN cause
                  ELSE IF aborted' THEN "closed" ELSE "other"

-----------------------------------------------------------------------------
(* main() *)

\* loadConfig() and createInspectionServer() throw: there is no bridge.
ConfigurationFails ==
  /\ Cli /\ main = "loading" /\ main' = "ended"
  /\ exitCode' = 1 /\ cause' = "other" /\ exitDeadline' = TRUE
  /\ UNCHANGED <<vars, host, stopping, stream, process>>

\* stdin is at its end already: there is nothing to start.
StdinEnded ==
  /\ Cli /\ main = "loading" /\ main' = "running"
  /\ stopping' = TRUE /\ exitDeadline' = TRUE
  /\ HostCloses
  /\ UNCHANGED <<host, exitCode, cause, stream, process>>

MainStarts ==
  /\ Cli /\ main = "loading" /\ main' = "starting"
  /\ Start
  /\ UNCHANGED <<host, stopping, exitDeadline, exitCode, cause, stream, process>>

MainRuns ==
  /\ Cli /\ main = "starting" /\ startup = "ok" /\ main' = "running"
  /\ UNCHANGED <<vars, host, stopping, exitDeadline, exitCode, cause, stream, process>>

\* Variant of Expected: whatever fails after a stop is put down to it.
ExpectedOfStop == stopping

\* The rejection of start() that a stop asked for. A shutdown that fails hides it.
Expected == stopping /\ cause = "closed" /\ promise = "resolved"

\* Variant of MainEnds: the deadline is left to stop().
MainEndsUnarmed ==
  /\ Cli
  /\ \/ main = "starting" /\ startup = "failed"
     \/ main = "running" /\ promise # "pending"
  /\ main' = "ended"
  /\ exitCode' = IF promise = "rejected" \/ (main = "starting" /\ ~Expected) THEN 1 ELSE exitCode
  /\ UNCHANGED <<vars, host, stopping, exitDeadline, cause, stream, process>>

\* The catch and finally blocks. close() has been called by then, and what it
\* returns is settled.
MainEnds ==
  /\ Cli
  /\ \/ main = "starting" /\ startup = "failed"
     \/ main = "running" /\ promise # "pending"
  /\ main' = "ended" /\ exitDeadline' = TRUE
  /\ exitCode' = IF promise = "rejected" \/ (main = "starting" /\ ~Expected) THEN 1 ELSE exitCode
  /\ UNCHANGED <<vars, host, stopping, cause, stream, process>>

\* stop() and streamError(): signals and stdin or stdout until main() ends,
\* stderr as long as the process lives. (Nobody reads "stopping" after main().)
Stop(errored) ==
  /\ Cli /\ main # "loading"
  /\ stopping' = (stopping \/ main # "ended") /\ exitDeadline' = TRUE
  /\ IF errored THEN exitCode' = 1 /\ stream' = "errored" ELSE UNCHANGED <<exitCode, stream>>
  /\ IF state = "idle" THEN UNCHANGED vars ELSE HostCloses
  /\ Blame
  /\ UNCHANGED <<host, main, process>>

-----------------------------------------------------------------------------
(* The process *)

\* A step of the bridge.
BridgeSteps ==
  /\ Alive /\ BridgeNext
  /\ Blame
  /\ UNCHANGED <<host, main, stopping, exitDeadline, exitCode, stream, process>>

EmbedderCalls ==
  /\ host = "embedder" /\ HostNext
  /\ UNCHANGED cliVars

\* Nothing keeps the event loop any more. Output that nobody reads would.
Exits ==
  /\ Cli /\ main = "ended"
  /\ http \in {"none", "done"} /\ wss \in {"none", "done"}
  /\ \A c \in Conn : conn[c] \in {"none", "gone"}
  /\ process' = "exited"
  /\ UNCHANGED <<vars, host, main, stopping, exitDeadline, exitCode, cause, stream>>

\* process.exit(1). The timer was armed no later than the bridge's own deadline
\* of 1000ms, and runs after it.
ExitDeadlineFires ==
  /\ Cli /\ exitDeadline /\ ~deadlineTimer
  /\ process' = "forced" /\ exitCode' = 1
  /\ UNCHANGED <<vars, host, main, stopping, exitDeadline, cause, stream>>

Over == ~Alive /\ UNCHANGED allVars

ProcessNext ==
  \/ ConfigurationFails \/ StdinEnded \/ MainStarts \/ MainRuns \/ MainEnds
  \/ \E errored \in BOOLEAN : Stop(errored)
  \/ BridgeSteps \/ EmbedderCalls
  \/ Exits \/ ExitDeadlineFires \/ Over

\* As for the bridge, while the process lives, and the exit deadline's timer.
\* Nothing makes the process exit by itself: its output may be blocked.
ProcessFairness ==
  /\ WF_vars(Alive /\ ConnectMcp) /\ WF_vars(Alive /\ StartEnds)
  /\ WF_vars(Alive /\ StartCloses) /\ WF_vars(Alive /\ StartRejects)
  /\ WF_vars(Alive /\ McpCloseRuns)
  /\ WF_vars(Alive /\ GraceEnds) /\ WF_vars(Alive /\ DeadlineFires)
  /\ WF_vars(Alive /\ ShutdownCompletes) /\ WF_vars(Alive /\ ShutdownFails)
  /\ WF_vars(Alive /\ HttpDrained) /\ WF_vars(Alive /\ WsDrained)
  /\ \A c \in Conn : WF_vars(Alive /\ SocketCloses(c))
  /\ WF_allVars(MainStarts) /\ WF_allVars(MainRuns) /\ WF_allVars(MainEnds)
  /\ WF_allVars(ExitDeadlineFires)

ProcessSpec == ProcessInit /\ [][ProcessNext]_allVars /\ ProcessFairness

-----------------------------------------------------------------------------

\* docs/server-lifecycle.md: a normal signal or EOF exits with status 0, errors of
\* configuration, binding, streams and cleanup with another, whatever comes first.
ExitStatus ==
  process = "exited" =>
    (exitCode = 0 <=> /\ promise = "resolved" /\ stream = "ok"
                      /\ listener # "error" /\ cause # "other"
                      /\ startup = "ok" \/ stopping)

\* A shutdown ends although sockets, transport.start() or transport.close() hang,
\* and whether it resolves or not, unless the process is gone by then.
ShutdownEnds == state = "closing" ~> ShutdownOver \/ process = "forced"

\* docs/server-lifecycle.md: the process ends once it is told to stop, or once its
\* bridge closes or cannot start, although its output may be blocked for ever.
ProcessEnds ==
  Cli /\ (stopping \/ ShuttingDown \/ startup = "broken") ~> ~Alive

=============================================================================
