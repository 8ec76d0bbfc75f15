--------------------------- MODULE ConnectionHealth ---------------------------
(***************************************************************************)
(* The connection health record (src/src/connection-health.ts) and the      *)
(* frame handler that feeds it (handleMessage and the socket listeners in   *)
(* src/src/ws-server.ts): how each frame is counted, what a hello does to a *)
(* connection, and when the heartbeat lets a connection look stale.         *)
(*                                                                         *)
(* A frame is what handleMessage tells apart. Who owns an actor is the      *)
(* subject of ClientRegistry; here "actors" are those a connection has      *)
(* registered. Time is counted in ticks since an event, so that it needs no *)
(* bound. Labels, wall-clock stamps and paging are left out.                *)
(***************************************************************************)
EXTENDS Integers, FiniteSets, FiniteSetsExt

CONSTANTS
  Socket,
  Hello,             \* valid version-1 hello messages
  LocalId,           \* XState session ids
  Sendable,          \* the frames peers send
  CommandFailures,   \* the counted ways in which commands fail
  COUNTER_MAX,       \* counters saturate here
  HeartbeatInterval, \* HEARTBEAT_INTERVAL_MS in ticks
  StaleAfter,        \* STALE_AFTER_MS in ticks
  Responsive,        \* sockets whose peer answers a ping before the next one
  NoHello

ASSUME CounterAssumption == COUNTER_MAX \in Nat \ {0}
ASSUME ClockAssumption ==
  /\ HeartbeatInterval \in Nat \ {0} /\ StaleAfter \in Nat
  /\ Responsive \subseteq Socket
ASSUME HelloAssumption == NoHello \notin Hello

\* What handleMessage distinguishes. The first kinds carry their rejection code.
BadFrames == [type : {"invalid_json", "invalid_envelope", "invalid_hello",
                      "incompatible_protocol", "invalid_ack", "unexpected_ack",
                      "invalid_inspection", "missing_session_id"}]
Frames == BadFrames \cup [type : {"ack", "microstep"}]
            \cup [type : {"hello"}, hello : Hello]
            \cup [type : {"actor", "update"}, actor : LocalId]
ASSUME FrameAssumption ==
  /\ Sendable \subseteq Frames
  /\ CommandFailures \subseteq {"unsupportedCommands", "commandTimeouts"}

Rejections == {"invalid_json", "invalid_envelope", "invalid_hello",
               "incompatible_protocol", "invalid_ack", "unexpected_ack",
               "invalid_inspection", "missing_session_id", "capabilities_locked",
               "actor_not_registered", "transport_error"}

Keys == {"receivedFrames", "acceptedInspectionFrames", "rejectedFrames",
         "ignoredFrames", "transportErrors", "unsupportedCommands",
         "commandTimeouts"}

Counter == 0 .. COUNTER_MAX

VARIABLES
  connections,    \* sockets with a health record
  gone,           \* sockets whose record is gone
  negotiation, hello,
  counters,       \* per connection
  lastRejection,  \* per connection, "none" is null
  counts,         \* the aggregate counters
  totals,         \* accepted, closed and rejected connections
  actors,         \* actors each connection has registered
  quiet,          \* history: frames handled without a verdict counter
  departed,       \* history: what connections that are gone had counted when they
                  \* went, and what failed after it
  idle,           \* ticks since the last activity, up to StaleAfter
  sinceBeat,      \* ticks since the heartbeat timer ran
  pinged,         \* sockets with an unanswered ping
  closed          \* the registry is closed

connVars  == <<connections, gone>>
protoVars == <<negotiation, hello>>
countVars == <<counters, lastRejection, counts, quiet, departed>>
clockVars == <<idle, sinceBeat, pinged>>
vars == <<connVars, protoVars, countVars, totals, actors, clockVars, closed>>

Zero == [k \in Keys |-> 0]

TypeOK ==
  /\ connections \subseteq Socket /\ gone \subseteq Socket
  /\ negotiation \in
       [Socket -> {"awaiting_hello", "negotiated", "invalid", "incompatible"}]
  /\ hello \in [Socket -> Hello \cup {NoHello}]
  /\ counters \in [Socket -> [Keys -> Counter]]
  /\ lastRejection \in [Socket -> Rejections \cup {"none"}]
  /\ counts \in [Keys -> Counter]
  /\ totals \in [{"accepted", "closed", "rejected"} -> Counter]
  /\ actors \in [Socket -> SUBSET LocalId]
  /\ quiet \in [Socket -> Counter]
  /\ departed \in [Keys -> Counter]
  /\ idle \in [Socket -> 0 .. StaleAfter]
  /\ sinceBeat \in 0 .. HeartbeatInterval
  /\ pinged \subseteq Socket
  /\ closed \in BOOLEAN

Init ==
  /\ connections = {} /\ gone = {}
  /\ negotiation = [ws \in Socket |-> "awaiting_hello"]
  /\ hello = [ws \in Socket |-> NoHello]
  /\ counters = [ws \in Socket |-> Zero]
  /\ lastRejection = [ws \in Socket |-> "none"]
  /\ counts = Zero
  /\ totals = [t \in {"accepted", "closed", "rejected"} |-> 0]
  /\ actors = [ws \in Socket |-> {}]
  /\ quiet = [ws \in Socket |-> 0]
  /\ departed = Zero
  /\ idle = [ws \in Socket |-> 0]
  /\ sinceBeat = 0 /\ pinged = {}
  /\ closed = FALSE

-----------------------------------------------------------------------------
(* Counting *)

Increment(n) == IF n < COUNTER_MAX THEN n + 1 ELSE COUNTER_MAX

\* What a counter shows of n.
Saturated(n) == IF n < COUNTER_MAX THEN n ELSE COUNTER_MAX

Bump(c, keys) == [k \in Keys |-> IF k \in keys THEN Increment(c[k]) ELSE c[k]]

\* Variant of Count: nothing is counted for a connection without a record.
CountWithRecord(ws, keys) ==
  IF ws \in connections
  THEN counts' = Bump(counts, keys) /\ counters' = [counters EXCEPT ![ws] = Bump(@, keys)]
  ELSE UNCHANGED <<counts, counters>>

\* count(): in the aggregate always, on the connection while it has a record.
Count(ws, keys) ==
  /\ counts' = Bump(counts, keys)
  /\ counters' = IF ws \in connections
                   THEN [counters EXCEPT ![ws] = Bump(@, keys)] ELSE counters

\* Variant of KeyOf: transport errors are rejected frames.
KeyOfAny(reason) == "rejectedFrames"

\* The counter reject() uses.
KeyOf(reason) ==
  IF reason = "transport_error" THEN "transportErrors" ELSE "rejectedFrames"

NoteRejection(ws, reason) ==
  lastRejection' = IF ws \in connections
                     THEN [lastRejection EXCEPT ![ws] = reason]
                     ELSE lastRejection

\* activity()
Active(ws) ==
  idle' = IF ws \in connections THEN [idle EXCEPT ![ws] = 0] ELSE idle

-----------------------------------------------------------------------------
(* Sockets *)

\* connect()
Accept(ws) ==
  /\ ws \notin connections \cup gone /\ ~closed
  /\ connections' = connections \cup {ws}
  /\ totals' = [totals EXCEPT !["accepted"] = Increment(@)]
  /\ idle' = [idle EXCEPT ![ws] = 0]
  /\ UNCHANGED <<gone, protoVars, countVars, actors, sinceBeat, pinged, closed>>

\* rejectConnection(): the origin policy refused a socket.
RejectConnection ==
  /\ totals' = [totals EXCEPT !["rejected"] = Increment(@)]
  /\ UNCHANGED <<connVars, protoVars, countVars, actors, clockVars, closed>>

\* disconnect(): the record goes, the aggregates stay.
Disconnect(ws) ==
  /\ ws \in connections
  /\ connections' = connections \ {ws} /\ gone' = gone \cup {ws}
  /\ totals' = [totals EXCEPT !["closed"] = Increment(@)]
  /\ negotiation' = [negotiation EXCEPT ![ws] = "awaiting_hello"]
  /\ hello' = [hello EXCEPT ![ws] = NoHello]
  /\ counters' = [counters EXCEPT ![ws] = Zero]
  /\ lastRejection' = [lastRejection EXCEPT ![ws] = "none"]
  /\ actors' = [actors EXCEPT ![ws] = {}]
  /\ quiet' = [quiet EXCEPT ![ws] = 0]
  /\ departed' = [k \in Keys |-> Saturated(departed[k] + counters[ws][k])]
  /\ idle' = [idle EXCEPT ![ws] = 0]
  /\ pinged' = pinged \ {ws}
  /\ UNCHANGED <<counts, sinceBeat, closed>>

\* A socket error, or the failed callback of a ping or a hello response, which
\* may come when the record is already gone.
TransportError(ws) ==
  /\ ws \in connections \cup gone
  /\ Count(ws, {KeyOf("transport_error")})
  /\ NoteRejection(ws, "transport_error")
  /\ departed' = IF ws \in gone THEN [departed EXCEPT !["transportErrors"] = Increment(@)]
                 ELSE departed
  /\ UNCHANGED <<connVars, protoVars, quiet, totals, actors, clockVars, closed>>

\* sendEvent refuses a connection that has not negotiated send_event, or a
\* command of this connection times out.
CommandFails(ws, key) ==
  /\ ws \in connections /\ ~closed
  /\ key = "commandTimeouts" => hello[ws] # NoHello
  /\ Count(ws, {key})
  /\ UNCHANGED <<connVars, protoVars, lastRejection, quiet, departed, totals, actors,
                 clockVars, closed>>

-----------------------------------------------------------------------------
(* Frames *)

\* Variant of CanInspect: a refused hello does not stop inspection.
CanInspectAlways(ws) == TRUE

CanInspect(ws) == negotiation[ws] \notin {"incompatible", "invalid"}

\* handleMessage and negotiate(): the verdict on a frame, in the order of their
\* tests. "quiet" frames are handled and counted as received only.
Verdict(ws, f) ==
  CASE f.type \in {"invalid_json", "invalid_envelope", "invalid_hello",
                   "invalid_ack", "unexpected_ack"} -> f.type
    [] f.type = "incompatible_protocol" ->
         IF hello[ws] = NoHello THEN f.type ELSE "capabilities_locked"
    [] f.type = "hello" ->
         IF hello[ws] \in {NoHello, f.hello} THEN "quiet" ELSE "capabilities_locked"
    [] f.type = "ack" -> "quiet"
    [] OTHER ->
         IF ~CanInspect(ws) THEN "incompatible_protocol"
         ELSE IF f.type = "microstep" THEN "ignored"
         ELSE IF f.type \in {"invalid_inspection", "missing_session_id"} THEN f.type
         ELSE IF f.type = "actor"
           THEN IF f.actor \in actors[ws] THEN "quiet" ELSE "accepted"
         ELSE IF f.actor \in actors[ws] THEN "accepted" ELSE "actor_not_registered"

\* The counters a frame moves.
KeysOf(verdict) ==
  {"receivedFrames"} \cup
  (CASE verdict = "accepted" -> {"acceptedInspectionFrames"}
     [] verdict = "ignored" -> {"ignoredFrames"}
     [] verdict = "quiet" -> {}
     [] OTHER -> {KeyOf(verdict)})

\* negotiate(): only a connection without an accepted hello can become invalid
\* or incompatible.
Negotiate(ws, f, verdict) ==
  /\ hello' = IF f.type = "hello" /\ verdict = "quiet"
                THEN [hello EXCEPT ![ws] = f.hello] ELSE hello
  /\ negotiation' = [negotiation EXCEPT ![ws] =
       IF f.type = "hello" /\ verdict = "quiet" THEN "negotiated"
       ELSE IF f.type = "invalid_hello" /\ hello[ws] = NoHello THEN "invalid"
       ELSE IF f.type = "incompatible_protocol" /\ verdict = f.type
         THEN "incompatible"
       ELSE @]

\* The message listener: activity, the received count, then the verdict. An
\* acknowledgement that is expected answers a command, which needs a hello.
Handle(ws, f) ==
  LET verdict == Verdict(ws, f) IN
  /\ ws \in connections /\ ~closed
  /\ f.type = "ack" => hello[ws] # NoHello
  /\ Active(ws)
  /\ Count(ws, KeysOf(verdict))
  /\ IF verdict \in Rejections THEN NoteRejection(ws, verdict)
     ELSE UNCHANGED lastRejection
  /\ Negotiate(ws, f, verdict)
  /\ actors' = IF f.type = "actor" /\ verdict = "accepted"
                 THEN [actors EXCEPT ![ws] = @ \cup {f.actor}] ELSE actors
  /\ quiet' = IF verdict = "quiet"
                THEN [quiet EXCEPT ![ws] = Increment(@)] ELSE quiet
  /\ UNCHANGED <<connVars, departed, totals, sinceBeat, pinged, closed>>

\* clear_actors: the connections keep their records and their negotiation.
ClearActors ==
  /\ actors' = [ws \in Socket |-> {}]
  /\ UNCHANGED <<connVars, protoVars, countVars, totals, clockVars, closed>>

\* The registry closes: frames are no longer handled.
CloseRegistry ==
  /\ ~closed
  /\ closed' = TRUE
  /\ actors' = [ws \in Socket |-> {}]
  /\ UNCHANGED <<connVars, protoVars, countVars, totals, clockVars>>

-----------------------------------------------------------------------------
(* Time *)

\* Time passes while the event loop runs the heartbeat timer when it is due.
Tick ==
  /\ sinceBeat < HeartbeatInterval
  /\ sinceBeat' = sinceBeat + 1
  /\ idle' = [ws \in Socket |->
       IF ws \in connections /\ idle[ws] < StaleAfter THEN idle[ws] + 1
       ELSE idle[ws]]
  /\ UNCHANGED <<connVars, protoVars, countVars, totals, actors, pinged, closed>>

\* Variant of Heartbeat: connections without actors are not pinged.
HeartbeatWithActors ==
  /\ sinceBeat = HeartbeatInterval
  /\ pinged \cap Responsive = {}
  /\ sinceBeat' = 0
  /\ pinged' = {ws \in connections : actors[ws] # {}}
  /\ UNCHANGED <<connVars, protoVars, countVars, totals, actors, idle, closed>>

\* The heartbeat pings every open socket (one in its close handshake is not
\* pinged and counts as not responsive). A responsive peer has answered the
\* previous ping.
Heartbeat ==
  /\ sinceBeat = HeartbeatInterval
  /\ pinged \cap Responsive = {}
  /\ sinceBeat' = 0
  /\ pinged' = connections
  /\ UNCHANGED <<connVars, protoVars, countVars, totals, actors, idle, closed>>

\* A pong, or a ping of the peer's own.
Pong(ws) ==
  /\ ws \in connections
  /\ Active(ws)
  /\ pinged' = pinged \ {ws}
  /\ UNCHANGED <<connVars, protoVars, countVars, totals, actors, sinceBeat, closed>>

-----------------------------------------------------------------------------

SocketStep(ws) ==
  \/ Accept(ws) \/ Disconnect(ws) \/ TransportError(ws) \/ Pong(ws)
  \/ \E key \in CommandFailures : CommandFails(ws, key)
  \/ \E f \in Sendable : Handle(ws, f)

Next ==
  \/ \E ws \in Socket : SocketStep(ws)
  \/ RejectConnection \/ ClearActors \/ CloseRegistry
  \/ Tick \/ Heartbeat

Spec == Init /\ [][Next]_vars

-----------------------------------------------------------------------------
(* Safety *)

\* No frame is lost or counted twice: a connection's received frames are those
\* accepted, rejected or ignored, and the valid hellos, acknowledgements and
\* repeated registrations, which have no counter.
ReceivedBalance ==
  \A ws \in connections :
    LET c == counters[ws] IN
    c["receivedFrames"] < COUNTER_MAX =>
      c["receivedFrames"] = c["acceptedInspectionFrames"] + c["rejectedFrames"]
                              + c["ignoredFrames"] + quiet[ws]

\* A rejection is visible on its connection as long as the connection is: the
\* code is there exactly when a frame or the transport was counted as failed.
RejectionVisible ==
  \A ws \in connections :
    lastRejection[ws] # "none" <=>
      counters[ws]["rejectedFrames"] + counters[ws]["transportErrors"] > 0

\* What the health report says of a connection's frames; its counters stop at
\* the limit of the published schema.
FramesAccounted == TypeOK /\ ReceivedBalance /\ RejectionVisible

\* An aggregate is, up to the limit of a counter, what the connections that are there
\* have counted, what those that are gone had, and what failed after they went: a
\* connection that goes takes nothing along, an error reported after its record is gone
\* is counted once, and a connection that is gone has no record again.
Present(k) == MapThenSumSet(LAMBDA ws : counters[ws][k], connections)
AggregatesCover ==
  /\ \A k \in Keys : counts[k] = Saturated(Present(k) + departed[k])
  /\ \A ws \in Socket \ connections : counters[ws] = Zero /\ lastRejection[ws] = "none"

\* A peer that answers pings never looks stale, however quiet its actors are.
ResponsiveStaysFresh ==
  \A ws \in connections \cap Responsive : idle[ws] < StaleAfter

-----------------------------------------------------------------------------
(* Action properties *)

\* A connection whose hello was refused feeds nothing to the store until it
\* sends a valid one.
RefusedCannotInspect ==
  [][\A ws \in connections \cap connections' :
       negotiation[ws] \in {"invalid", "incompatible"} =>
         /\ actors'[ws] \subseteq actors[ws]
         /\ counters'[ws]["acceptedInspectionFrames"] =
              counters[ws]["acceptedInspectionFrames"]]_vars

=============================================================================
