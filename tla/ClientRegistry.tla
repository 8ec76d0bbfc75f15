--------------------------- MODULE ClientRegistry ---------------------------
(***************************************************************************)
(* The client registry (src/src/client-registry.ts) together with the       *)
(* parts of the WebSocket receiver (src/src/ws-server.ts) and of the        *)
(* protocol negotiation (src/src/connection-health.ts) that decide which    *)
(* socket owns which actor and who may settle which command.                *)
(*                                                                         *)
(* The process is single threaded: one JavaScript turn (a frame handler, a  *)
(* timer, a socket event, a tool call up to its first await) is one action. *)
(* What interleaves is the order of those turns: frames of several sockets, *)
(* send callbacks, five-second timers, close events, clear_actors, and the  *)
(* shutdown of the bridge.                                                  *)
(*                                                                         *)
(* Counters and timestamps of the health report, log lines and the text of  *)
(* errors are left out: no routing decision reads them.                     *)
(***************************************************************************)
EXTENDS Naturals, FiniteSets

CONSTANTS
  Socket,       \* WebSocket objects; each one lives once, a reconnect is another
  ConnId,       \* UUIDs the health record hands to accepted sockets
  LocalId,      \* XState session ids chosen by the applications
  Command,      \* calls of sendEvent; an accepted call's requestId is its name
  Event,        \* event types a caller may send
  Writable,     \* the event types the server's write policy allows
  Hello,        \* valid version-1 hello messages
  SendCapable,  \* those whose capabilities.commands include "send_event"
  EmbedderApi,  \* calls a host makes on the exposed store and registry
  MaxSessions,  \* bound: session objects ever created
  NoConn, NoSession, NoSocket, NoHello

SessionId == ConnId \X LocalId

\* A Session object. "object" is its identity: === compares it, and a session
\* registered again after a clear has the same id and another object.
Session == [id : SessionId, client : Socket, object : 1 .. MaxSessions]

\* Host calls on the exposed ActorStore and ClientRegistry that the bridge
\* itself never makes on their own.
ApiCalls == {"removeActor", "registryClear"}

\* The sentinels are no values of the sets they extend.
ASSUME SentinelAssumption ==
  /\ NoConn \notin ConnId
  /\ NoSession \notin Session
  /\ NoSocket \notin Socket
  /\ NoHello \notin Hello

\* Capability and policy subsets, the host calls explored, and the bound.
ASSUME ParameterAssumption ==
  /\ SendCapable \subseteq Hello
  /\ Writable \subseteq Event
  /\ EmbedderApi \subseteq ApiCalls
  /\ MaxSessions \in Nat

VARIABLES
  readyState,        \* ws.readyState of each socket
  connection,        \* connections: socket -> connectionId
  minted,            \* connection ids ever handed out
  hello,             \* the accepted hello of each connection
  negotiation,       \* its negotiation state
  sessions,          \* sessions: sessionId -> Session object
  clientToSessions,  \* clientToSessions: socket -> set of sessionIds
  created,           \* session objects created so far
  actors,            \* the store's records: sessionId -> record.connectionId
  pending,           \* pending: requestId -> Session object it was routed by
  timers,            \* requests whose timeout is armed
  sending,           \* requests whose ws.send callback has not run
  outcome,           \* what each call's promise is or resolved with
  sent,              \* the frame each request put on the wire
  answeredBy,        \* history: the socket whose answer settled the request
  closed             \* closed

netVars  == <<readyState, connection, minted>>
protVars == <<hello, negotiation>>
ownVars  == <<sessions, clientToSessions, created, actors>>
reqVars  == <<pending, timers, sending, outcome, sent, answeredBy>>
vars == <<netVars, protVars, ownVars, reqVars, closed>>

Answers  == {"acknowledged", "rejected"}
Failures == {"timeout", "send_failed", "disconnected", "cleared", "shutdown"}
Outcomes == {"idle", "waiting", "refused"} \cup Answers \cup Failures

TypeOK ==
  /\ readyState \in [Socket -> {"unopened", "open", "closing", "closed"}]
  /\ connection \in [Socket -> ConnId \cup {NoConn}]
  /\ minted \subseteq ConnId
  /\ hello \in [Socket -> Hello \cup {NoHello}]
  /\ negotiation \in
       [Socket -> {"awaiting_hello", "negotiated", "invalid", "incompatible"}]
  /\ sessions \in [SessionId -> Session \cup {NoSession}]
  /\ clientToSessions \in [Socket -> SUBSET SessionId]
  /\ created \in 0 .. MaxSessions
  /\ actors \in [SessionId -> ConnId \cup {NoConn}]
  /\ pending \in [Command -> Session \cup {NoSession}]
  /\ timers \subseteq Command
  /\ sending \subseteq Command
  /\ outcome \in [Command -> Outcomes]
  /\ sent \in [Command -> Session \cup {NoSession}]
  /\ answeredBy \in [Command -> Socket \cup {NoSocket}]
  /\ closed \in BOOLEAN

Init ==
  /\ readyState = [ws \in Socket |-> "unopened"]
  /\ connection = [ws \in Socket |-> NoConn]
  /\ minted = {}
  /\ hello = [ws \in Socket |-> NoHello]
  /\ negotiation = [ws \in Socket |-> "awaiting_hello"]
  /\ sessions = [sid \in SessionId |-> NoSession]
  /\ clientToSessions = [ws \in Socket |-> {}]
  /\ created = 0
  /\ actors = [sid \in SessionId |-> NoConn]
  /\ pending = [r \in Command |-> NoSession]
  /\ timers = {}
  /\ sending = {}
  /\ outcome = [r \in Command |-> "idle"]
  /\ sent = [r \in Command |-> NoSession]
  /\ answeredBy = [r \in Command |-> NoSocket]
  /\ closed = FALSE

-----------------------------------------------------------------------------
(* Helpers *)

\* The requests the registry still waits for.
Pending == {r \in Command : pending[r] # NoSession}

\* Variant of PendingOf: a disconnect fails every command in flight.
PendingOfAnyone(ws) == Pending

PendingOf(ws) == {r \in Pending : pending[r].client = ws}

LiveConns == {connection[ws] : ws \in Socket} \ {NoConn}

\* Variant of Settle: no check that the request is still in the map.
SettleAgain(S, expired, why) ==
  /\ pending' = [r \in Command |-> IF r \in S THEN NoSession ELSE pending[r]]
  /\ timers' = timers \ (S \cup expired)
  /\ outcome' = [r \in Command |->
                   IF r \in S /\ outcome[r] # "idle" THEN why ELSE outcome[r]]

\* settle(): only a request still in the map is resolved, and its timer goes
\* with it. "expired" are the timers whose callback is running.
Settle(S, expired, why) ==
  LET live == S \cap Pending IN
  /\ pending' = [r \in Command |-> IF r \in live THEN NoSession ELSE pending[r]]
  /\ timers' = timers \ (live \cup expired)
  /\ outcome' = [r \in Command |-> IF r \in live THEN why ELSE outcome[r]]

\* Variant of Receives: frames are still handled after close.
ReceivesWhenClosed(ws) ==
  connection[ws] # NoConn /\ readyState[ws] \in {"open", "closing"}

\* The message listener of an accepted socket handles the frame. Frames
\* buffered before the socket failed are still delivered while it is closing.
Receives(ws) ==
  /\ connection[ws] # NoConn
  /\ readyState[ws] \in {"open", "closing"}
  /\ ~closed

CanInspect(ws) == negotiation[ws] \notin {"incompatible", "invalid"}

\* Variant of DropRoutes: routes are dropped under waiting requests.
DropRoutesOnly(why) ==
  /\ sessions' = [sid \in SessionId |-> NoSession]
  /\ clientToSessions' = [ws \in Socket |-> {}]
  /\ UNCHANGED <<pending, timers, outcome>>

\* clear(): every request is settled, every route dropped; connections stay.
DropRoutes(why) ==
  /\ Settle(Command, {}, why)
  /\ sessions' = [sid \in SessionId |-> NoSession]
  /\ clientToSessions' = [ws \in Socket |-> {}]

-----------------------------------------------------------------------------
(* Sockets *)

\* The connection listener: registerClient and health.connect mint a fresh id.
Accept(ws, c) ==
  /\ readyState[ws] = "unopened"
  /\ ~closed
  /\ c \notin minted
  /\ readyState' = [readyState EXCEPT ![ws] = "open"]
  /\ connection' = [connection EXCEPT ![ws] = c]
  /\ minted' = minted \cup {c}
  /\ UNCHANGED <<protVars, ownVars, reqVars, closed>>

\* A socket arriving once the registry is closed is terminated unregistered.
TerminateLateSocket(ws) ==
  /\ readyState[ws] = "unopened"
  /\ closed
  /\ readyState' = [readyState EXCEPT ![ws] = "closed"]
  /\ UNCHANGED <<connection, minted, protVars, ownVars, reqVars, closed>>

\* The peer closes or the transport fails: readyState leaves OPEN before the
\* close event is emitted.
BeginClose(ws) ==
  /\ readyState[ws] = "open"
  /\ readyState' = [readyState EXCEPT ![ws] = "closing"]
  /\ UNCHANGED <<connection, minted, protVars, ownVars, reqVars, closed>>

\* Variant of RemoveClient: it is called without the store.
RemoveClientWithoutStore(ws) ==
  /\ readyState[ws] = "closing"
  /\ readyState' = [readyState EXCEPT ![ws] = "closed"]
  /\ Settle(PendingOf(ws), {}, "disconnected")
  /\ sessions' = [sid \in SessionId |->
                    IF sid \in clientToSessions[ws] THEN NoSession
                    ELSE sessions[sid]]
  /\ clientToSessions' = [clientToSessions EXCEPT ![ws] = {}]
  /\ connection' = [connection EXCEPT ![ws] = NoConn]
  /\ hello' = [hello EXCEPT ![ws] = NoHello]
  /\ negotiation' = [negotiation EXCEPT ![ws] = "awaiting_hello"]
  /\ UNCHANGED <<minted, created, actors, sending, sent, answeredBy, closed>>

\* The close event: removeClient settles the socket's requests, then drops its
\* sessions and the store records that belong to its connection.
RemoveClient(ws) ==
  LET gone == {sid \in clientToSessions[ws] :
                 sessions[sid] # NoSession /\ sessions[sid].client = ws}
  IN
  /\ readyState[ws] = "closing"
  /\ readyState' = [readyState EXCEPT ![ws] = "closed"]
  /\ Settle(PendingOf(ws), {}, "disconnected")
  /\ sessions' = [sid \in SessionId |->
                    IF sid \in gone THEN NoSession ELSE sessions[sid]]
  /\ actors' = [sid \in SessionId |->
                  IF sid \in gone /\ actors[sid] = connection[ws]
                    THEN NoConn ELSE actors[sid]]
  /\ clientToSessions' = [clientToSessions EXCEPT ![ws] = {}]
  /\ connection' = [connection EXCEPT ![ws] = NoConn]
  /\ hello' = [hello EXCEPT ![ws] = NoHello]
  /\ negotiation' = [negotiation EXCEPT ![ws] = "awaiting_hello"]
  /\ UNCHANGED <<minted, created, sending, sent, answeredBy, closed>>

-----------------------------------------------------------------------------
(* Frames from an application *)

\* Variant of RejectHello: a bad hello revokes an accepted one.
RejectHelloAlways(ws, verdict) ==
  /\ Receives(ws)
  /\ negotiation' = [negotiation EXCEPT ![ws] = verdict]
  /\ UNCHANGED <<netVars, hello, ownVars, reqVars, closed>>

\* negotiate(): a hello that fails validation, or offers another version, only
\* marks a connection that has no accepted hello yet.
RejectHello(ws, verdict) ==
  /\ Receives(ws)
  /\ hello[ws] = NoHello
  /\ verdict \in {"invalid", "incompatible"}
  /\ negotiation' = [negotiation EXCEPT ![ws] = verdict]
  /\ UNCHANGED <<netVars, hello, ownVars, reqVars, closed>>

\* A valid hello: the first is kept, an identical one is idempotent, and a
\* different one is answered capabilities_locked and changes nothing.
AcceptHello(ws, h) ==
  /\ Receives(ws)
  /\ hello[ws] \in {NoHello, h}
  /\ hello' = [hello EXCEPT ![ws] = h]
  /\ negotiation' = [negotiation EXCEPT ![ws] = "negotiated"]
  /\ UNCHANGED <<netVars, ownVars, reqVars, closed>>

\* @xstate.actor: registerSession keeps an existing session; the store gets a
\* record only when it has none for that id.
RegisterActor(ws, local) ==
  LET sid   == <<connection[ws], local>>
      fresh == [id |-> sid, client |-> ws, object |-> created + 1]
  IN
  /\ Receives(ws)
  /\ CanInspect(ws)
  /\ IF sessions[sid] = NoSession
       THEN /\ created < MaxSessions
            /\ created' = created + 1
            /\ sessions' = [sessions EXCEPT ![sid] = fresh]
            /\ clientToSessions' =
                 [clientToSessions EXCEPT ![ws] = @ \cup {sid}]
       ELSE UNCHANGED <<created, sessions, clientToSessions>>
  /\ actors' = IF actors[sid] = NoConn
                 THEN [actors EXCEPT ![sid] = connection[ws]]
                 ELSE actors
  /\ UNCHANGED <<netVars, protVars, reqVars, closed>>

\* xstate-mcp.send.response: the answer counts only on the socket the request
\* was routed to, and only while that very session object is registered.
\* Every other answer (late, repeated, from another socket) is counted and dropped.
HandleResponse(ws, r, answer) ==
  /\ Receives(ws)
  /\ r \in Pending
  /\ pending[r].client = ws
  /\ sessions[pending[r].id] = pending[r]
  /\ answer \in Answers
  /\ Settle({r}, {}, answer)
  /\ answeredBy' = [answeredBy EXCEPT ![r] = ws]
  /\ UNCHANGED <<netVars, protVars, ownVars, sending, sent, closed>>

-----------------------------------------------------------------------------
(* Commands *)

\* The conditions under which sendEvent puts a command on the wire.
Routable(sid, event) ==
  /\ ~closed
  /\ event \in Writable
  /\ sessions[sid] # NoSession
  /\ readyState[sessions[sid].client] = "open"
  /\ hello[sessions[sid].client] \in SendCapable

\* sendEvent resolves at once with an error; nothing is sent or armed.
RefuseEvent(r, sid, event) ==
  /\ outcome[r] = "idle"
  /\ ~Routable(sid, event)
  /\ outcome' = [outcome EXCEPT ![r] = "refused"]
  /\ UNCHANGED <<netVars, protVars, ownVars, pending, timers, sending, sent,
                 answeredBy, closed>>

\* Variant of SendEvent: no timer is armed.
SendEventUntimed(r, sid, event) ==
  /\ outcome[r] = "idle"
  /\ Routable(sid, event)
  /\ outcome' = [outcome EXCEPT ![r] = "waiting"]
  /\ pending' = [pending EXCEPT ![r] = sessions[sid]]
  /\ sent' = [sent EXCEPT ![r] = sessions[sid]]
  /\ sending' = sending \cup {r}
  /\ UNCHANGED <<netVars, protVars, ownVars, timers, answeredBy, closed>>

\* sendEvent arms the timer, binds the session and sends on its socket.
SendEvent(r, sid, event) ==
  /\ outcome[r] = "idle"
  /\ Routable(sid, event)
  /\ outcome' = [outcome EXCEPT ![r] = "waiting"]
  /\ pending' = [pending EXCEPT ![r] = sessions[sid]]
  /\ sent' = [sent EXCEPT ![r] = sessions[sid]]
  /\ timers' = timers \cup {r}
  /\ sending' = sending \cup {r}
  /\ UNCHANGED <<netVars, protVars, ownVars, answeredBy, closed>>

\* The ws.send callback with an error, whenever it comes.
SendFailed(r) ==
  /\ r \in sending
  /\ sending' = sending \ {r}
  /\ Settle({r}, {}, "send_failed")
  /\ UNCHANGED <<netVars, protVars, ownVars, sent, answeredBy, closed>>

\* The ws.send callback without an error.
SendFlushed(r) ==
  /\ r \in sending
  /\ sending' = sending \ {r}
  /\ UNCHANGED <<netVars, protVars, ownVars, pending, timers, outcome, sent,
                 answeredBy, closed>>

\* The timeoutMs timer of a request fires.
Timeout(r) ==
  /\ r \in timers
  /\ Settle({r}, {r}, "timeout")
  /\ UNCHANGED <<netVars, protVars, ownVars, sending, sent, answeredBy, closed>>

-----------------------------------------------------------------------------
(* Store and shutdown *)

\* clear_actors, or a host's store.clear(): the store empties itself, then its
\* onCleared callback clears the registry in the same turn.
ClearStore ==
  /\ actors' = [sid \in SessionId |-> NoConn]
  /\ DropRoutes("cleared")
  /\ UNCHANGED <<netVars, protVars, created, sending, sent, answeredBy, closed>>

\* A host removes one record from the exposed store; its session stays.
HostRemovesActor(sid) ==
  /\ "removeActor" \in EmbedderApi
  /\ actors[sid] # NoConn
  /\ actors' = [actors EXCEPT ![sid] = NoConn]
  /\ UNCHANGED <<netVars, protVars, sessions, clientToSessions, created,
                 reqVars, closed>>

\* A host clears the exposed registry without clearing the store.
HostClearsRegistry ==
  /\ "registryClear" \in EmbedderApi
  /\ DropRoutes("cleared")
  /\ UNCHANGED <<netVars, protVars, created, actors, sending, sent, answeredBy,
                 closed>>

\* The synchronous part of the bridge's shutdown(): the registry closes, the
\* store is cleared, every open socket is asked to close.
Shutdown ==
  /\ ~closed
  /\ closed' = TRUE
  /\ actors' = [sid \in SessionId |-> NoConn]
  /\ DropRoutes("shutdown")
  /\ readyState' = [ws \in Socket |->
                      IF readyState[ws] = "open" THEN "closing"
                      ELSE readyState[ws]]
  /\ UNCHANGED <<connection, minted, protVars, created, sending, sent,
                 answeredBy>>

-----------------------------------------------------------------------------

SocketStep(ws) ==
  \/ \E c \in ConnId : Accept(ws, c)
  \/ TerminateLateSocket(ws)
  \/ BeginClose(ws)
  \/ RemoveClient(ws)
  \/ \E verdict \in {"invalid", "incompatible"} : RejectHello(ws, verdict)
  \/ \E h \in Hello : AcceptHello(ws, h)
  \/ \E local \in LocalId : RegisterActor(ws, local)
  \/ \E r \in Command, answer \in Answers : HandleResponse(ws, r, answer)

CommandStep(r) ==
  \/ \E sid \in SessionId, event \in Event :
       RefuseEvent(r, sid, event) \/ SendEvent(r, sid, event)
  \/ SendFailed(r)
  \/ SendFlushed(r)
  \/ Timeout(r)

HostStep ==
  \/ ClearStore
  \/ \E sid \in SessionId : HostRemovesActor(sid)
  \/ HostClearsRegistry
  \/ Shutdown

Next ==
  \/ \E ws \in Socket : SocketStep(ws)
  \/ \E r \in Command : CommandStep(r)
  \/ HostStep

\* The event loop runs every expired timer, and a closing socket reports its
\* close event at the latest when ws's own close timeout destroys it.
Fairness ==
  /\ \A r \in Command : WF_vars(Timeout(r))
  /\ \A ws \in Socket : WF_vars(RemoveClient(ws))

SafeSpec == Init /\ [][Next]_vars
Spec == SafeSpec /\ Fairness

-----------------------------------------------------------------------------
(* Safety *)

\* A request in the map is always bound to the session object registered right
\* now: whatever drops a session (disconnect, clear, shutdown) settles its
\* requests in the same turn, so no answer can reach a re-registered session.
PendingRouted ==
  \A r \in Pending : sessions[pending[r].id] = pending[r]

\* The promise, the map entry and the timer of a request come and go together:
\* no unresolved promise is forgotten and no timer outlives its request.
OneTimerPerWaiter ==
  /\ timers = Pending
  /\ \A r \in Command : outcome[r] = "waiting" <=> r \in Pending

\* The two ownership maps agree after any order of register, clear, disconnect.
IndexAgrees ==
  \A ws \in Socket :
    clientToSessions[ws] =
      {sid \in SessionId :
         sessions[sid] # NoSession /\ sessions[sid].client = ws}

\* A session belongs to the live connection its id names, never to another
\* socket: two tabs with equal local ids cannot reach each other's actors.
SessionsOwned ==
  \A sid \in SessionId : sessions[sid] # NoSession =>
    /\ sessions[sid].id = sid
    /\ connection[sessions[sid].client] = sid[1]

\* No record outlives its owner: every stored actor has a session, hence a
\* live connection, so a disconnect or a clear leaves no orphan behind.
ActorsOwned ==
  \A sid \in SessionId : actors[sid] # NoConn =>
    sessions[sid] # NoSession /\ actors[sid] = sid[1]

\* Who owns what, after any order of frames, closes and clears. A host that
\* clears the registry alone takes the store upon itself.
Ownership ==
  /\ SessionsOwned
  /\ IndexAgrees
  /\ "registryClear" \notin EmbedderApi => ActorsOwned

\* An application answered only requests that were sent to that very socket.
AnsweredByTarget ==
  \A r \in Command : answeredBy[r] # NoSocket =>
    /\ sent[r] # NoSession
    /\ sent[r].client = answeredBy[r]
    /\ outcome[r] \in Answers

\* A command in flight always has a peer that negotiated send_event: the
\* accepted hello is locked while anything depends on it.
WriterNegotiated ==
  \A r \in Pending : hello[pending[r].client] \in SendCapable

\* What a command in flight is bound to: the session registered now, one timer,
\* a peer that can answer; and an answer came from the socket it was sent to.
CommandsBound ==
  /\ PendingRouted
  /\ OneTimerPerWaiter
  /\ WriterNegotiated
  /\ AnsweredByTarget

\* Once closed, the registry and the store hold nothing, whatever frames,
\* timers, callbacks and clears still arrive.
ClosedIsEmpty ==
  closed => /\ Pending = {} /\ timers = {}
            /\ \A sid \in SessionId :
                 sessions[sid] = NoSession /\ actors[sid] = NoConn

-----------------------------------------------------------------------------
(* Action properties *)

\* A promise is resolved once: no later answer, timeout, send error, clear or
\* disconnect changes what a caller was told.
SettledOnce ==
  [][\A r \in Command :
       outcome[r] \notin {"idle", "waiting"} => outcome'[r] = outcome[r]]_vars

\* A disconnect touches only its own connection's actors, routes and requests.
DisconnectIsLocal ==
  [][\A ws \in Socket : connection[ws] # NoConn /\ connection'[ws] = NoConn =>
       /\ \A sid \in SessionId : sid[1] # connection[ws] =>
            /\ sessions'[sid] = sessions[sid]
            /\ actors'[sid] = actors[sid]
       /\ \A r \in Pending : pending[r].client # ws =>
            pending'[r] = pending[r]]_vars

\* A connection id that has ended is never live again: public actor ids are
\* not reused by a reconnect.
ConnectionIdsNotReused ==
  [][\A c \in minted \ LiveConns : c \notin LiveConns']_vars

\* An accepted handshake stays in effect, unchanged, until the socket goes.
HandshakeLocked ==
  [][\A ws \in Socket : hello[ws] # NoHello /\ connection'[ws] # NoConn =>
       /\ hello'[ws] = hello[ws]
       /\ negotiation'[ws] = "negotiated"]_vars

=============================================================================
