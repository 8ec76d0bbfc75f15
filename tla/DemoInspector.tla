----------------------------- MODULE DemoInspector -----------------------------
(***************************************************************************)
(* The application's side of the protocol: the adapter of the frontend      *)
(* example (src/examples/frontend/src/demo-inspector.ts) and the button of  *)
(* its page (main.ts). The browser's WebSocket, the bridge and the XState   *)
(* actors of the page are its environment.                                  *)
(*                                                                          *)
(* A socket's name also stands for the epoch UUID minted with it; a name is *)
(* used again only when nothing refers to its former bearer.                *)
(***************************************************************************)
EXTENDS Integers, Sequences, FiniteSets

CONSTANTS
  Socket,       \* bound: sockets that exist at one time
  NoSocket,     \* undefined
  Actor,        \* the page's actors, spawned in the order of this sequence
  RecentLimit,  \* 50: captured events kept while there is no connection
  MaxEvents,    \* bound: events the actors receive
  MaxInbox      \* bound: messages of the bridge under way on one socket

ASSUME NoSocketAssumption == NoSocket \notin Socket
ASSUME RecentAssumption == RecentLimit \in Nat \ {0}

VARIABLES
  ws, epoch, negotiated, retry,
  negotiationDeadline,  \* the socket whose deadline is armed, or NoSocket
  disposed, paused, rejected,
  actors,       \* tracked actors, a prefix of Actor
  recent,       \* captured events, numbered, with their actors, waiting for a connection
  label,        \* the last state given to onConnection
  reconnectButton,  \* main.ts: the button offers to reconnect
  socket,       \* the browser's socket objects: readyState, "gone" after the close event
  inbox,        \* messages of the bridge per socket, oldest first
  known,        \* wire ids the bridge has been told of, per socket
  stray,        \* the bridge got an update of an actor it was not told of
  asked,        \* sockets whose hello the bridge has not dealt with
  bridge,       \* "up", "down", "mute" (accepts, never answers), "foreign" (answers badly)
  captured,     \* number of events the actors have received
  delivered     \* the events handed to a socket, in that order

adapter == <<ws, epoch, negotiated, retry, negotiationDeadline, disposed, paused, rejected>>
page == <<label, reconnectButton>>
data == <<actors, recent, known, stray, captured, delivered>>
net == <<socket, inbox, asked, bridge>>
vars == <<adapter, page, data, net>>

Actors == {Actor[i] : i \in DOMAIN Actor}
ASSUME ActorAssumption == Actor \in Seq(Actors)
ASSUME BoundAssumption == MaxEvents \in Nat /\ MaxInbox \in Nat

ReadyState == {"gone", "connecting", "open", "closing"}
Message == {"accept", "refuse", "command", "forbidden"}

TypeOK ==
  /\ {ws, epoch, negotiationDeadline} \subseteq Socket \cup {NoSocket}
  /\ {negotiated, retry, disposed, paused, rejected} \subseteq BOOLEAN
  /\ {stray, reconnectButton} \subseteq BOOLEAN
  /\ actors \in 0 .. Len(Actor) /\ captured \in 0 .. MaxEvents
  /\ recent \in Seq((1 .. MaxEvents) \X Actors) /\ Len(recent) <= RecentLimit
  /\ delivered \in Seq(1 .. MaxEvents)
  /\ label \in {"none", "connecting", "connected", "disconnected", "rejected"}
  /\ socket \in [Socket -> ReadyState] /\ asked \subseteq Socket
  /\ inbox \in [Socket -> Seq(Message)]
  /\ known \in [Socket -> SUBSET (Socket \X Actors)]
  /\ bridge \in {"up", "down", "mute", "foreign"}

Init ==
  /\ ws = NoSocket /\ epoch = NoSocket
  /\ negotiated = FALSE /\ retry = FALSE /\ negotiationDeadline = NoSocket
  /\ disposed = FALSE /\ paused = FALSE /\ rejected = FALSE
  /\ actors = 0 /\ recent = <<>> /\ captured = 0 /\ delivered = <<>>
  /\ label = "none" /\ reconnectButton = FALSE
  /\ socket = [s \in Socket |-> "gone"] /\ inbox = [s \in Socket |-> <<>>]
  /\ known = [s \in Socket |-> {}] /\ stray = FALSE /\ asked = {}
  /\ bridge \in {"up", "down"}

-----------------------------------------------------------------------------
(* Frames. *)

Live(s) == s # NoSocket /\ socket[s] \in {"connecting", "open"}
Open(s) == s # NoSocket /\ socket[s] = "open"
Emits == negotiated /\ Open(ws)

wireId(a) == <<epoch, a>>
Tracked == {Actor[i] : i \in 1 .. actors}

\* WebSocket.close() on a socket that may be undefined.
Closed(s) == [t \in Socket |-> IF t = s /\ Live(t) THEN "closing" ELSE socket[t]]

\* What the bridge learns from frames sent on ws: registrations, then updates.
Sends(registered, updated) ==
  LET told == known[ws] \cup {wireId(a) : a \in registered}
  IN  /\ known' = [known EXCEPT ![ws] = told]
      /\ stray' = (stray \/ \E a \in updated : wireId(a) \notin told)

emit(registered, updated) ==
  IF Emits THEN Sends(registered, updated) ELSE UNCHANGED <<known, stray>>

\* Variant of capture: events are kept only while no socket is open.
CaptureWhenClosed(a) ==
  /\ captured' = captured + 1
  /\ emit({}, {a})
  /\ delivered' = IF Emits THEN Append(delivered, captured + 1) ELSE delivered
  /\ recent' = IF Open(ws) THEN recent
               ELSE Append(IF Len(recent) = RecentLimit THEN Tail(recent) ELSE recent,
                           <<captured + 1, a>>)

\* An event of actor a: sent at once, or kept while there is no connection.
capture(a) ==
  /\ captured' = captured + 1
  /\ emit({}, {a})
  /\ IF Emits
     THEN delivered' = Append(delivered, captured + 1) /\ UNCHANGED recent
     ELSE /\ recent' = Append(IF Len(recent) = RecentLimit THEN Tail(recent) ELSE recent,
                              <<captured + 1, a>>)
          /\ UNCHANGED delivered

\* inspect(), called by XState for the actors of this page.
InspectActor ==
  /\ ~disposed /\ actors < Len(Actor)
  /\ actors' = actors + 1
  /\ emit({Actor[actors + 1]}, {})
  /\ UNCHANGED <<adapter, page, net, recent, captured, delivered>>

InspectSnapshot(a) ==
  /\ ~disposed /\ a \in Tracked
  /\ emit({}, {a})
  /\ UNCHANGED <<adapter, page, net, actors, recent, captured, delivered>>

InspectEvent(a) ==
  /\ ~disposed /\ a \in Tracked /\ captured < MaxEvents
  /\ capture(a)
  /\ UNCHANGED <<adapter, page, net, actors>>

-----------------------------------------------------------------------------
(* Connecting. *)

Refused == disposed \/ paused \/ rejected

\* connect() past its guard: s is the new socket, or only the new epoch when
\* the constructor throws, and "sockets", "current" and "button" what the caller
\* has made of socket, ws and the button.
Construct(s, sockets, current, button) ==
  /\ socket[s] = "gone" /\ epoch' = s
  /\ retry' = FALSE /\ negotiationDeadline' = NoSocket /\ negotiated' = FALSE
  /\ inbox' = [inbox EXCEPT ![s] = <<>>] /\ known' = [known EXCEPT ![s] = {}]
  /\ asked' = asked \ {s}
  /\ \/ /\ socket' = [sockets EXCEPT ![s] = "connecting"] /\ ws' = s
        /\ rejected' = FALSE /\ label' = "connecting" /\ reconnectButton' = button
     \/ /\ socket' = sockets /\ ws' = current
        /\ rejected' = TRUE /\ label' = "rejected" /\ reconnectButton' = TRUE

connect ==
  /\ ~Refused /\ ~Live(ws)
  /\ \E s \in Socket : Construct(s, socket, ws, reconnectButton)
  /\ UNCHANGED <<disposed, paused, actors, recent, stray, captured, delivered, bridge>>

\* The page loads: main.ts calls connect() once.
Load == label = "none" /\ connect

\* The retry timer. Once it has run, connect() looks at everything again.
Retry ==
  /\ retry
  /\ \/ connect
     \/ /\ Refused \/ Live(ws)
        /\ retry' = FALSE
        /\ UNCHANGED <<ws, epoch, negotiated, negotiationDeadline, disposed, paused, rejected,
                       page, data, net>>

\* Variant of OnOpen: no limit on the negotiation.
OnOpenUntimed(s) ==
  /\ socket[s] = "connecting" /\ bridge # "down"
  /\ IF s # ws \/ disposed \/ paused
     THEN socket' = [socket EXCEPT ![s] = "closing"] /\ UNCHANGED asked
     ELSE socket' = [socket EXCEPT ![s] = "open"] /\ asked' = asked \cup {s}
  /\ UNCHANGED <<adapter, page, data, inbox, bridge>>

\* The open listener: hello is sent and the deadline armed.
OnOpen(s) ==
  /\ socket[s] = "connecting" /\ bridge # "down"
  /\ IF s # ws \/ disposed \/ paused
     THEN socket' = [socket EXCEPT ![s] = "closing"] /\ UNCHANGED <<negotiationDeadline, asked>>
     ELSE /\ socket' = [socket EXCEPT ![s] = "open"]
          /\ negotiationDeadline' = s
          /\ asked' = asked \cup {s}
  /\ UNCHANGED <<ws, epoch, negotiated, retry, disposed, paused, rejected, page, data, inbox, bridge>>

DeadlineFires ==
  /\ negotiationDeadline # NoSocket /\ negotiationDeadline' = NoSocket
  /\ socket' = IF negotiationDeadline = ws /\ ~negotiated THEN Closed(ws) ELSE socket
  /\ UNCHANGED <<ws, epoch, negotiated, retry, disposed, paused, rejected, page, data, inbox, asked, bridge>>

\* Variant of Accepted: the kept events go out ahead of the registrations.
AcceptedReplayFirst ==
  /\ negotiated' = TRUE /\ negotiationDeadline' = NoSocket /\ label' = "connected"
  /\ known' = [known EXCEPT ![ws] = @ \cup {wireId(a) : a \in Tracked}]
  /\ stray' = (stray \/ \E i \in DOMAIN recent : wireId(recent[i][2]) \notin known[ws])
  /\ delivered' = delivered \o [i \in DOMAIN recent |-> recent[i][1]]
  /\ recent' = <<>>
  /\ UNCHANGED <<rejected, reconnectButton, socket, captured>>

\* hello.response: the first one that comes decides. Accepted registers what is
\* tracked and sends what was kept.
Accepted ==
  /\ negotiated' = TRUE /\ negotiationDeadline' = NoSocket /\ label' = "connected"
  /\ Sends(Tracked, {recent[i][2] : i \in DOMAIN recent})
  /\ delivered' = delivered \o [i \in DOMAIN recent |-> recent[i][1]]
  /\ recent' = <<>>
  /\ UNCHANGED <<rejected, reconnectButton, socket, captured>>

Rejects ==
  /\ rejected' = TRUE /\ negotiationDeadline' = NoSocket
  /\ label' = "rejected" /\ reconnectButton' = TRUE
  /\ socket' = Closed(ws)
  /\ UNCHANGED <<negotiated, known, stray, delivered, recent, captured>>

\* handleCommand: of a permitted event the document tells the inspector while it
\* takes it, ahead of the answer. The others are only answered.
HandleCommand(permitted) ==
  /\ IF permitted /\ Actor[Len(Actor)] \in Tracked /\ captured < MaxEvents
     THEN capture(Actor[Len(Actor)])
     ELSE UNCHANGED <<known, stray, delivered, recent, captured>>
  /\ UNCHANGED <<negotiated, negotiationDeadline, label, rejected, reconnectButton, socket>>

Ignored == UNCHANGED <<negotiated, negotiationDeadline, label, rejected, reconnectButton, socket,
                       known, stray, delivered, recent, captured>>

\* The message listener. The browser drops what arrives on a socket that closes.
OnMessage(s) ==
  /\ inbox[s] # <<>> /\ inbox' = [inbox EXCEPT ![s] = Tail(@)]
  /\ LET m == Head(inbox[s])
         answer == m \in {"accept", "refuse"}
     IN  IF ~Open(s) \/ s # ws \/ disposed \/ paused \/ (answer <=> negotiated) THEN Ignored
         ELSE IF m = "accept" THEN Accepted
         ELSE IF m = "refuse" THEN Rejects
         ELSE HandleCommand(m = "command")
  /\ UNCHANGED <<ws, epoch, retry, disposed, paused, actors, asked, bridge>>

\* Variant of OnClose: the close of a replaced socket counts too.
OnCloseOfAny(s) ==
  /\ socket[s] = "closing" /\ socket' = [socket EXCEPT ![s] = "gone"]
  /\ ~disposed
  /\ ws' = NoSocket /\ negotiated' = FALSE /\ negotiationDeadline' = NoSocket
  /\ label' = IF rejected THEN label ELSE "disconnected"
  /\ retry' = (retry \/ ~(rejected \/ paused))
  /\ UNCHANGED <<epoch, disposed, paused, rejected, reconnectButton, data, inbox, asked, bridge>>

\* The close listener.
OnClose(s) ==
  /\ socket[s] = "closing" /\ socket' = [socket EXCEPT ![s] = "gone"]
  /\ IF s # ws \/ disposed
     THEN UNCHANGED <<ws, negotiated, retry, negotiationDeadline, label>>
     ELSE /\ ws' = NoSocket /\ negotiated' = FALSE /\ negotiationDeadline' = NoSocket
          /\ label' = IF rejected THEN label ELSE "disconnected"
          /\ retry' = (retry \/ ~(rejected \/ paused))
  /\ UNCHANGED <<epoch, disposed, paused, rejected, reconnectButton, data, inbox, asked, bridge>>

-----------------------------------------------------------------------------
(* The page. *)

\* The button while it offers to disconnect: pause().
Pause ==
  /\ ~disposed /\ label # "none" /\ ~reconnectButton /\ reconnectButton' = TRUE
  /\ paused' = TRUE /\ retry' = FALSE /\ negotiationDeadline' = NoSocket /\ negotiated' = FALSE
  /\ socket' = Closed(ws) /\ label' = "disconnected"
  /\ UNCHANGED <<ws, epoch, disposed, rejected, data, inbox, asked, bridge>>

\* The button while it offers to reconnect: resume(), which calls connect().
Resume ==
  /\ ~disposed /\ reconnectButton
  /\ paused' = FALSE
  /\ \E s \in Socket : Construct(s, Closed(ws), NoSocket, FALSE)
  /\ UNCHANGED <<disposed, actors, recent, stray, captured, delivered, bridge>>

\* Leaving the page.
dispose ==
  /\ ~disposed /\ disposed' = TRUE
  /\ retry' = FALSE /\ negotiationDeadline' = NoSocket /\ negotiated' = FALSE
  /\ socket' = Closed(ws) /\ ws' = NoSocket /\ actors' = 0 /\ recent' = <<>>
  /\ UNCHANGED <<epoch, paused, rejected, page, known, stray, captured, delivered, inbox, asked, bridge>>

-----------------------------------------------------------------------------
(* The bridge and the network. *)

\* A mute bridge drops the hello.
HelloArrives(s) ==
  /\ s \in asked /\ asked' = asked \ {s}
  /\ bridge \in {"up", "mute", "foreign"} /\ Len(inbox[s]) < MaxInbox
  /\ inbox' = CASE bridge = "up" -> [inbox EXCEPT ![s] = Append(@, "accept")]
                [] bridge = "foreign" -> [inbox EXCEPT ![s] = Append(@, "refuse")]
                [] OTHER -> inbox
  /\ UNCHANGED <<adapter, page, data, socket, bridge>>

BridgeCommands(s) ==
  /\ bridge = "up" /\ known[s] # {} /\ Open(s) /\ Len(inbox[s]) < MaxInbox
  /\ \E m \in {"command", "forbidden", "accept"} : inbox' = [inbox EXCEPT ![s] = Append(@, m)]
  /\ UNCHANGED <<adapter, page, data, socket, asked, bridge>>

\* The connection fails, or a bridge that is not up closes it.
Drop(s) ==
  /\ Live(s) /\ bridge # "up"
  /\ socket' = [socket EXCEPT ![s] = "closing"]
  /\ UNCHANGED <<adapter, page, data, inbox, asked, bridge>>

BridgeTurns ==
  /\ bridge' \in {"up", "down", "mute", "foreign"} \ {bridge}
  /\ UNCHANGED <<adapter, page, data, socket, inbox, asked>>

Next ==
  \/ InspectActor \/ Load \/ Retry \/ DeadlineFires
  \/ Pause \/ Resume \/ dispose \/ BridgeTurns
  \/ \E a \in Actors : InspectSnapshot(a) \/ InspectEvent(a)
  \/ \E s \in Socket : OnOpen(s) \/ OnMessage(s) \/ OnClose(s)
                       \/ HelloArrives(s) \/ BridgeCommands(s) \/ Drop(s)

\* The browser runs timers, opens or fails connections, and fires close events;
\* a bridge that stays up answers, and of many hellos one within the deadline.
Fairness ==
  /\ WF_vars(Retry) /\ WF_vars(DeadlineFires)
  /\ \A s \in Socket :
       /\ WF_vars(OnOpen(s)) /\ WF_vars(OnClose(s)) /\ WF_vars(Drop(s) /\ bridge = "down")
       /\ SF_vars(HelloArrives(s) /\ Open(s)) /\ SF_vars(OnMessage(s) /\ Open(s) /\ s = ws)

SafeSpec == Init /\ [][Next]_vars
Spec == SafeSpec /\ Fairness

-----------------------------------------------------------------------------

\* Whoever wants the connection always has it under way: a socket whose close
\* event will come, or the retry timer; an open socket that is not negotiated
\* has its deadline. No timer is armed twice or outlives its purpose.
Pursued ==
  /\ label # "none" /\ ~Refused => ws # NoSocket \/ retry
  /\ Open(ws) /\ ~Refused => negotiated \/ negotiationDeadline = ws
  /\ retry => ws = NoSocket /\ ~Refused
  /\ negotiationDeadline # NoSocket => negotiationDeadline = ws /\ ~negotiated

\* Only the current socket may carry frames, and none does for a page that has
\* paused, was rejected or is gone.
OneSocket ==
  \A s \in Socket : Live(s) => s = ws /\ ~Refused

\* The label and the button say what the adapter does.
PageTellsTruth ==
  ~disposed => /\ reconnectButton <=> paused \/ rejected
               /\ label = "connected" <=> negotiated
               /\ label = "rejected" <=> rejected

\* The adapter's timers, sockets and page agree through every order of open,
\* message, close, timer and click.
ConnectionKept == TypeOK /\ Pursued /\ OneSocket /\ PageTellsTruth

\* The bridge hears of an actor before its updates, on each connection anew and
\* under that connection's epoch, or it would reject them.
UpdatesUnderstood ==
  /\ ~stray
  /\ \A s \in Socket : known[s] \subseteq {s} \X Actors

\* Events go out once and in order, over any number of connections, and those
\* of the last RecentLimit that have not gone out are kept.
EventsKept ==
  /\ \A i, j \in DOMAIN delivered : i < j => delivered[i] < delivered[j]
  /\ ~disposed =>
       \A n \in 1 .. captured :
         n > captured - RecentLimit =>
           \/ \E i \in DOMAIN delivered : delivered[i] = n
           \/ \E i \in DOMAIN recent : recent[i][1] = n

\* When a bridge stays up and the page keeps wanting it, inspection resumes.
Reconnects ==
  <>[](bridge = "up" /\ label # "none" /\ ~Refused) => <>[]negotiated

=============================================================================
