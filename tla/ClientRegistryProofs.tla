------------------------ MODULE ClientRegistryProofs ------------------------
(***************************************************************************)
(* Proofs about ClientRegistry for every set of sockets, applications,      *)
(* commands, policies and host calls.                                       *)
(***************************************************************************)
EXTENDS ClientRegistryContract, TLAPS

(* Settling keeps the types of the three request variables. *)
LEMMA SettleTyped ==
  ASSUME TypeOK, NEW S, NEW expired, NEW why \in Outcomes,
         Settle(S, expired, why)
  PROVE  /\ pending' \in [Command -> Session \cup {NoSession}]
         /\ timers' \subseteq Command
         /\ outcome' \in [Command -> Outcomes]
  BY DEF TypeOK, Settle

(* A freshly registered session object is a Session. *)
LEMMA FreshSessionTyped ==
  ASSUME TypeOK, NEW ws \in Socket, connection[ws] # NoConn,
         NEW local \in LocalId, created < MaxSessions
  PROVE  /\ <<connection[ws], local>> \in SessionId
         /\ created + 1 \in 0 .. MaxSessions
         /\ [id |-> <<connection[ws], local>>, client |-> ws,
             object |-> created + 1] \in Session
  BY ParameterAssumption DEF ParameterAssumption, TypeOK, Session, SessionId

LEMMA TypeInit == Init => TypeOK
<1> SUFFICES ASSUME Init PROVE TypeOK
  OBVIOUS
<1>1. created \in 0 .. MaxSessions
  BY ParameterAssumption DEF ParameterAssumption, Init
<1>2. clientToSessions \in [Socket -> SUBSET SessionId]
  BY DEF Init
<1>3. /\ sessions \in [SessionId -> Session \cup {NoSession}]
      /\ actors \in [SessionId -> ConnId \cup {NoConn}]
  BY DEF Init
<1> QED BY <1>1, <1>2, <1>3 DEF Init, TypeOK, Outcomes

LEMMA TypeNext ==
  ASSUME TypeOK, [Next]_vars
  PROVE  TypeOK'
<1> USE DEF netVars, protVars, ownVars, reqVars
<1>1. CASE UNCHANGED vars
  BY <1>1 DEF vars, TypeOK
<1>2. ASSUME NEW ws \in Socket, NEW c \in ConnId, Accept(ws, c)
      PROVE  TypeOK'
  BY <1>2 DEF TypeOK, Accept
<1>3. ASSUME NEW ws \in Socket, TerminateLateSocket(ws) \/ BeginClose(ws)
      PROVE  TypeOK'
  BY <1>3 DEF TypeOK, TerminateLateSocket, BeginClose
<1>4. ASSUME NEW ws \in Socket, RemoveClient(ws)
      PROVE  TypeOK'
  <2>1. Settle(PendingOf(ws), {}, "disconnected")
    BY <1>4 DEF RemoveClient
  <2>2. /\ pending' \in [Command -> Session \cup {NoSession}]
        /\ timers' \subseteq Command
        /\ outcome' \in [Command -> Outcomes]
    BY <2>1, SettleTyped DEF Outcomes, Failures
  <2> QED BY <1>4, <2>2 DEF TypeOK, RemoveClient
<1>5. ASSUME NEW ws \in Socket, NEW verdict \in {"invalid", "incompatible"},
             RejectHello(ws, verdict)
      PROVE  TypeOK'
  BY <1>5 DEF TypeOK, RejectHello
<1>6. ASSUME NEW ws \in Socket, NEW h \in Hello, AcceptHello(ws, h)
      PROVE  TypeOK'
  BY <1>6 DEF TypeOK, AcceptHello
<1>7. ASSUME NEW ws \in Socket, NEW local \in LocalId, RegisterActor(ws, local)
      PROVE  TypeOK'
  <2> DEFINE sid   == <<connection[ws], local>>
             fresh == [id |-> sid, client |-> ws, object |-> created + 1]
  <2>1. connection[ws] \in ConnId /\ sid \in SessionId
    BY <1>7 DEF RegisterActor, Receives, TypeOK, SessionId
  <2>2. /\ created' \in 0 .. MaxSessions
        /\ sessions' \in [SessionId -> Session \cup {NoSession}]
        /\ clientToSessions' \in [Socket -> SUBSET SessionId]
    <3>1. CASE sessions[sid] = NoSession
      <4>1. created < MaxSessions /\ created' = created + 1
            /\ sessions' = [sessions EXCEPT ![sid] = fresh]
            /\ clientToSessions' = [clientToSessions EXCEPT ![ws] = @ \cup {sid}]
        BY <1>7, <3>1 DEF RegisterActor
      <4>2. created + 1 \in 0 .. MaxSessions /\ fresh \in Session
        BY <1>7, <4>1, FreshSessionTyped DEF RegisterActor, Receives
      <4> HIDE DEF fresh, sid
      <4> QED BY <2>1, <4>1, <4>2 DEF TypeOK
    <3>2. CASE sessions[sid] # NoSession
      BY <1>7, <3>2 DEF RegisterActor, TypeOK
    <3> QED BY <3>1, <3>2
  <2>3. actors' \in [SessionId -> ConnId \cup {NoConn}]
    BY <1>7, <2>1 DEF RegisterActor, TypeOK
  <2> QED BY <1>7, <2>2, <2>3 DEF RegisterActor, TypeOK
<1>8. ASSUME NEW ws \in Socket, NEW r \in Command, NEW answer \in Answers,
             HandleResponse(ws, r, answer)
      PROVE  TypeOK'
  <2>1. Settle({r}, {}, answer)
    BY <1>8 DEF HandleResponse
  <2>2. /\ pending' \in [Command -> Session \cup {NoSession}]
        /\ timers' \subseteq Command
        /\ outcome' \in [Command -> Outcomes]
    BY <2>1, SettleTyped DEF Outcomes
  <2> QED BY <1>8, <2>2 DEF TypeOK, HandleResponse
<1>9. ASSUME NEW r \in Command, NEW sid \in SessionId, NEW event \in Event,
             RefuseEvent(r, sid, event) \/ SendEvent(r, sid, event)
      PROVE  TypeOK'
  <2>1. CASE RefuseEvent(r, sid, event)
    BY <2>1 DEF TypeOK, RefuseEvent, Outcomes
  <2>2. CASE SendEvent(r, sid, event)
    <3>1. sessions[sid] \in Session
      BY <2>2 DEF SendEvent, Routable, TypeOK
    <3> QED BY <2>2, <3>1 DEF TypeOK, SendEvent, Outcomes
  <2> QED BY <1>9, <2>1, <2>2
<1>10. ASSUME NEW r \in Command, SendFailed(r)
       PROVE  TypeOK'
  <2>1. Settle({r}, {}, "send_failed")
    BY <1>10 DEF SendFailed
  <2>2. /\ pending' \in [Command -> Session \cup {NoSession}]
        /\ timers' \subseteq Command
        /\ outcome' \in [Command -> Outcomes]
    BY <2>1, SettleTyped DEF Outcomes, Failures
  <2> QED BY <1>10, <2>2 DEF TypeOK, SendFailed
<1>11. ASSUME NEW r \in Command, SendFlushed(r)
       PROVE  TypeOK'
  BY <1>11 DEF TypeOK, SendFlushed
<1>12. ASSUME NEW r \in Command, Timeout(r)
       PROVE  TypeOK'
  <2>1. Settle({r}, {r}, "timeout")
    BY <1>12 DEF Timeout
  <2>2. /\ pending' \in [Command -> Session \cup {NoSession}]
        /\ timers' \subseteq Command
        /\ outcome' \in [Command -> Outcomes]
    BY <2>1, SettleTyped DEF Outcomes, Failures
  <2> QED BY <1>12, <2>2 DEF TypeOK, Timeout
<1>13. ASSUME NEW why \in Failures, DropRoutes(why)
       PROVE  /\ pending' \in [Command -> Session \cup {NoSession}]
              /\ timers' \subseteq Command
              /\ outcome' \in [Command -> Outcomes]
              /\ sessions' \in [SessionId -> Session \cup {NoSession}]
              /\ clientToSessions' \in [Socket -> SUBSET SessionId]
  <2>1. Settle(Command, {}, why)
    BY <1>13 DEF DropRoutes
  <2>2. why \in Outcomes
    BY <1>13 DEF Outcomes
  <2> QED BY <1>13, <2>1, <2>2, SettleTyped DEF DropRoutes
<1>14. CASE ClearStore
  BY <1>14, <1>13 DEF TypeOK, ClearStore, Failures
<1>15. ASSUME NEW sid \in SessionId, HostRemovesActor(sid)
       PROVE  TypeOK'
  BY <1>15 DEF TypeOK, HostRemovesActor
<1>16. CASE HostClearsRegistry
  BY <1>16, <1>13 DEF TypeOK, HostClearsRegistry, Failures
<1>17. CASE Shutdown
  BY <1>17, <1>13 DEF TypeOK, Shutdown, Failures
<1> QED
  BY <1>1, <1>2, <1>3, <1>4, <1>5, <1>6, <1>7, <1>8, <1>9, <1>10, <1>11,
     <1>12, <1>14, <1>15, <1>16, <1>17
     DEF Next, SocketStep, CommandStep, HostStep

(* Every reachable state is well typed, for any parameters. *)
THEOREM TypeCorrect == SafeSpec => []TypeOK
  BY TypeInit, TypeNext, PTL DEF SafeSpec

-----------------------------------------------------------------------------
(* Ownership: who holds which session. *)

ConnectionsDistinct ==
  /\ \A ws \in Socket : connection[ws] # NoConn =>
       connection[ws] \in minted /\ readyState[ws] \in {"open", "closing"}
  /\ \A ws, other \in Socket :
       connection[ws] # NoConn /\ connection[ws] = connection[other] =>
         ws = other

OwnershipInv == ConnectionsDistinct /\ SessionsOwned /\ IndexAgrees

LEMMA OwnershipInit == Init => OwnershipInv
  BY DEF Init, OwnershipInv, ConnectionsDistinct, SessionsOwned, IndexAgrees

(* Frames, timers and callbacks that register nothing leave ownership alone. *)
LEMMA OwnershipStable ==
  ASSUME OwnershipInv, UNCHANGED <<netVars, sessions, clientToSessions>>
  PROVE  OwnershipInv'
  BY DEF OwnershipInv, ConnectionsDistinct, SessionsOwned, IndexAgrees, netVars

LEMMA OwnershipAccept ==
  ASSUME TypeOK, OwnershipInv, NEW ws \in Socket, NEW c \in ConnId,
         Accept(ws, c)
  PROVE  OwnershipInv'
<1>1. connection' = [connection EXCEPT ![ws] = c] /\ c \notin minted
  BY DEF Accept
<1>2. connection[ws] = NoConn
  BY DEF Accept, OwnershipInv, ConnectionsDistinct
<1>3. ConnectionsDistinct'
  BY DEF Accept, TypeOK, OwnershipInv, ConnectionsDistinct
<1>4. SessionsOwned'
  <2> SUFFICES ASSUME NEW sid \in SessionId, sessions[sid] # NoSession
               PROVE  /\ sessions[sid].id = sid
                      /\ connection'[sessions[sid].client] = sid[1]
    BY DEF Accept, ownVars, SessionsOwned
  <2>1. sid[1] \in ConnId /\ sessions[sid].client \in Socket
    BY DEF TypeOK, SessionId, Session
  <2>2. /\ sessions[sid].id = sid
        /\ connection[sessions[sid].client] = sid[1]
    BY DEF OwnershipInv, SessionsOwned
  <2>3. sessions[sid].client # ws
    BY <1>2, <2>1, <2>2, SentinelAssumption DEF SentinelAssumption
  <2> QED BY <1>1, <2>1, <2>2, <2>3 DEF TypeOK
<1>5. IndexAgrees'
  BY DEF Accept, ownVars, OwnershipInv, IndexAgrees
<1> QED BY <1>3, <1>4, <1>5 DEF OwnershipInv

LEMMA OwnershipRemoveClient ==
  ASSUME TypeOK, OwnershipInv, NEW ws \in Socket, RemoveClient(ws)
  PROVE  OwnershipInv'
<1> DEFINE gone == {sid \in clientToSessions[ws] :
                      sessions[sid] # NoSession /\ sessions[sid].client = ws}
<1>1. /\ readyState' = [readyState EXCEPT ![ws] = "closed"]
      /\ sessions' = [sid \in SessionId |->
                        IF sid \in gone THEN NoSession ELSE sessions[sid]]
      /\ clientToSessions' = [clientToSessions EXCEPT ![ws] = {}]
      /\ connection' = [connection EXCEPT ![ws] = NoConn]
      /\ minted' = minted
  BY DEF RemoveClient
<1>2. \A sid \in SessionId :
        sid \in gone <=> sessions[sid] # NoSession /\ sessions[sid].client = ws
  BY DEF OwnershipInv, IndexAgrees
<1> HIDE DEF gone
<1>3. ConnectionsDistinct'
  BY <1>1 DEF TypeOK, OwnershipInv, ConnectionsDistinct
<1>4. SessionsOwned'
  BY <1>1, <1>2 DEF TypeOK, OwnershipInv, SessionsOwned, Session
<1>5. IndexAgrees'
  <2> SUFFICES ASSUME NEW v \in Socket
               PROVE  clientToSessions'[v] =
                        {sid \in SessionId : /\ sessions'[sid] # NoSession
                                             /\ sessions'[sid].client = v}
    BY DEF IndexAgrees
  <2>1. CASE v = ws
    BY <1>1, <1>2, <2>1 DEF TypeOK
  <2>2. CASE v # ws
    BY <1>1, <1>2, <2>2 DEF TypeOK, OwnershipInv, IndexAgrees
  <2> QED BY <2>1, <2>2
<1> QED BY <1>3, <1>4, <1>5 DEF OwnershipInv

LEMMA OwnershipRegisterActor ==
  ASSUME TypeOK, OwnershipInv, NEW ws \in Socket, NEW local \in LocalId,
         RegisterActor(ws, local)
  PROVE  OwnershipInv'
<1> DEFINE sid   == <<connection[ws], local>>
           fresh == [id |-> sid, client |-> ws, object |-> created + 1]
<1>1. connection[ws] # NoConn /\ UNCHANGED netVars
  BY DEF RegisterActor, Receives
<1>2. CASE sessions[sid] # NoSession
  BY <1>1, <1>2, OwnershipStable DEF RegisterActor
<1>3. CASE sessions[sid] = NoSession
  <2>1. /\ sessions' = [sessions EXCEPT ![sid] = fresh]
        /\ clientToSessions' = [clientToSessions EXCEPT ![ws] = @ \cup {sid}]
        /\ created < MaxSessions
    BY <1>3 DEF RegisterActor
  <2>2. fresh \in Session /\ sid \in SessionId /\ fresh # NoSession
    BY <1>1, <2>1, FreshSessionTyped, SentinelAssumption
       DEF SentinelAssumption
  <2>3. fresh.id = sid /\ fresh.client = ws /\ sid[1] = connection[ws]
    OBVIOUS
  <2> HIDE DEF fresh, sid
  <2>4. ConnectionsDistinct'
    BY <1>1 DEF OwnershipInv, ConnectionsDistinct, netVars
  <2>5. SessionsOwned'
    BY <1>1, <2>1, <2>2, <2>3
       DEF TypeOK, OwnershipInv, SessionsOwned, netVars
  <2>6. IndexAgrees'
    <3> SUFFICES ASSUME NEW v \in Socket
                 PROVE  clientToSessions'[v] =
                          {s \in SessionId : /\ sessions'[s] # NoSession
                                             /\ sessions'[s].client = v}
      BY DEF IndexAgrees
    <3>1. clientToSessions[v] = {s \in SessionId : /\ sessions[s] # NoSession
                                                   /\ sessions[s].client = v}
      BY DEF OwnershipInv, IndexAgrees
    <3>2. \A s \in SessionId : s # sid => sessions'[s] = sessions[s]
      BY <2>1 DEF TypeOK
    <3>3. sessions'[sid] = fresh
      BY <2>1, <2>2 DEF TypeOK
    <3>4. CASE v = ws
      BY <1>3, <2>1, <2>2, <2>3, <3>1, <3>2, <3>3, <3>4 DEF TypeOK
    <3>5. CASE v # ws
      BY <1>3, <2>1, <2>2, <2>3, <3>1, <3>2, <3>3, <3>5 DEF TypeOK
    <3> QED BY <3>4, <3>5
  <2> QED BY <2>4, <2>5, <2>6 DEF OwnershipInv
<1> QED BY <1>2, <1>3

(* Dropping every route keeps ownership, even if sockets begin to close. *)
LEMMA OwnershipDropRoutes ==
  ASSUME TypeOK, OwnershipInv, NEW why, DropRoutes(why),
         UNCHANGED <<connection, minted>>,
         \A ws \in Socket : readyState[ws] \in {"open", "closing"} =>
                            readyState'[ws] \in {"open", "closing"}
  PROVE  OwnershipInv'
  BY DEF DropRoutes, OwnershipInv, ConnectionsDistinct, SessionsOwned,
         IndexAgrees

LEMMA OwnershipNext ==
  ASSUME TypeOK, OwnershipInv, [Next]_vars
  PROVE  OwnershipInv'
<1> USE DEF ownVars
<1>1. CASE UNCHANGED vars
  BY <1>1, OwnershipStable DEF vars
<1>2. ASSUME NEW ws \in Socket, NEW c \in ConnId, Accept(ws, c)
      PROVE  OwnershipInv'
  BY <1>2, OwnershipAccept
<1>3. ASSUME NEW ws \in Socket, TerminateLateSocket(ws) \/ BeginClose(ws)
      PROVE  OwnershipInv'
  <2>1. /\ UNCHANGED <<connection, minted, sessions, clientToSessions>>
        /\ \A v \in Socket : readyState[v] \in {"open", "closing"} =>
                             readyState'[v] \in {"open", "closing"}
    BY <1>3 DEF TypeOK, TerminateLateSocket, BeginClose
  <2> QED BY <2>1 DEF OwnershipInv, ConnectionsDistinct, SessionsOwned, IndexAgrees
<1>4. ASSUME NEW ws \in Socket, RemoveClient(ws)
      PROVE  OwnershipInv'
  BY <1>4, OwnershipRemoveClient
<1>5. ASSUME NEW ws \in Socket, NEW local \in LocalId, RegisterActor(ws, local)
      PROVE  OwnershipInv'
  BY <1>5, OwnershipRegisterActor
<1>6. ASSUME NEW ws \in Socket,
             \/ \E verdict \in {"invalid", "incompatible"} :
                  RejectHello(ws, verdict)
             \/ \E h \in Hello : AcceptHello(ws, h)
             \/ \E r \in Command, answer \in Answers :
                  HandleResponse(ws, r, answer)
      PROVE  OwnershipInv'
  BY <1>6, OwnershipStable DEF RejectHello, AcceptHello, HandleResponse
<1>7. ASSUME NEW r \in Command, CommandStep(r)
      PROVE  OwnershipInv'
  BY <1>7, OwnershipStable
     DEF CommandStep, RefuseEvent, SendEvent, SendFailed, SendFlushed, Timeout
<1>8. CASE ClearStore \/ HostClearsRegistry
  <2>1. DropRoutes("cleared") /\ UNCHANGED netVars
    BY <1>8 DEF ClearStore, HostClearsRegistry
  <2> QED BY <2>1, OwnershipDropRoutes DEF netVars
<1>9. ASSUME NEW sid \in SessionId, HostRemovesActor(sid)
      PROVE  OwnershipInv'
  BY <1>9, OwnershipStable DEF HostRemovesActor
<1>10. CASE Shutdown
  <2>1. /\ DropRoutes("shutdown") /\ UNCHANGED <<connection, minted>>
        /\ \A ws \in Socket : readyState[ws] \in {"open", "closing"} =>
                              readyState'[ws] \in {"open", "closing"}
    BY <1>10 DEF Shutdown
  <2> QED BY <2>1, OwnershipDropRoutes
<1> QED
  BY <1>1, <1>2, <1>3, <1>4, <1>5, <1>6, <1>7, <1>8, <1>9, <1>10
     DEF Next, SocketStep, HostStep

-----------------------------------------------------------------------------
(* Requests: what a waiting command is bound to. *)

RequestInv ==
  /\ PendingRouted
  /\ OneTimerPerWaiter
  /\ WriterNegotiated
  /\ AnsweredByTarget
  /\ \A r \in Pending : sent[r] = pending[r]

(* settle() removes exactly the requests it is given, and only those that   *)
(* were still waiting change their outcome.                                 *)
LEMMA SettleRemoves ==
  ASSUME TypeOK, NEW S, NEW expired, NEW why, Settle(S, expired, why)
  PROVE  /\ Pending' = Pending \ S
         /\ \A r \in Pending' : pending'[r] = pending[r]
         /\ \A r \in Command :
              outcome'[r] = IF r \in Pending /\ r \in S THEN why ELSE outcome[r]
         /\ timers' = timers \ ((Pending \cap S) \cup expired)
  BY DEF Settle, Pending, TypeOK

(* Settling preserves every request fact that does not mention the sessions *)
(* map, whatever the reason.                                                *)
LEMMA SettleKeepsRequests ==
  ASSUME TypeOK, RequestInv, NEW S, NEW expired, NEW why,
         expired \subseteq S, why \in Answers \cup Failures,
         Settle(S, expired, why), UNCHANGED <<sent, answeredBy>>
  PROVE  /\ OneTimerPerWaiter'
         /\ AnsweredByTarget'
         /\ \A r \in Pending' : sent'[r] = pending'[r]
<1>1. /\ Pending' = Pending \ S
      /\ \A r \in Pending' : pending'[r] = pending[r]
      /\ \A r \in Command :
           outcome'[r] = IF r \in Pending /\ r \in S THEN why ELSE outcome[r]
      /\ timers' = timers \ ((Pending \cap S) \cup expired)
  BY SettleRemoves
<1>2. why # "waiting"
  BY DEF Answers, Failures
<1>3. timers = Pending /\ \A r \in Command : outcome[r] = "waiting" <=> r \in Pending
  BY DEF RequestInv, OneTimerPerWaiter
<1>4. OneTimerPerWaiter'
  BY <1>1, <1>2, <1>3 DEF OneTimerPerWaiter
<1>5. AnsweredByTarget'
  <2> SUFFICES ASSUME NEW r \in Command, answeredBy[r] # NoSocket
               PROVE  /\ sent[r] # NoSession
                      /\ sent[r].client = answeredBy[r]
                      /\ outcome'[r] \in Answers
    BY DEF AnsweredByTarget
  <2>1. /\ sent[r] # NoSession /\ sent[r].client = answeredBy[r]
        /\ outcome[r] \in Answers
    BY DEF RequestInv, AnsweredByTarget
  <2>2. r \notin Pending
    BY <1>3, <2>1 DEF Answers
  <2> QED BY <1>1, <2>1, <2>2
<1>6. \A r \in Pending' : sent'[r] = pending'[r]
  BY <1>1 DEF RequestInv
<1> QED BY <1>4, <1>5, <1>6

LEMMA RequestInit == Init => RequestInv
  BY DEF Init, RequestInv, PendingRouted, OneTimerPerWaiter, WriterNegotiated,
         AnsweredByTarget, Pending

LEMMA RequestNext ==
  ASSUME TypeOK, OwnershipInv, RequestInv, [Next]_vars
  PROVE  RequestInv'
<1> USE DEF netVars, protVars, ownVars, reqVars
<1>a. \A r \in Pending : /\ r \in Command
                         /\ pending[r] \in Session
                         /\ pending[r].client \in Socket
                         /\ pending[r].id \in SessionId
  BY DEF Pending, TypeOK, Session
<1>b. \A r \in Pending : connection[pending[r].client] # NoConn
  <2> SUFFICES ASSUME NEW r \in Pending
               PROVE  connection[pending[r].client] # NoConn
    OBVIOUS
  <2>1. sessions[pending[r].id] = pending[r] /\ pending[r] # NoSession
    BY DEF RequestInv, PendingRouted, Pending
  <2>2. connection[pending[r].client] = pending[r].id[1]
    BY <1>a, <2>1 DEF OwnershipInv, SessionsOwned
  <2>3. pending[r].id[1] \in ConnId
    BY <1>a DEF SessionId
  <2> QED BY <2>2, <2>3, SentinelAssumption DEF SentinelAssumption
\* The request variables and what they refer to do not change.
<1>c. ASSUME UNCHANGED <<sessions, pending, timers, outcome, sent, answeredBy>>,
             \A r \in Pending : hello'[pending[r].client] = hello[pending[r].client]
      PROVE  RequestInv'
  BY <1>c DEF RequestInv, PendingRouted, OneTimerPerWaiter, WriterNegotiated,
              AnsweredByTarget, Pending
<1>1. CASE UNCHANGED vars
  BY <1>1, <1>c DEF vars
<1>2. ASSUME NEW ws \in Socket, NEW c \in ConnId, Accept(ws, c)
      PROVE  RequestInv'
  BY <1>2, <1>c DEF Accept
<1>3. ASSUME NEW ws \in Socket, TerminateLateSocket(ws) \/ BeginClose(ws)
      PROVE  RequestInv'
  BY <1>3, <1>c DEF TerminateLateSocket, BeginClose
<1>4. ASSUME NEW ws \in Socket, RemoveClient(ws)
      PROVE  RequestInv'
  <2>1. /\ Settle(PendingOf(ws), {}, "disconnected")
        /\ UNCHANGED <<sent, answeredBy>>
        /\ hello' = [hello EXCEPT ![ws] = NoHello]
        /\ \A sid \in SessionId :
             sessions[sid] = NoSession \/ sessions[sid].client # ws =>
               sessions'[sid] = sessions[sid]
    BY <1>4 DEF RemoveClient
  <2>2. /\ OneTimerPerWaiter' /\ AnsweredByTarget'
        /\ \A r \in Pending' : sent'[r] = pending'[r]
    BY <2>1, SettleKeepsRequests DEF Failures
  <2>3. \A r \in Pending' : /\ r \in Pending
                            /\ pending'[r] = pending[r]
                            /\ pending[r].client # ws
    BY <2>1, SettleRemoves DEF PendingOf
  <2>4. PendingRouted'
    BY <1>a, <2>1, <2>3 DEF PendingRouted, RequestInv
  <2>5. WriterNegotiated'
    BY <1>a, <2>1, <2>3 DEF WriterNegotiated, RequestInv, TypeOK
  <2> QED BY <2>2, <2>4, <2>5 DEF RequestInv
<1>5. ASSUME NEW ws \in Socket, NEW verdict \in {"invalid", "incompatible"},
             RejectHello(ws, verdict)
      PROVE  RequestInv'
  BY <1>5, <1>c DEF RejectHello
<1>6. ASSUME NEW ws \in Socket, NEW h \in Hello, AcceptHello(ws, h)
      PROVE  RequestInv'
  <2>1. \A r \in Pending : hello'[pending[r].client] = hello[pending[r].client]
    <3> SUFFICES ASSUME NEW r \in Pending
                 PROVE  hello'[pending[r].client] = hello[pending[r].client]
      OBVIOUS
    <3>1. hello[pending[r].client] # NoHello
      BY SentinelAssumption, ParameterAssumption
         DEF SentinelAssumption, ParameterAssumption, RequestInv, WriterNegotiated
    <3> QED BY <1>6, <1>a, <3>1 DEF AcceptHello, TypeOK
  <2> QED BY <1>6, <1>c, <2>1 DEF AcceptHello
<1>7. ASSUME NEW ws \in Socket, NEW local \in LocalId, RegisterActor(ws, local)
      PROVE  RequestInv'
  <2>1. \A sid \in SessionId : sessions[sid] # NoSession =>
                               sessions'[sid] = sessions[sid]
    BY <1>7 DEF RegisterActor, TypeOK
  <2>2. PendingRouted'
    BY <1>7, <1>a, <2>1 DEF RegisterActor, PendingRouted, RequestInv, Pending
  <2> QED BY <1>7, <2>2 DEF RegisterActor, RequestInv, OneTimerPerWaiter,
                            WriterNegotiated, AnsweredByTarget, Pending
<1>8. ASSUME NEW ws \in Socket, NEW r \in Command, NEW answer \in Answers,
             HandleResponse(ws, r, answer)
      PROVE  RequestInv'
  <2>1. /\ Settle({r}, {}, answer) /\ UNCHANGED <<sent, sessions, hello>>
        /\ answeredBy' = [answeredBy EXCEPT ![r] = ws]
        /\ r \in Pending /\ pending[r].client = ws
    BY <1>8 DEF HandleResponse
  <2>2. /\ Pending' = Pending \ {r}
        /\ \A q \in Pending' : pending'[q] = pending[q]
        /\ \A q \in Command :
             outcome'[q] = IF q \in Pending /\ q \in {r} THEN answer ELSE outcome[q]
        /\ timers' = timers \ ((Pending \cap {r}) \cup {})
    BY <2>1, SettleRemoves
  <2>3. PendingRouted' /\ WriterNegotiated'
    BY <2>1, <2>2 DEF PendingRouted, WriterNegotiated, RequestInv
  <2>4. OneTimerPerWaiter'
    BY <2>2 DEF OneTimerPerWaiter, RequestInv, Answers
  <2>5. AnsweredByTarget'
    <3> SUFFICES ASSUME NEW q \in Command, answeredBy'[q] # NoSocket
                 PROVE  /\ sent[q] # NoSession
                        /\ sent[q].client = answeredBy'[q]
                        /\ outcome'[q] \in Answers
      BY <2>1 DEF AnsweredByTarget
    <3>1. CASE q = r
      BY <2>1, <2>2, <3>1 DEF TypeOK, RequestInv, Pending
    <3>2. CASE q # r
      BY <2>1, <2>2, <3>2 DEF TypeOK, RequestInv, AnsweredByTarget
    <3> QED BY <3>1, <3>2
  <2>6. \A q \in Pending' : sent'[q] = pending'[q]
    BY <2>1, <2>2 DEF RequestInv
  <2> QED BY <2>3, <2>4, <2>5, <2>6 DEF RequestInv
<1>9. ASSUME NEW r \in Command, NEW sid \in SessionId, NEW event \in Event,
             RefuseEvent(r, sid, event)
      PROVE  RequestInv'
  <2>1. r \notin Pending /\ answeredBy[r] = NoSocket
    BY <1>9 DEF RefuseEvent, RequestInv, OneTimerPerWaiter, AnsweredByTarget,
                Answers
  <2> QED BY <1>9, <2>1 DEF RefuseEvent, RequestInv, PendingRouted, TypeOK,
                            OneTimerPerWaiter, WriterNegotiated,
                            AnsweredByTarget, Pending
<1>10. ASSUME NEW r \in Command, NEW sid \in SessionId, NEW event \in Event,
              SendEvent(r, sid, event)
       PROVE  RequestInv'
  <2>1. r \notin Pending /\ answeredBy[r] = NoSocket
    BY <1>10 DEF SendEvent, RequestInv, OneTimerPerWaiter, AnsweredByTarget,
                 Answers
  <2>2. /\ sessions[sid] # NoSession
        /\ sessions[sid].id = sid
        /\ hello[sessions[sid].client] \in SendCapable
    BY <1>10 DEF SendEvent, Routable, OwnershipInv, SessionsOwned
  <2>3. /\ pending' = [pending EXCEPT ![r] = sessions[sid]]
        /\ sent' = [sent EXCEPT ![r] = sessions[sid]]
        /\ outcome' = [outcome EXCEPT ![r] = "waiting"]
        /\ timers' = timers \cup {r}
        /\ UNCHANGED <<sessions, hello, answeredBy>>
    BY <1>10 DEF SendEvent
  <2>4. /\ Pending' = Pending \cup {r}
        /\ pending'[r] = sessions[sid] /\ sent'[r] = sessions[sid]
        /\ \A q \in Command \ {r} : /\ pending'[q] = pending[q]
                                    /\ sent'[q] = sent[q]
                                    /\ outcome'[q] = outcome[q]
    BY <2>2, <2>3 DEF Pending, TypeOK
  <2>5. PendingRouted'
    BY <1>a, <2>1, <2>2, <2>3, <2>4 DEF PendingRouted, RequestInv
  <2>6. WriterNegotiated'
    BY <1>a, <2>1, <2>2, <2>3, <2>4 DEF WriterNegotiated, RequestInv
  <2>7. OneTimerPerWaiter'
    BY <2>3, <2>4 DEF OneTimerPerWaiter, RequestInv, TypeOK
  <2>8. AnsweredByTarget'
    BY <2>1, <2>3, <2>4 DEF AnsweredByTarget, RequestInv
  <2>9. \A q \in Pending' : sent'[q] = pending'[q]
    BY <1>a, <2>4 DEF RequestInv
  <2> QED BY <2>5, <2>6, <2>7, <2>8, <2>9 DEF RequestInv
<1>11. ASSUME NEW r \in Command, SendFailed(r) \/ Timeout(r)
       PROVE  RequestInv'
  <2>1. PICK expired \in SUBSET {r}, why \in Failures :
          Settle({r}, expired, why)
    BY <1>11 DEF SendFailed, Timeout, Failures
  <2>2. UNCHANGED <<sessions, hello, sent, answeredBy>>
    BY <1>11 DEF SendFailed, Timeout
  <2>3. /\ OneTimerPerWaiter' /\ AnsweredByTarget'
        /\ \A q \in Pending' : sent'[q] = pending'[q]
    BY <2>1, <2>2, SettleKeepsRequests
  <2>4. \A q \in Pending' : q \in Pending /\ pending'[q] = pending[q]
    BY <2>1, SettleRemoves
  <2> QED BY <2>2, <2>3, <2>4 DEF RequestInv, PendingRouted, WriterNegotiated
<1>12. ASSUME NEW r \in Command, SendFlushed(r)
       PROVE  RequestInv'
  BY <1>12, <1>c DEF SendFlushed
<1>13. CASE ClearStore \/ HostClearsRegistry \/ Shutdown
  <2>1. PICK why \in Failures : DropRoutes(why)
    BY <1>13 DEF ClearStore, HostClearsRegistry, Shutdown, Failures
  <2>2. UNCHANGED <<sent, answeredBy>>
    BY <1>13 DEF ClearStore, HostClearsRegistry, Shutdown
  <2>3. Settle(Command, {}, why)
    BY <2>1 DEF DropRoutes
  <2>4. /\ OneTimerPerWaiter' /\ AnsweredByTarget'
        /\ \A q \in Pending' : sent'[q] = pending'[q]
    BY <2>2, <2>3, SettleKeepsRequests
  <2>5. Pending' = {}
    BY <2>3, SettleRemoves, <1>a
  <2> QED BY <2>4, <2>5 DEF RequestInv, PendingRouted, WriterNegotiated
<1>14. ASSUME NEW sid \in SessionId, HostRemovesActor(sid)
       PROVE  RequestInv'
  BY <1>14, <1>c DEF HostRemovesActor
<1> QED
  BY <1>1, <1>2, <1>3, <1>4, <1>5, <1>6, <1>7, <1>8, <1>9, <1>10, <1>11,
     <1>12, <1>13, <1>14
     DEF Next, SocketStep, CommandStep, HostStep

(* A waiting request is bound to the session object registered now, has one *)
(* timer and a peer that negotiated send_event; an answer was counted only  *)
(* from the socket the command was sent to.                                 *)
THEOREM RequestsHold == SafeSpec => []CommandsBound
<1>1. RequestInv => CommandsBound
  BY DEF RequestInv, CommandsBound
<1> QED
  BY <1>1, TypeCorrect, OwnershipInit, OwnershipNext, RequestInit, RequestNext,
     PTL DEF SafeSpec

-----------------------------------------------------------------------------
(* Promises. *)

(* Settling changes no outcome but those of waiting requests. *)
LEMMA SettleOnlyWaiting ==
  ASSUME TypeOK, RequestInv, NEW S, NEW expired, NEW why,
         Settle(S, expired, why),
         NEW r \in Command, outcome[r] \notin {"idle", "waiting"}
  PROVE  outcome'[r] = outcome[r]
  BY SettleRemoves DEF RequestInv, OneTimerPerWaiter

LEMMA SettledOnceStep ==
  ASSUME TypeOK, RequestInv, Next,
         NEW r \in Command, outcome[r] \notin {"idle", "waiting"}
  PROVE  outcome'[r] = outcome[r]
<1> USE DEF reqVars
<1>1. ASSUME NEW ws \in Socket, SocketStep(ws)
      PROVE  outcome'[r] = outcome[r]
  BY <1>1, SettleOnlyWaiting
     DEF SocketStep, Accept, TerminateLateSocket, BeginClose, RemoveClient,
         RejectHello, AcceptHello, RegisterActor, HandleResponse
<1>2. ASSUME NEW q \in Command, CommandStep(q)
      PROVE  outcome'[r] = outcome[r]
  BY <1>2, SettleOnlyWaiting
     DEF CommandStep, RefuseEvent, SendEvent, SendFailed, SendFlushed, Timeout,
         TypeOK
<1>3. CASE HostStep
  BY <1>3, SettleOnlyWaiting
     DEF HostStep, ClearStore, HostRemovesActor, HostClearsRegistry, Shutdown,
         DropRoutes
<1> QED BY <1>1, <1>2, <1>3 DEF Next

(* No later answer, timeout, send error, clear or disconnect changes what a *)
(* caller was told.                                                         *)
THEOREM PromisesSettleOnce == SafeSpec => SettledOnce
<1> DEFINE Step == \A r \in Command :
             outcome[r] \notin {"idle", "waiting"} => outcome'[r] = outcome[r]
<1>1. TypeOK /\ RequestInv /\ [Next]_vars => [Step]_vars
  BY SettledOnceStep
<1>2. SafeSpec => [][Step]_vars
  BY <1>1, TypeCorrect, OwnershipInit, OwnershipNext, RequestInit, RequestNext,
     PTL DEF SafeSpec
<1> QED BY <1>2 DEF SettledOnce

-----------------------------------------------------------------------------
(* Handshake. *)

HandshakeInv ==
  \A ws \in Socket : hello[ws] # NoHello => negotiation[ws] = "negotiated"

LEMMA HandshakeNext ==
  ASSUME TypeOK, HandshakeInv, [Next]_vars
  PROVE  /\ HandshakeInv'
         /\ \A ws \in Socket : hello[ws] # NoHello /\ connection'[ws] # NoConn =>
              /\ hello'[ws] = hello[ws]
              /\ negotiation'[ws] = "negotiated"
<1> USE DEF protVars
<1>1. CASE UNCHANGED <<hello, negotiation>>
  BY <1>1 DEF HandshakeInv
<1>2. ASSUME NEW ws \in Socket, RemoveClient(ws)
      PROVE  /\ hello' = [hello EXCEPT ![ws] = NoHello]
             /\ negotiation' = [negotiation EXCEPT ![ws] = "awaiting_hello"]
             /\ connection'[ws] = NoConn
  BY <1>2 DEF RemoveClient, TypeOK
<1>3. CASE \E ws \in Socket : RemoveClient(ws)
  BY <1>2, <1>3 DEF HandshakeInv, TypeOK
<1>4. CASE \E ws \in Socket, verdict \in {"invalid", "incompatible"} :
             RejectHello(ws, verdict)
  BY <1>4 DEF HandshakeInv, TypeOK, RejectHello
<1>5. CASE \E ws \in Socket, h \in Hello : AcceptHello(ws, h)
  BY <1>5 DEF HandshakeInv, TypeOK, AcceptHello
<1>6. CASE \E ws \in Socket : SocketStep(ws)
  BY <1>1, <1>3, <1>4, <1>5, <1>6
     DEF SocketStep, Accept, TerminateLateSocket, BeginClose, RegisterActor,
         HandleResponse
<1>7. CASE \E r \in Command : CommandStep(r)
  BY <1>1, <1>7
     DEF CommandStep, RefuseEvent, SendEvent, SendFailed, SendFlushed, Timeout
<1>8. CASE HostStep
  BY <1>1, <1>8
     DEF HostStep, ClearStore, HostRemovesActor, HostClearsRegistry, Shutdown
<1>9. CASE UNCHANGED vars
  BY <1>1, <1>9 DEF vars
<1> QED BY <1>6, <1>7, <1>8, <1>9 DEF Next

(* An accepted handshake stays in effect until the socket is gone.          *)
THEOREM HandshakeStaysLocked == SafeSpec => HandshakeLocked
<1> DEFINE Step == \A ws \in Socket :
             hello[ws] # NoHello /\ connection'[ws] # NoConn =>
               /\ hello'[ws] = hello[ws]
               /\ negotiation'[ws] = "negotiated"
<1>1. Init => HandshakeInv
  BY DEF Init, HandshakeInv
<1>2. TypeOK /\ HandshakeInv /\ [Next]_vars => HandshakeInv' /\ [Step]_vars
  BY HandshakeNext
<1>3. SafeSpec => [][Step]_vars
  BY <1>1, <1>2, TypeCorrect, PTL DEF SafeSpec
<1> QED BY <1>3 DEF HandshakeLocked

-----------------------------------------------------------------------------
(* Shutdown. *)

LEMMA ClosedNext ==
  ASSUME TypeOK, RequestInv, ClosedIsEmpty, [Next]_vars
  PROVE  ClosedIsEmpty'
<1> USE DEF ownVars, reqVars, Pending
<1>1. CASE UNCHANGED vars
  BY <1>1 DEF vars, ClosedIsEmpty
<1>2. ASSUME NEW ws \in Socket, RemoveClient(ws)
      PROVE  ClosedIsEmpty'
  BY <1>2 DEF ClosedIsEmpty, RemoveClient, Settle, PendingOf, TypeOK
<1>3. ASSUME NEW ws \in Socket, SocketStep(ws)
      PROVE  ClosedIsEmpty'
  BY <1>2, <1>3
     DEF SocketStep, Accept, TerminateLateSocket, BeginClose, RejectHello,
         AcceptHello, RegisterActor, HandleResponse, Receives, ClosedIsEmpty
<1>4. ASSUME NEW r \in Command, CommandStep(r)
      PROVE  ClosedIsEmpty'
  <2>1. CASE \E sid \in SessionId, event \in Event :
               RefuseEvent(r, sid, event) \/ SendEvent(r, sid, event)
    BY <2>1 DEF RefuseEvent, SendEvent, Routable, ClosedIsEmpty
  <2>2. CASE SendFailed(r)
    BY <2>2, SettleRemoves DEF SendFailed, ClosedIsEmpty
  <2>3. CASE SendFlushed(r)
    BY <2>3 DEF SendFlushed, ClosedIsEmpty
  <2>4. CASE Timeout(r)
    BY <2>4 DEF Timeout, RequestInv, OneTimerPerWaiter, ClosedIsEmpty
  <2> QED BY <1>4, <2>1, <2>2, <2>3, <2>4 DEF CommandStep
<1>5. CASE ClearStore
  BY <1>5 DEF ClearStore, DropRoutes, Settle, ClosedIsEmpty, TypeOK
<1>6. CASE HostClearsRegistry
  BY <1>6 DEF HostClearsRegistry, DropRoutes, Settle, ClosedIsEmpty, TypeOK
<1>7. ASSUME NEW sid \in SessionId, HostRemovesActor(sid)
      PROVE  ClosedIsEmpty'
  BY <1>7 DEF HostRemovesActor, ClosedIsEmpty, TypeOK
<1>8. CASE Shutdown
  <2>1. Settle(Command, {}, "shutdown") /\ UNCHANGED created
        /\ sessions' = [sid \in SessionId |-> NoSession]
        /\ actors' = [sid \in SessionId |-> NoConn]
    BY <1>8 DEF Shutdown, DropRoutes
  <2>2. Pending' = {} /\ timers' = {}
    BY <2>1, SettleRemoves DEF RequestInv, OneTimerPerWaiter
  <2> QED BY <2>1, <2>2 DEF ClosedIsEmpty
<1> QED BY <1>1, <1>3, <1>4, <1>5, <1>6, <1>7, <1>8 DEF Next, HostStep

(* Nothing is registered, stored, pending or armed after close, whatever    *)
(* still arrives.                                                           *)
THEOREM ClosedStaysEmpty == SafeSpec => []ClosedIsEmpty
<1>1. Init => ClosedIsEmpty
  BY DEF Init, ClosedIsEmpty
<1> QED
  BY <1>1, TypeCorrect, OwnershipInit, OwnershipNext, RequestInit, RequestNext,
     ClosedNext, PTL DEF SafeSpec

-----------------------------------------------------------------------------
(* Stored actors. *)

(* What a step must satisfy to keep every record owned: a record that stays *)
(* or appears keeps or gets a session.                                      *)
LEMMA ActorsOwnedNext ==
  ASSUME TypeOK, OwnershipInv, ActorsOwned, [Next]_vars,
         "registryClear" \notin EmbedderApi
  PROVE  ActorsOwned'
<1> USE DEF ownVars
<1>1. CASE UNCHANGED <<sessions, actors>>
  BY <1>1 DEF ActorsOwned
<1>2. ASSUME NEW ws \in Socket, RemoveClient(ws)
      PROVE  ActorsOwned'
  <2> SUFFICES ASSUME NEW sid \in SessionId, actors'[sid] # NoConn
               PROVE  sessions'[sid] # NoSession /\ actors'[sid] = sid[1]
    BY DEF ActorsOwned
  <2> DEFINE gone == {s \in clientToSessions[ws] :
                        sessions[s] # NoSession /\ sessions[s].client = ws}
  <2>1. /\ sessions' = [s \in SessionId |->
                          IF s \in gone THEN NoSession ELSE sessions[s]]
        /\ actors' = [s \in SessionId |->
                        IF s \in gone /\ actors[s] = connection[ws]
                          THEN NoConn ELSE actors[s]]
    BY <1>2 DEF RemoveClient
  <2> HIDE DEF gone
  <2>2. actors[sid] # NoConn /\ actors'[sid] = actors[sid]
    BY <2>1
  <2>3. sessions[sid] # NoSession /\ actors[sid] = sid[1]
    BY <2>2 DEF ActorsOwned
  <2>4. sid \in gone => connection[ws] = sid[1]
    BY DEF gone, OwnershipInv, SessionsOwned
  <2>5. sid \notin gone
    BY <2>1, <2>2, <2>3, <2>4
  <2> QED BY <2>1, <2>2, <2>3, <2>5
<1>3. ASSUME NEW ws \in Socket, NEW local \in LocalId, RegisterActor(ws, local)
      PROVE  ActorsOwned'
  <2> DEFINE sid   == <<connection[ws], local>>
             fresh == [id |-> sid, client |-> ws, object |-> created + 1]
  <2>1. connection[ws] # NoConn /\ sid[1] = connection[ws]
    BY <1>3 DEF RegisterActor, Receives
  <2>2. sid \in SessionId
    BY <2>1 DEF TypeOK, SessionId
  <2>3. actors' = IF actors[sid] = NoConn
                    THEN [actors EXCEPT ![sid] = connection[ws]] ELSE actors
    BY <1>3 DEF RegisterActor
  <2>4. /\ sessions'[sid] # NoSession
        /\ \A s \in SessionId : s # sid => sessions'[s] = sessions[s]
    <3>1. CASE sessions[sid] # NoSession
      BY <1>3, <3>1 DEF RegisterActor
    <3>2. CASE sessions[sid] = NoSession
      <4>1. created < MaxSessions /\ sessions' = [sessions EXCEPT ![sid] = fresh]
        BY <1>3, <3>2 DEF RegisterActor
      <4>2. fresh # NoSession
        BY <2>1, <4>1, FreshSessionTyped, SentinelAssumption
           DEF SentinelAssumption
      <4> HIDE DEF fresh, sid
      <4> QED BY <2>2, <4>1, <4>2 DEF TypeOK
    <3> QED BY <3>1, <3>2
  <2> HIDE DEF sid
  <2> QED BY <2>1, <2>2, <2>3, <2>4 DEF ActorsOwned, TypeOK
<1>4. ASSUME NEW ws \in Socket, SocketStep(ws)
      PROVE  ActorsOwned'
  BY <1>1, <1>2, <1>3, <1>4
     DEF SocketStep, Accept, TerminateLateSocket, BeginClose, RejectHello,
         AcceptHello, HandleResponse
<1>5. ASSUME NEW r \in Command, CommandStep(r)
      PROVE  ActorsOwned'
  BY <1>1, <1>5
     DEF CommandStep, RefuseEvent, SendEvent, SendFailed, SendFlushed, Timeout
<1>6. CASE ClearStore \/ Shutdown
  BY <1>6 DEF ClearStore, Shutdown, ActorsOwned
<1>7. ASSUME NEW sid \in SessionId, HostRemovesActor(sid)
      PROVE  ActorsOwned'
  BY <1>7 DEF HostRemovesActor, ActorsOwned, TypeOK
<1>8. ~HostClearsRegistry
  BY DEF HostClearsRegistry
<1> QED BY <1>1, <1>4, <1>5, <1>6, <1>7, <1>8 DEF Next, HostStep, vars

(* Sessions belong to the live connection their id names, the two ownership *)
(* maps agree, and no stored actor outlives its owner, unless a host clears *)
(* the registry on its own; after any order of frames, closes and clears.   *)
THEOREM OwnershipHolds == SafeSpec => []Ownership
<1> DEFINE StoreOwned == "registryClear" \notin EmbedderApi => ActorsOwned
<1>1. Init => StoreOwned
  BY DEF Init, ActorsOwned
<1>2. TypeOK /\ OwnershipInv /\ StoreOwned /\ [Next]_vars => StoreOwned'
  BY ActorsOwnedNext
<1>3. OwnershipInv /\ StoreOwned => Ownership
  BY DEF OwnershipInv, Ownership
<1> HIDE DEF StoreOwned
<1> QED
  BY <1>1, <1>2, <1>3, TypeCorrect, OwnershipInit, OwnershipNext, PTL DEF SafeSpec

-----------------------------------------------------------------------------
(* Connections. *)

LEMMA ConnectionStep ==
  ASSUME TypeOK, OwnershipInv, Next
  PROVE  /\ \A c \in minted \ LiveConns : c \notin LiveConns'
         /\ \A ws \in Socket :
              connection[ws] # NoConn /\ connection'[ws] = NoConn =>
                RemoveClient(ws)
<1>1. CASE UNCHANGED connection
  BY <1>1 DEF LiveConns
<1>2. ASSUME NEW ws \in Socket, NEW c \in ConnId, Accept(ws, c)
      PROVE  /\ \A d \in minted \ LiveConns : d \notin LiveConns'
             /\ \A v \in Socket : ~(connection[v] # NoConn /\ connection'[v] = NoConn)
  BY <1>2, SentinelAssumption DEF SentinelAssumption, Accept, LiveConns, TypeOK
<1>3. ASSUME NEW ws \in Socket, RemoveClient(ws)
      PROVE  /\ \A d \in minted \ LiveConns : d \notin LiveConns'
             /\ \A v \in Socket :
                  connection[v] # NoConn /\ connection'[v] = NoConn => v = ws
  BY <1>3 DEF RemoveClient, LiveConns, TypeOK
<1>4. CASE \E ws \in Socket : SocketStep(ws)
  BY <1>1, <1>2, <1>3, <1>4
     DEF SocketStep, TerminateLateSocket, BeginClose, RejectHello, AcceptHello,
         RegisterActor, HandleResponse, netVars
<1>5. CASE \E r \in Command : CommandStep(r)
  BY <1>1, <1>5
     DEF CommandStep, RefuseEvent, SendEvent, SendFailed, SendFlushed, Timeout,
         netVars
<1>6. CASE HostStep
  BY <1>1, <1>6
     DEF HostStep, ClearStore, HostRemovesActor, HostClearsRegistry, Shutdown,
         netVars
<1> QED BY <1>4, <1>5, <1>6 DEF Next

(* A reconnect never revives a connection id, hence no public actor id.     *)
THEOREM ConnectionIdsStayDead == SafeSpec => ConnectionIdsNotReused
<1> DEFINE Step == \A c \in minted \ LiveConns : c \notin LiveConns'
<1>1. TypeOK /\ OwnershipInv /\ [Next]_vars => [Step]_vars
  BY ConnectionStep
<1>2. SafeSpec => [][Step]_vars
  BY <1>1, TypeCorrect, OwnershipInit, OwnershipNext, PTL DEF SafeSpec
<1> QED BY <1>2 DEF ConnectionIdsNotReused

LEMMA DisconnectStep ==
  ASSUME TypeOK, OwnershipInv, NEW ws \in Socket, RemoveClient(ws)
  PROVE  /\ \A sid \in SessionId : sid[1] # connection[ws] =>
              sessions'[sid] = sessions[sid] /\ actors'[sid] = actors[sid]
         /\ \A r \in Pending : pending[r].client # ws => pending'[r] = pending[r]
<1>1. \A sid \in SessionId :
        sessions[sid] # NoSession /\ sessions[sid].client = ws =>
          sid[1] = connection[ws]
  BY DEF OwnershipInv, SessionsOwned
<1>2. \A sid \in SessionId : sid[1] # connection[ws] =>
              sessions'[sid] = sessions[sid] /\ actors'[sid] = actors[sid]
  BY <1>1 DEF RemoveClient
<1>3. \A r \in Pending : pending[r].client # ws => pending'[r] = pending[r]
  BY DEF RemoveClient, Settle, PendingOf, Pending
<1> QED BY <1>2, <1>3

(* A disconnect fails only the commands, and drops only the actors, of the  *)
(* connection that ended.                                                   *)
THEOREM DisconnectsStayLocal == SafeSpec => DisconnectIsLocal
<1> DEFINE Step == \A ws \in Socket :
             connection[ws] # NoConn /\ connection'[ws] = NoConn =>
               /\ \A sid \in SessionId : sid[1] # connection[ws] =>
                    /\ sessions'[sid] = sessions[sid]
                    /\ actors'[sid] = actors[sid]
               /\ \A r \in Pending : pending[r].client # ws =>
                    pending'[r] = pending[r]
<1>1. TypeOK /\ OwnershipInv /\ [Next]_vars => [Step]_vars
  BY ConnectionStep, DisconnectStep
<1>2. SafeSpec => [][Step]_vars
  BY <1>1, TypeCorrect, OwnershipInit, OwnershipNext, PTL DEF SafeSpec
<1> QED BY <1>2 DEF DisconnectIsLocal

-----------------------------------------------------------------------------
(* The registry implements the contract of CommandContract. *)

LEMMA ContractInitially == Init => Promise!ContractInit
  BY DEF Init, Promise!ContractInit, Phase, RouteOf, LiveConns

(* A step that changes neither outcomes nor connections is invisible.       *)
LEMMA ContractStutter ==
  ASSUME UNCHANGED <<outcome, sent, connection, minted, closed>>
  PROVE  UNCHANGED Promise!contractVars
  BY DEF Promise!contractVars, Phase, RouteOf, LiveConns

(* The commands the contract sees waiting on the connection of a socket are *)
(* the socket's pending requests.                                           *)
LEMMA WaitingIsPending ==
  ASSUME TypeOK, OwnershipInv, RequestInv, NEW r \in Command
  PROVE  /\ Phase(outcome[r]) = "waiting" <=> r \in Pending
         /\ r \in Pending =>
              /\ pending[r].client \in Socket
              /\ RouteOf(r) = connection[pending[r].client]
              /\ RouteOf(r) \in ConnId
              /\ RouteOf(r) \in LiveConns
<1>1. Phase(outcome[r]) = "waiting" <=> r \in Pending
  BY DEF RequestInv, OneTimerPerWaiter, Phase
<1>2. ASSUME r \in Pending
      PROVE  /\ pending[r].client \in Socket
             /\ RouteOf(r) = connection[pending[r].client]
             /\ RouteOf(r) \in ConnId
             /\ RouteOf(r) \in LiveConns
  <2>1. /\ pending[r] \in Session /\ pending[r] # NoSession
        /\ sent[r] = pending[r] /\ sessions[pending[r].id] = pending[r]
    BY <1>2 DEF Pending, RequestInv, PendingRouted, TypeOK
  <2>2. pending[r].client \in Socket /\ pending[r].id \in SessionId
    BY <2>1 DEF Session
  <2>3. connection[pending[r].client] = pending[r].id[1]
    BY <2>1, <2>2 DEF OwnershipInv, SessionsOwned
  <2>4. pending[r].id[1] \in ConnId
    BY <2>2 DEF SessionId
  <2>5. RouteOf(r) = pending[r].id[1]
    BY <2>1 DEF RouteOf
  <2> QED
    BY <2>2, <2>3, <2>4, <2>5, SentinelAssumption
       DEF SentinelAssumption, LiveConns
<1> QED BY <1>1, <1>2

(* Settling shows in the contract as failing or answering those requests.   *)
LEMMA SettleInContract ==
  ASSUME TypeOK, OwnershipInv, RequestInv, NEW S, NEW expired,
         NEW why \in Answers \cup Failures, Settle(S, expired, why)
  PROVE  \A r \in Command : Phase(outcome'[r]) =
           IF r \in Pending /\ r \in S
             THEN IF why \in Answers THEN "answered" ELSE "failed"
             ELSE Phase(outcome[r])
  BY SettleRemoves DEF Phase, Answers, Failures

LEMMA ContractSocketStep ==
  ASSUME TypeOK, OwnershipInv, RequestInv, NEW ws \in Socket, SocketStep(ws)
  PROVE  Promise!ContractNext \/ UNCHANGED Promise!contractVars
<1> USE DEF netVars, protVars, ownVars, reqVars
<1>1. ASSUME NEW c \in ConnId, Accept(ws, c)
      PROVE  Promise!Connect(c)
  <2>1. connection[ws] = NoConn /\ c \notin minted
    BY <1>1 DEF Accept, OwnershipInv, ConnectionsDistinct
  <2>2. LiveConns' = LiveConns \cup {c}
    BY <1>1, <2>1, SentinelAssumption
       DEF SentinelAssumption, Accept, LiveConns, TypeOK
  <2> QED BY <1>1, <2>1, <2>2 DEF Accept, Promise!Connect, RouteOf, Phase
<1>2. ASSUME RemoveClient(ws), connection[ws] = NoConn
      PROVE  UNCHANGED Promise!contractVars
  <2>1. PendingOf(ws) = {}
    BY <1>2, WaitingIsPending, SentinelAssumption
       DEF SentinelAssumption, PendingOf, Pending
  <2>2. /\ Settle(PendingOf(ws), {}, "disconnected")
        /\ connection' = [connection EXCEPT ![ws] = NoConn]
        /\ UNCHANGED <<sent, minted, closed>>
    BY <1>2 DEF RemoveClient
  <2>3. UNCHANGED outcome
    BY <2>1, <2>2 DEF Settle, TypeOK
  <2>4. UNCHANGED connection
    BY <1>2, <2>2 DEF TypeOK
  <2> QED BY <2>2, <2>3, <2>4, ContractStutter
<1>3. ASSUME RemoveClient(ws), connection[ws] # NoConn
      PROVE  connection[ws] \in ConnId /\ Promise!Disconnect(connection[ws])
  <2>1. connection[ws] \in ConnId /\ connection[ws] \in LiveConns
    BY <1>3 DEF TypeOK, LiveConns
  <2>2. LiveConns' = LiveConns \ {connection[ws]}
    BY <1>3 DEF RemoveClient, LiveConns, OwnershipInv, ConnectionsDistinct, TypeOK
  <2>3. \A r \in Command : r \in PendingOf(ws) <=>
          Phase(outcome[r]) = "waiting" /\ RouteOf(r) = connection[ws]
    BY <1>3, WaitingIsPending DEF PendingOf, OwnershipInv, ConnectionsDistinct
  <2>4. \A r \in Command : Phase(outcome'[r]) =
          IF r \in PendingOf(ws) THEN "failed" ELSE Phase(outcome[r])
    <3>1. Settle(PendingOf(ws), {}, "disconnected")
      BY <1>3 DEF RemoveClient
    <3> QED BY <3>1, SettleInContract DEF Failures, Answers, PendingOf
  <2>5. UNCHANGED <<sent, minted, closed>>
    BY <1>3 DEF RemoveClient
  <2> QED
    BY <2>1, <2>2, <2>3, <2>4, <2>5
       DEF Promise!Disconnect, Promise!FailAll, Promise!WaitingOn, RouteOf
<1>4. ASSUME NEW r \in Command, NEW answer \in Answers,
             HandleResponse(ws, r, answer)
      PROVE  Promise!Answer(r)
  <2>1. /\ Settle({r}, {}, answer) /\ r \in Pending
        /\ UNCHANGED <<sent, connection, minted, closed>>
    BY <1>4 DEF HandleResponse
  <2>2. \A q \in Command : Phase(outcome'[q]) =
          IF q = r THEN "answered" ELSE Phase(outcome[q])
    BY <2>1, SettleInContract
  <2>3. Phase(outcome[r]) = "waiting" /\ RouteOf(r) \in LiveConns
    BY <2>1, WaitingIsPending
  <2>4. LiveConns' = LiveConns /\ \A q \in Command : RouteOf(q)' = RouteOf(q)
    BY <2>1 DEF LiveConns, RouteOf
  <2> HIDE DEF reqVars
  <2>5. UNCHANGED <<minted, closed>>
    BY <2>1
  <2> QED
    BY <2>2, <2>3, <2>4, <2>5 DEF Promise!Answer
<1>5. CASE \/ TerminateLateSocket(ws) \/ BeginClose(ws)
           \/ \E verdict \in {"invalid", "incompatible"} : RejectHello(ws, verdict)
           \/ \E h \in Hello : AcceptHello(ws, h)
           \/ \E local \in LocalId : RegisterActor(ws, local)
  BY <1>5, ContractStutter
     DEF TerminateLateSocket, BeginClose, RejectHello, AcceptHello, RegisterActor
<1> QED
  BY <1>1, <1>2, <1>3, <1>4, <1>5 DEF SocketStep, Promise!ContractNext

LEMMA ContractCommandStep ==
  ASSUME TypeOK, OwnershipInv, RequestInv, NEW r \in Command, CommandStep(r)
  PROVE  Promise!ContractNext \/ UNCHANGED Promise!contractVars
<1> USE DEF netVars, protVars, ownVars, reqVars
<1>1. ASSUME NEW sid \in SessionId, NEW event \in Event,
             RefuseEvent(r, sid, event)
      PROVE  Promise!Refuse(r)
  <2>1. /\ outcome[r] = "idle" /\ outcome' = [outcome EXCEPT ![r] = "refused"]
        /\ UNCHANGED <<sent, connection, minted, closed>>
    BY <1>1 DEF RefuseEvent
  <2> HIDE DEF netVars, protVars, ownVars, reqVars
  <2>2. /\ Phase(outcome[r]) = "idle" /\ Phase(outcome'[r]) = "refused"
        /\ \A q \in Command \ {r} : Phase(outcome'[q]) = Phase(outcome[q])
    BY <2>1 DEF Phase, TypeOK
  <2>3. LiveConns' = LiveConns /\ \A q \in Command : RouteOf(q)' = RouteOf(q)
    BY <2>1 DEF LiveConns, RouteOf
  <2>4. UNCHANGED <<minted, closed>>
    BY <2>1
  <2> QED  BY <2>2, <2>3, <2>4 DEF Promise!Refuse
<1>2. ASSUME NEW sid \in SessionId, NEW event \in Event, SendEvent(r, sid, event)
      PROVE  Promise!RouteTo(r, sid[1]) /\ sid[1] \in ConnId
  <2>1. /\ ~closed /\ outcome[r] = "idle"
        /\ outcome' = [outcome EXCEPT ![r] = "waiting"]
        /\ sent' = [sent EXCEPT ![r] = sessions[sid]]
        /\ sessions[sid] # NoSession
        /\ UNCHANGED <<connection, minted, closed>>
    BY <1>2 DEF SendEvent, Routable
  <2>2. sessions[sid].id = sid /\ connection[sessions[sid].client] = sid[1]
    BY <2>1 DEF OwnershipInv, SessionsOwned
  <2>3. sid[1] \in ConnId /\ sessions[sid].client \in Socket
    BY <2>1 DEF SessionId, Session, TypeOK
  <2>4. sid[1] \in LiveConns
    BY <2>2, <2>3, SentinelAssumption DEF SentinelAssumption, LiveConns
  <2>5. \A q \in Command :
          /\ Phase(outcome'[q]) = IF q = r THEN "waiting" ELSE Phase(outcome[q])
          /\ RouteOf(q)' = IF q = r THEN sid[1] ELSE RouteOf(q)
    BY <2>1, <2>2 DEF Phase, RouteOf, TypeOK
  <2>6. Phase(outcome[r]) = "idle"
    BY <2>1 DEF Phase
  <2> QED
    BY <2>1, <2>3, <2>4, <2>5, <2>6 DEF Promise!RouteTo, LiveConns
<1>3. ASSUME SendFailed(r) \/ Timeout(r)
      PROVE  Promise!Fail(r) \/ UNCHANGED Promise!contractVars
  <2>1. PICK expired \in SUBSET {r}, why \in Failures :
          Settle({r}, expired, why)
    BY <1>3 DEF SendFailed, Timeout, Failures
  <2>2. UNCHANGED <<sent, connection, minted, closed>>
    BY <1>3 DEF SendFailed, Timeout
  <2>3. why \notin Answers
    BY DEF Answers, Failures
  <2>4. \A q \in Command : Phase(outcome'[q]) =
          IF q \in Pending /\ q = r THEN "failed" ELSE Phase(outcome[q])
    BY <2>1, <2>3, SettleInContract
  <2>5. CASE r \in Pending
    BY <2>2, <2>4, <2>5, WaitingIsPending
       DEF Promise!Fail, Promise!FailAll, RouteOf, LiveConns
  <2>6. CASE r \notin Pending
    BY <2>2, <2>4, <2>6 DEF Promise!contractVars, RouteOf, LiveConns
  <2> QED BY <2>5, <2>6
<1>4. CASE SendFlushed(r)
  BY <1>4, ContractStutter DEF SendFlushed
<1> QED BY <1>1, <1>2, <1>3, <1>4 DEF CommandStep, Promise!ContractNext

LEMMA ContractHostStep ==
  ASSUME TypeOK, OwnershipInv, RequestInv, HostStep
  PROVE  Promise!ContractNext \/ UNCHANGED Promise!contractVars
<1> USE DEF netVars, protVars, ownVars, reqVars
<1>1. ASSUME NEW why \in Failures, DropRoutes(why)
      PROVE  \A r \in Command : Phase(outcome'[r]) =
               IF Phase(outcome[r]) = "waiting" THEN "failed"
               ELSE Phase(outcome[r])
  <2>1. Settle(Command, {}, why) /\ why \notin Answers
    BY <1>1 DEF DropRoutes, Answers, Failures
  <2> QED BY <2>1, SettleInContract, WaitingIsPending
<1>2. CASE ClearStore \/ HostClearsRegistry
  <2>1. DropRoutes("cleared") /\ UNCHANGED <<sent, connection, minted, closed>>
    BY <1>2 DEF ClearStore, HostClearsRegistry
  <2>2. "cleared" \in Failures
    BY DEF Failures
  <2> QED
    BY <1>1, <2>1, <2>2
       DEF Promise!ContractNext, Promise!FailEverything, Promise!FailAll,
           RouteOf, LiveConns
<1>3. CASE Shutdown
  <2>1. /\ DropRoutes("shutdown") /\ ~closed /\ closed' = TRUE
        /\ UNCHANGED <<sent, connection, minted>>
    BY <1>3 DEF Shutdown
  <2>2. "shutdown" \in Failures
    BY DEF Failures
  <2> QED
    BY <1>1, <2>1, <2>2
       DEF Promise!ContractNext, Promise!Stop, Promise!FailAll, RouteOf,
           LiveConns
<1>4. CASE \E sid \in SessionId : HostRemovesActor(sid)
  BY <1>4, ContractStutter DEF HostRemovesActor
<1> QED BY <1>2, <1>3, <1>4 DEF HostStep

(* Whatever the sockets, timers and hosts do, callers see the contract.     *)
THEOREM RegistryKeepsContract == SafeSpec => Promise!Contract
<1>1. /\ TypeOK /\ OwnershipInv /\ RequestInv /\ [Next]_vars
      => [Promise!ContractNext]_Promise!contractVars
  <2>1. CASE UNCHANGED vars
    BY <2>1, ContractStutter DEF vars, netVars, reqVars
  <2> QED
    BY <2>1, ContractSocketStep, ContractCommandStep, ContractHostStep DEF Next
<1> QED
  BY <1>1, ContractInitially, TypeCorrect, OwnershipInit, OwnershipNext,
     RequestInit, RequestNext, PTL DEF SafeSpec, Promise!Contract
=============================================================================
