------------------------- MODULE DemoInspectorProofs -------------------------
(***************************************************************************)
(* Proofs about the demo adapter for any sockets, actors and limits.        *)
(***************************************************************************)
EXTENDS DemoInspector, SequenceTheorems, TLAPS

-----------------------------------------------------------------------------
(* The connection *)

\* The current socket is there until its close event, an open one carries its own
\* epoch, and a negotiated one has been open.
SocketHolds ==
  /\ ws # NoSocket => socket[ws] \in {"connecting", "open", "closing"}
  /\ Live(ws) => epoch = ws
  /\ disposed => ws = NoSocket
  /\ negotiated => ws # NoSocket /\ socket[ws] \in {"open", "closing"}

LinkTyped ==
  /\ {ws, epoch, negotiationDeadline} \subseteq Socket \cup {NoSocket}
  /\ {negotiated, retry, disposed, paused, rejected} \subseteq BOOLEAN
  /\ reconnectButton \in BOOLEAN
  /\ label \in {"none", "connecting", "connected", "disconnected", "rejected"}
  /\ socket \in [Socket -> ReadyState]

LinkInv == LinkTyped /\ SocketHolds /\ Pursued /\ OneSocket /\ PageTellsTruth

LEMMA LinkInit == Init => LinkInv
BY DEF Init, LinkInv, LinkTyped, SocketHolds, Pursued, OneSocket, PageTellsTruth,
       Live, Open, Refused, ReadyState

\* What a message does to the connection.
LinkKept == UNCHANGED <<negotiated, negotiationDeadline, label, rejected,
                        reconnectButton, socket>>

LEMMA OthersKeepLink ==
  /\ Ignored => LinkKept
  /\ \A permitted \in BOOLEAN : HandleCommand(permitted) => LinkKept
BY DEF Ignored, HandleCommand, LinkKept

LEMMA MessageCases ==
  ASSUME NEW s \in Socket, OnMessage(s)
  PROVE  \/ LinkKept
         \/ /\ Open(s) /\ s = ws /\ ~disposed /\ ~paused /\ ~negotiated
            /\ Accepted \/ Rejects
BY OthersKeepLink DEF OnMessage

LEMMA LinkNext == LinkInv /\ [Next]_vars => LinkInv'
<1> SUFFICES ASSUME LinkInv, [Next]_vars PROVE LinkInv'
  OBVIOUS
<1> USE NoSocketAssumption
    DEF NoSocketAssumption, LinkInv, LinkTyped, SocketHolds, Pursued, OneSocket,
        PageTellsTruth, Live, Open, Refused, ReadyState, adapter, page, data, net
<1>1. ASSUME UNCHANGED <<adapter, page, socket>> PROVE LinkInv'
  BY <1>1
<1>2. ASSUME connect PROVE LinkInv'
  <2>1. PICK s \in Socket : Construct(s, socket, ws, reconnectButton)
    BY <1>2 DEF connect
  <2>2. /\ UNCHANGED <<disposed, paused>> /\ ~disposed /\ ~paused /\ ~rejected
        /\ \A t \in Socket : socket[t] \notin {"connecting", "open"}
        /\ ws = NoSocket \/ socket[ws] = "closing"
    BY <1>2 DEF connect
  <2>3. CASE socket' = [socket EXCEPT ![s] = "connecting"] /\ ws' = s
    <3>1. /\ epoch' = s /\ retry' = FALSE /\ negotiationDeadline' = NoSocket
          /\ negotiated' = FALSE /\ rejected' = FALSE /\ label' = "connecting"
          /\ reconnectButton' = reconnectButton
      BY <2>1, <2>3, <2>2 DEF Construct
    <3>2. socket'[s] = "connecting" /\ \A t \in Socket \ {s} : socket'[t] = socket[t]
      BY <2>3
    <3>3. LinkTyped'
      BY <2>2, <2>3, <3>1
    <3>4. SocketHolds' /\ Pursued' /\ OneSocket'
      BY <2>2, <2>3, <3>1, <3>2
    <3>5. PageTellsTruth'
      BY <2>2, <3>1
    <3> QED  BY <3>3, <3>4, <3>5
  <2>4. CASE socket' = socket /\ ws' = ws /\ rejected' = TRUE
    BY <2>1, <2>2, <2>4 DEF Construct
  <2> QED  BY <2>1, <2>3, <2>4 DEF Construct
<1>3. CASE Retry
  BY <1>2, <1>3 DEF Retry
<1>4. CASE Resume
  <2>1. PICK s \in Socket : Construct(s, Closed(ws), NoSocket, FALSE)
    BY <1>4 DEF Resume
  <2>2. UNCHANGED disposed /\ ~disposed /\ paused' = FALSE
    BY <1>4 DEF Resume
  <2>3. /\ Closed(ws) \in [Socket -> {"gone", "closing"}]
    BY DEF Closed
  <2>4. CASE socket' = [Closed(ws) EXCEPT ![s] = "connecting"] /\ ws' = s
    BY <2>1, <2>2, <2>3, <2>4 DEF Construct
  <2>5. CASE socket' = Closed(ws) /\ ws' = NoSocket /\ rejected' = TRUE
    BY <2>1, <2>2, <2>3, <2>5 DEF Construct
  <2> QED  BY <2>1, <2>4, <2>5 DEF Construct
<1>5. CASE Pause
  BY <1>5 DEF Pause, Closed
<1>6. CASE dispose
  BY <1>6 DEF dispose, Closed
<1>7. CASE DeadlineFires
  BY <1>7 DEF DeadlineFires, Closed
<1>8. ASSUME NEW s \in Socket, OnOpen(s) PROVE LinkInv'
  BY <1>8 DEF OnOpen
<1>9. ASSUME NEW s \in Socket, OnClose(s) PROVE LinkInv'
  <2>1. CASE s # ws \/ disposed
    BY <1>9, <2>1 DEF OnClose
  <2>2. CASE s = ws /\ ~disposed
    <3>1. /\ socket' = [socket EXCEPT ![s] = "gone"] /\ ws' = NoSocket /\ negotiated' = FALSE
          /\ negotiationDeadline' = NoSocket
          /\ label' = IF rejected THEN label ELSE "disconnected"
          /\ retry' = (retry \/ ~(rejected \/ paused))
          /\ UNCHANGED <<epoch, disposed, paused, rejected, reconnectButton>>
      BY <1>9, <2>2 DEF OnClose
    <3>2. ~retry
      BY <2>2
    <3>3. CASE rejected \/ paused
      BY <2>2, <3>1, <3>2, <3>3
    <3>4. CASE ~rejected /\ ~paused
      BY <2>2, <3>1, <3>2, <3>4
    <3> QED  BY <3>3, <3>4
  <2> QED  BY <2>1, <2>2
<1>10. ASSUME NEW s \in Socket, Drop(s) PROVE LinkInv'
  BY <1>10 DEF Drop
<1>11. ASSUME NEW s \in Socket, OnMessage(s) PROVE LinkInv'
  <2>1. CASE LinkKept
    BY <1>11, <2>1 DEF OnMessage, LinkKept
  <2>2. CASE Open(s) /\ s = ws /\ ~disposed /\ ~paused /\ ~negotiated /\ Accepted
    BY <1>11, <2>2 DEF OnMessage, Accepted
  <2>3. CASE Open(s) /\ s = ws /\ ~disposed /\ ~paused /\ ~negotiated /\ Rejects
    BY <1>11, <2>3 DEF OnMessage, Rejects, Closed
  <2>4. \/ LinkKept
        \/ Open(s) /\ s = ws /\ ~disposed /\ ~paused /\ ~negotiated /\ (Accepted \/ Rejects)
    BY <1>11, MessageCases
  <2> QED  BY <2>1, <2>2, <2>3, <2>4
<1> HIDE DEF LinkInv
<1> QED
  BY <1>1, <1>2, <1>3, <1>4, <1>5, <1>6, <1>7, <1>8, <1>9, <1>10, <1>11
     DEF Next, Load, InspectActor, InspectSnapshot, InspectEvent, HelloArrives,
         BridgeCommands, BridgeTurns, vars

-----------------------------------------------------------------------------
(* What the bridge has been told *)

\* The bridge knows every tracked actor of an emitting connection.
Told ==
  /\ actors \in 0 .. Len(Actor)
  /\ known \in [Socket -> SUBSET (Socket \X Actors)]
  /\ UpdatesUnderstood
  /\ Emits => \A a \in Tracked : <<ws, a>> \in known[ws]
  /\ \A i \in DOMAIN recent : recent[i][2] \in Tracked

\* Kept events are the newest ones, and wait only while nothing is emitted.
Queue ==
  /\ captured \in 0 .. MaxEvents
  /\ recent \in Seq((1 .. MaxEvents) \X Actors)
  /\ Len(recent) <= RecentLimit /\ Len(recent) <= captured
  /\ \A i \in 1 .. Len(recent) : recent[i][1] = captured - Len(recent) + i
  /\ Emits => recent = <<>>

\* Delivered events are older than those that are kept, and no event in between
\* is missing but those that are too old to keep.
Sent ==
  /\ delivered \in Seq(1 .. MaxEvents)
  /\ \A i, j \in DOMAIN delivered : i < j => delivered[i] < delivered[j]
  /\ \A i \in DOMAIN delivered : delivered[i] <= captured - Len(recent)
  /\ ~disposed =>
       \A n \in 1 .. captured - Len(recent) :
         n > captured - RecentLimit => \E i \in DOMAIN delivered : delivered[i] = n

DataInv == Told /\ Queue /\ Sent

LEMMA ActorFacts ==
  /\ Len(Actor) \in Nat /\ DOMAIN Actor = 1 .. Len(Actor)
  /\ actors \in 0 .. Len(Actor) => Tracked \subseteq Actors
BY ActorAssumption DEF ActorAssumption, Tracked, Actors

LEMMA DataInit == Init => DataInv
<1> SUFFICES ASSUME Init PROVE DataInv
  OBVIOUS
<1>1. Told
  BY ActorFacts DEF Init, Told, UpdatesUnderstood, Emits, Tracked
<1>2. Queue
  BY BoundAssumption, RecentAssumption
     DEF BoundAssumption, RecentAssumption, Init, Queue
<1>3. Sent
  BY DEF Init, Sent
<1> QED  BY <1>1, <1>2, <1>3 DEF DataInv

\* Frames on an open socket.
LEMMA SendsTell ==
  ASSUME LinkInv, Told, Open(ws), NEW registered \in SUBSET Actors, NEW updated,
         Sends(registered, updated),
         \A a \in updated : a \in registered \/ <<ws, a>> \in known[ws]
  PROVE  /\ known' \in [Socket -> SUBSET (Socket \X Actors)]
         /\ ~stray' /\ \A s \in Socket : known'[s] \subseteq {s} \X Actors
         /\ known[ws] \subseteq known'[ws]
         /\ \A a \in registered : <<ws, a>> \in known'[ws]
<1>1. ws \in Socket /\ epoch = ws
  BY DEF LinkInv, LinkTyped, SocketHolds, Live, Open
<1>2. ~stray /\ \A s \in Socket : known[s] \subseteq {s} \X Actors
  BY DEF Told, UpdatesUnderstood
<1> DEFINE told == known[ws] \cup {<<ws, a>> : a \in registered}
<1>3. known' = [known EXCEPT ![ws] = told] /\ ~stray'
  BY <1>1, <1>2 DEF Sends, wireId
<1>4. told \subseteq {ws} \X Actors
  BY <1>1, <1>2
<1>5. known'[ws] = told /\ \A s \in Socket \ {ws} : known'[s] = known[s]
  BY <1>1, <1>3 DEF Told
<1>6. \A s \in Socket : known'[s] \subseteq {s} \X Actors
  BY <1>2, <1>4, <1>5
<1>7. known' \in [Socket -> SUBSET (Socket \X Actors)]
  BY <1>1, <1>3, <1>4 DEF Told
<1>8. \A a \in registered : <<ws, a>> \in told
  OBVIOUS
<1> HIDE DEF told
<1>9. known[ws] \subseteq told
  BY DEF told
<1> QED  BY <1>3, <1>5, <1>6, <1>7, <1>8, <1>9

\* Frames a page sends when it may.
LEMMA EmitTells ==
  ASSUME LinkInv, Told, NEW registered \in SUBSET Actors, NEW updated,
         emit(registered, updated),
         \A a \in updated : a \in registered \/ a \in Tracked
  PROVE  /\ known' \in [Socket -> SUBSET (Socket \X Actors)]
         /\ ~stray' /\ \A s \in Socket : known'[s] \subseteq {s} \X Actors
         /\ Emits => /\ known[ws] \subseteq known'[ws]
                     /\ \A a \in registered : <<ws, a>> \in known'[ws]
<1>1. CASE Emits
  BY <1>1, SendsTell DEF emit, Emits, Told
<1>2. CASE ~Emits
  BY <1>2 DEF emit, Told, UpdatesUnderstood
<1> QED  BY <1>1, <1>2

\* The kept events once the oldest has given way when there are too many.
Trimmed == IF Len(recent) = RecentLimit THEN Tail(recent) ELSE recent

LEMMA KeepNewest ==
  ASSUME Queue, NEW a \in Actors, captured < MaxEvents, captured' = captured + 1,
         recent' = Append(Trimmed, <<captured + 1, a>>)
  PROVE  /\ captured' \in 0 .. MaxEvents
         /\ recent' \in Seq((1 .. MaxEvents) \X Actors)
         /\ Len(recent') <= RecentLimit /\ Len(recent') <= captured'
         /\ \A i \in 1 .. Len(recent') : recent'[i][1] = captured' - Len(recent') + i
         /\ Len(recent) = RecentLimit => captured' - Len(recent') = captured + 1 - RecentLimit
         /\ Len(recent) # RecentLimit => captured' - Len(recent') = captured - Len(recent)
         /\ \A i \in 1 .. Len(recent') :
              recent'[i][2] = a \/ \E j \in DOMAIN recent : recent'[i][2] = recent[j][2]
<1> DEFINE Kept == (1 .. MaxEvents) \X Actors
<1>1. /\ RecentLimit \in Nat \ {0} /\ MaxEvents \in Nat /\ captured \in 0 .. MaxEvents
      /\ recent \in Seq(Kept) /\ Len(recent) <= RecentLimit /\ Len(recent) <= captured
      /\ \A i \in 1 .. Len(recent) : recent[i][1] = captured - Len(recent) + i
  BY BoundAssumption, RecentAssumption DEF BoundAssumption, RecentAssumption, Queue
<1>2. <<captured + 1, a>> \in Kept
  BY <1>1
<1> HIDE DEF Kept
<1>3. /\ Trimmed \in Seq(Kept)
      /\ Len(Trimmed) = IF Len(recent) = RecentLimit THEN RecentLimit - 1 ELSE Len(recent)
      /\ \A i \in 1 .. Len(Trimmed) : /\ Trimmed[i][1] = captured - Len(Trimmed) + i
                                   /\ \E j \in DOMAIN recent : Trimmed[i] = recent[j]
  <2>1. CASE Len(recent) = RecentLimit
    <3>1. recent # <<>> /\ Trimmed = Tail(recent)
      BY <1>1, <2>1 DEF Trimmed
    <3>2. /\ Trimmed \in Seq(Kept) /\ Len(Trimmed) = RecentLimit - 1
          /\ \A i \in 1 .. Len(Trimmed) : Trimmed[i] = recent[i + 1]
      BY <1>1, <2>1, <3>1
    <3>3. \A i \in 1 .. Len(Trimmed) : i + 1 \in 1 .. Len(recent) /\ i + 1 \in DOMAIN recent
      BY <1>1, <2>1, <3>2
    <3>4. \A i \in 1 .. Len(Trimmed) : Trimmed[i][1] = captured - Len(Trimmed) + i
      BY <1>1, <2>1, <3>2, <3>3
    <3> QED  BY <2>1, <3>2, <3>3, <3>4
  <2>2. CASE Len(recent) # RecentLimit
    <3>1. Trimmed = recent
      BY <2>2 DEF Trimmed
    <3>2. \A i \in 1 .. Len(recent) : i \in DOMAIN recent
      BY <1>1
    <3> QED  BY <1>1, <2>2, <3>1, <3>2
  <2> QED  BY <2>1, <2>2
<1>4. /\ recent' \in Seq(Kept) /\ Len(recent') = Len(Trimmed) + 1
      /\ recent'[Len(Trimmed) + 1] = <<captured + 1, a>>
      /\ \A i \in 1 .. Len(Trimmed) : recent'[i] = Trimmed[i]
  BY <1>2, <1>3
<1>5. \A i \in 1 .. Len(recent') : i \in 1 .. Len(Trimmed) \/ i = Len(Trimmed) + 1
  BY <1>3, <1>4
<1>6. \A i \in 1 .. Len(recent') : recent'[i][1] = captured' - Len(recent') + i
  <2>1. Len(Trimmed) \in Nat /\ captured \in Nat /\ captured' = captured + 1
    BY <1>1, <1>3
  <2>2. \A i \in 1 .. Len(Trimmed) : recent'[i][1] = captured - Len(Trimmed) + i
    BY <1>3, <1>4
  <2>3. recent'[Len(Trimmed) + 1][1] = captured + 1
    BY <1>4
  <2>4. Len(recent') = Len(Trimmed) + 1
    BY <1>4
  <2>5. ASSUME NEW i \in 1 .. Len(recent') PROVE recent'[i][1] = captured' - Len(recent') + i
    <3>1. CASE i \in 1 .. Len(Trimmed)
      <4>1. recent'[i][1] = captured - Len(Trimmed) + i
        BY <2>2, <3>1
      <4> QED  BY <2>1, <2>4, <4>1
    <3>2. CASE i = Len(Trimmed) + 1
      <4>1. recent'[i][1] = captured + 1
        BY <2>3, <3>2
      <4> QED  BY <2>1, <2>4, <3>2, <4>1
    <3> QED  BY <1>5, <3>1, <3>2
  <2> QED  BY <2>5
<1>7. \A i \in 1 .. Len(recent') :
        recent'[i][2] = a \/ \E j \in DOMAIN recent : recent'[i][2] = recent[j][2]
  BY <1>3, <1>4, <1>5
<1>8. /\ captured' \in 0 .. MaxEvents
      /\ Len(recent') <= RecentLimit /\ Len(recent') <= captured'
      /\ Len(recent) = RecentLimit => captured' - Len(recent') = captured + 1 - RecentLimit
      /\ Len(recent) # RecentLimit => captured' - Len(recent') = captured - Len(recent)
  <2>1. /\ Len(recent) \in Nat /\ Len(recent') = Len(Trimmed) + 1 /\ captured \in Nat
        /\ Len(Trimmed) = IF Len(recent) = RecentLimit THEN RecentLimit - 1 ELSE Len(recent)
    BY <1>1, <1>3, <1>4
  <2>2. /\ RecentLimit \in Nat \ {0} /\ MaxEvents \in Nat /\ captured + 1 \in 0 .. MaxEvents
        /\ Len(recent) <= RecentLimit /\ Len(recent) <= captured
    BY <1>1
  <2>3. Len(recent') \in Nat /\ Len(recent') <= RecentLimit /\ Len(recent') <= captured + 1
    BY <2>1, <2>2
  <2>4. /\ Len(recent) = RecentLimit => captured + 1 - Len(recent') = captured + 1 - RecentLimit
        /\ Len(recent) # RecentLimit => captured + 1 - Len(recent') = captured - Len(recent)
    BY <2>1, <2>2
  <2>5. captured' = captured + 1
    OBVIOUS
  <2>6. captured' \in 0 .. MaxEvents
    BY <2>2, <2>5
  <2> QED  BY <2>1, <2>2, <2>3, <2>4, <2>5, <2>6
<1> QED  BY <1>4, <1>6, <1>7, <1>8 DEF Kept

\* Nothing about the connection changes.
SameLink == UNCHANGED <<ws, negotiated, socket, disposed>>

LEMMA SameEmits == SameLink => (Emits' <=> Emits)
BY DEF SameLink, Emits, Open

\* An event of a tracked actor.
LEMMA CaptureKeeps ==
  ASSUME LinkInv, DataInv, ~disposed, NEW a \in Tracked, captured < MaxEvents, capture(a),
         SameLink, actors' = actors
  PROVE  DataInv'
<1>1. /\ Told /\ Queue /\ Sent /\ a \in Actors /\ Tracked' = Tracked
      /\ captured' = captured + 1 /\ emit({}, {a}) /\ ~disposed'
  BY ActorFacts DEF DataInv, Told, capture, Tracked, SameLink
<1>2. /\ known' \in [Socket -> SUBSET (Socket \X Actors)]
      /\ ~stray' /\ \A s \in Socket : known'[s] \subseteq {s} \X Actors
      /\ Emits => known[ws] \subseteq known'[ws]
  <2>1. {} \in SUBSET Actors /\ \A b \in {a} : b \in {} \/ b \in Tracked
    OBVIOUS
  <2> QED  BY <1>1, <2>1, EmitTells
<1>3. /\ actors' \in 0 .. Len(Actor) /\ UpdatesUnderstood'
      /\ known' \in [Socket -> SUBSET (Socket \X Actors)]
      /\ Emits' => \A b \in Tracked' : <<ws', b>> \in known'[ws']
  BY <1>1, <1>2, SameEmits DEF Told, UpdatesUnderstood, SameLink
<1>4. CASE Emits
  <2>1. recent' = recent /\ recent = <<>> /\ delivered' = Append(delivered, captured + 1)
    BY <1>1, <1>4 DEF capture, Queue
  <2>2. Told'
    BY <1>3, <2>1 DEF Told
  <2>3. Queue' /\ captured \in 0 .. MaxEvents /\ Len(recent) = 0
    BY <1>1, <2>1, BoundAssumption DEF Queue, BoundAssumption
  <2>4. /\ delivered \in Seq(1 .. MaxEvents) /\ captured + 1 \in 1 .. MaxEvents
        /\ RecentLimit \in Nat \ {0}
    BY <2>3, BoundAssumption, RecentAssumption
       DEF BoundAssumption, RecentAssumption, Sent, DataInv
  <2>5. /\ delivered' \in Seq(1 .. MaxEvents) /\ Len(delivered') = Len(delivered) + 1
        /\ delivered'[Len(delivered) + 1] = captured + 1
        /\ \A i \in 1 .. Len(delivered) : delivered'[i] = delivered[i] /\ i \in DOMAIN delivered'
        /\ DOMAIN delivered = 1 .. Len(delivered) /\ Len(delivered) + 1 \in DOMAIN delivered'
        /\ \A i \in DOMAIN delivered' : i \in 1 .. Len(delivered) \/ i = Len(delivered) + 1
    BY <2>1, <2>4
  <2>6. \A i \in DOMAIN delivered : delivered[i] <= captured /\ delivered[i] \in Nat
    <3>1. \A i \in DOMAIN delivered : delivered[i] <= captured - Len(recent)
      BY <1>1 DEF Sent
    <3>2. \A i \in DOMAIN delivered : delivered[i] \in 1 .. MaxEvents
      <4>1. \A i \in 1 .. Len(delivered) : delivered[i] \in 1 .. MaxEvents
        BY <2>4, ElementOfSeq
      <4> QED  BY <2>5, <4>1
    <3> QED  BY <2>3, <3>1, <3>2
  <2>7. \A i, j \in DOMAIN delivered' : i < j => delivered'[i] < delivered'[j]
    BY <1>1, <2>3, <2>4, <2>5, <2>6 DEF Sent
  <2>8. \A i \in DOMAIN delivered' : delivered'[i] <= captured' - Len(recent')
    BY <1>1, <2>1, <2>3, <2>5, <2>6
  <2>9. ASSUME NEW n \in 1 .. captured' - Len(recent'), n > captured' - RecentLimit
        PROVE  \E i \in DOMAIN delivered' : delivered'[i] = n
    <3>1. n \in 1 .. captured + 1 /\ n > captured - RecentLimit
      BY <1>1, <2>1, <2>3, <2>4, <2>9
    <3>2. CASE n = captured + 1
      BY <2>5, <3>2
    <3>3. CASE n # captured + 1
      <4>1. \E i \in DOMAIN delivered : delivered[i] = n
        BY <1>1, <2>3, <3>1, <3>3 DEF Sent
      <4> QED  BY <2>5, <4>1
    <3> QED  BY <3>2, <3>3
  <2>10. Sent'
    BY <2>5, <2>7, <2>8, <2>9 DEF Sent
  <2> QED  BY <2>2, <2>3, <2>10 DEF DataInv
<1>5. CASE ~Emits
  <2>1. recent' = Append(Trimmed, <<captured + 1, a>>) /\ delivered' = delivered
    BY <1>5 DEF capture, Trimmed
  <2>2. /\ captured' \in 0 .. MaxEvents
        /\ recent' \in Seq((1 .. MaxEvents) \X Actors)
        /\ Len(recent') <= RecentLimit /\ Len(recent') <= captured'
        /\ \A i \in 1 .. Len(recent') : recent'[i][1] = captured' - Len(recent') + i
        /\ Len(recent) = RecentLimit => captured' - Len(recent') = captured + 1 - RecentLimit
        /\ Len(recent) # RecentLimit => captured' - Len(recent') = captured - Len(recent)
        /\ \A i \in 1 .. Len(recent') :
             recent'[i][2] = a \/ \E j \in DOMAIN recent : recent'[i][2] = recent[j][2]
    BY <1>1, <2>1, KeepNewest
  <2>3. ~Emits'
    BY <1>5, SameEmits
  <2>4. Told'
    <3>1. DOMAIN recent' = 1 .. Len(recent')
      BY <2>2
    <3>2. \A i \in DOMAIN recent' : recent'[i][2] \in Tracked'
      BY <1>1, <2>2, <3>1 DEF Told
    <3> QED  BY <1>3, <3>2 DEF Told
  <2>5. Queue'
    BY <2>2, <2>3 DEF Queue
  <2>6. /\ Len(recent) \in Nat /\ Len(recent') \in Nat /\ RecentLimit \in Nat \ {0}
        /\ captured \in Nat /\ Len(recent) <= RecentLimit
        /\ \A i \in DOMAIN delivered : delivered[i] \in Nat
    <3>1. Len(recent) \in Nat /\ captured \in Nat /\ Len(recent) <= RecentLimit
      BY <1>1, BoundAssumption DEF Queue, BoundAssumption
    <3>2. Len(recent') \in Nat
      BY <2>2
    <3>3. delivered \in Seq(1 .. MaxEvents) /\ DOMAIN delivered = 1 .. Len(delivered)
      BY <1>1 DEF Sent
    <3>4. \A i \in DOMAIN delivered : delivered[i] \in 1 .. MaxEvents
      BY <3>3, ElementOfSeq
    <3> QED  BY <3>1, <3>2, <3>4, RecentAssumption DEF RecentAssumption
  <2>7. \A i \in DOMAIN delivered : delivered[i] <= captured' - Len(recent')
    BY <1>1, <2>2, <2>6 DEF Sent
  <2>8. ASSUME NEW n \in 1 .. captured' - Len(recent'), n > captured' - RecentLimit
        PROVE  \E i \in DOMAIN delivered : delivered[i] = n
    <3>1. CASE Len(recent) = RecentLimit
      BY <1>1, <2>2, <2>6, <2>8, <3>1
    <3>2. CASE Len(recent) # RecentLimit
      <4>1. n \in 1 .. captured - Len(recent) /\ n > captured - RecentLimit
        BY <1>1, <2>2, <2>6, <2>8, <3>2
      <4> QED  BY <1>1, <4>1 DEF Sent
    <3> QED  BY <3>1, <3>2
  <2>9. Sent'
    BY <1>1, <2>1, <2>7, <2>8 DEF Sent
  <2> QED  BY <2>4, <2>5, <2>9 DEF DataInv
<1> QED  BY <1>4, <1>5
\* The kept events go out on the connection that was just accepted.
LEMMA AcceptedKeeps ==
  ASSUME LinkInv, DataInv, ~disposed, Open(ws), ~negotiated, Accepted,
         UNCHANGED <<ws, disposed, actors>>
  PROVE  DataInv'
<1> DEFINE sent == [i \in DOMAIN recent |-> recent[i][1]]
<1>1. /\ Told /\ Queue /\ Sent /\ ~disposed' /\ Tracked' = Tracked /\ Tracked \in SUBSET Actors
      /\ negotiated' = TRUE /\ Sends(Tracked, {recent[i][2] : i \in DOMAIN recent})
      /\ delivered' = delivered \o sent /\ recent' = <<>> /\ UNCHANGED captured
  BY ActorFacts DEF DataInv, Told, Accepted, Tracked
<1>2. \A b \in {recent[i][2] : i \in DOMAIN recent} : b \in Tracked \/ <<ws, b>> \in known[ws]
  BY <1>1 DEF Told
<1>3. /\ known' \in [Socket -> SUBSET (Socket \X Actors)]
      /\ ~stray' /\ \A s \in Socket : known'[s] \subseteq {s} \X Actors
      /\ \A b \in Tracked : <<ws, b>> \in known'[ws]
  BY <1>1, <1>2, SendsTell
<1>4. Told'
  BY <1>1, <1>3 DEF Told, UpdatesUnderstood
<1>5. Queue'
  BY <1>1, RecentAssumption DEF Queue, RecentAssumption
<1>6. /\ delivered \in Seq(1 .. MaxEvents) /\ MaxEvents \in Nat /\ captured \in 0 .. MaxEvents
      /\ Len(recent) \in Nat /\ Len(recent) <= captured /\ RecentLimit \in Nat
      /\ recent \in Seq((1 .. MaxEvents) \X Actors) /\ DOMAIN recent = 1 .. Len(recent)
      /\ \A i \in 1 .. Len(recent) : recent[i][1] = captured - Len(recent) + i
  <2>1. delivered \in Seq(1 .. MaxEvents)
    BY <1>1 DEF Sent
  <2>2. MaxEvents \in Nat /\ RecentLimit \in Nat
    BY RecentAssumption, BoundAssumption DEF RecentAssumption, BoundAssumption
  <2>3. /\ captured \in 0 .. MaxEvents /\ Len(recent) <= captured
        /\ recent \in Seq((1 .. MaxEvents) \X Actors)
        /\ \A i \in 1 .. Len(recent) : recent[i][1] = captured - Len(recent) + i
    BY <1>1 DEF Queue
  <2>4. Len(recent) \in Nat /\ DOMAIN recent = 1 .. Len(recent)
    BY <2>3
  <2> QED  BY <2>1, <2>2, <2>3, <2>4
<1>7. /\ sent \in Seq(1 .. MaxEvents) /\ Len(sent) = Len(recent)
      /\ \A i \in 1 .. Len(recent) : sent[i] = captured - Len(recent) + i
  <2>1. \A i \in 1 .. Len(recent) : captured - Len(recent) + i \in 1 .. MaxEvents
    BY <1>6
  <2>2. sent = [i \in 1 .. Len(recent) |-> captured - Len(recent) + i]
    BY <1>6
  <2> HIDE DEF sent
  <2> QED  BY <1>6, <2>1, <2>2
<1> HIDE DEF sent
<1> DEFINE before == Len(delivered)
<1>8. /\ delivered' \in Seq(1 .. MaxEvents) /\ Len(delivered') = before + Len(recent)
      /\ \A i \in 1 .. before : delivered'[i] = delivered[i]
      /\ \A i \in before + 1 .. before + Len(recent) : delivered'[i] = sent[i - before]
  <2>1. delivered' = delivered \o sent /\ delivered \in Seq(1 .. MaxEvents)
        /\ sent \in Seq(1 .. MaxEvents) /\ Len(sent) = Len(recent)
    BY <1>1, <1>6, <1>7
  <2>2. /\ delivered \o sent \in Seq(1 .. MaxEvents)
        /\ Len(delivered \o sent) = before + Len(sent)
        /\ \A i \in 1 .. before + Len(sent) : (delivered \o sent)[i] =
              IF i <= before THEN delivered[i] ELSE sent[i - before]
    BY <2>1, ConcatProperties
  <2>3. before \in Nat /\ Len(recent) \in Nat
    BY <1>6, <2>1
  <2> HIDE DEF before
  <2>4. \A i \in 1 .. before : delivered'[i] = delivered[i]
    <3> TAKE i \in 1 .. before
    <3>1. i \in 1 .. before + Len(sent) /\ i <= before
      BY <2>1, <2>3
    <3> QED  BY <2>1, <2>2, <3>1
  <2>5. \A i \in before + 1 .. before + Len(recent) : delivered'[i] = sent[i - before]
    <3> TAKE i \in before + 1 .. before + Len(recent)
    <3>1. i \in 1 .. before + Len(sent) /\ ~(i <= before)
      BY <2>1, <2>3
    <3> QED  BY <2>1, <2>2, <3>1
  <2> QED  BY <2>1, <2>2, <2>4, <2>5
<1>9. before \in Nat /\ \A i \in 1 .. before : /\ delivered[i] \in 1 .. MaxEvents
                                              /\ delivered[i] <= captured - Len(recent)
  <2>1. \A i \in 1 .. before : i \in DOMAIN delivered /\ delivered[i] \in 1 .. MaxEvents
    BY <1>6, ElementOfSeq
  <2> QED  BY <1>1, <1>6, <2>1 DEF Sent
<1>10. \A i \in 1 .. Len(recent) : delivered'[before + i] = captured - Len(recent) + i
  <2> TAKE i \in 1 .. Len(recent)
  <2>1. before + i \in before + 1 .. before + Len(recent) /\ (before + i) - before = i
    BY <1>6, <1>9
  <2> QED  BY <1>7, <1>8, <2>1
<1>11. \A i \in before + 1 .. before + Len(recent) :
         delivered'[i] = captured - Len(recent) + (i - before)
  <2> TAKE i \in before + 1 .. before + Len(recent)
  <2>1. i - before \in 1 .. Len(recent) /\ before + (i - before) = i
    BY <1>6, <1>9
  <2> QED  BY <1>10, <2>1
<1>12. /\ DOMAIN delivered' = 1 .. before + Len(recent) /\ DOMAIN delivered = 1 .. before
  BY <1>6, <1>8
<1> HIDE DEF before
<1>13. \A i, j \in DOMAIN delivered' : i < j => delivered'[i] < delivered'[j]
  <2> SUFFICES ASSUME NEW i \in DOMAIN delivered', NEW j \in DOMAIN delivered', i < j
               PROVE  delivered'[i] < delivered'[j]
    OBVIOUS
  <2>1. i \in 1 .. before + Len(recent) /\ j \in 1 .. before + Len(recent)
    BY <1>12
  <2>2. CASE j \in 1 .. before
    <3>1. i \in 1 .. before
      BY <2>1, <2>2, <1>9
    <3>2. delivered[i] < delivered[j]
      BY <1>1, <1>12, <2>2, <3>1 DEF Sent
    <3> QED  BY <1>8, <2>2, <3>1, <3>2
  <2>3. CASE j \in before + 1 .. before + Len(recent)
    <3>1. delivered'[j] = captured - Len(recent) + (j - before)
      BY <1>11, <2>3
    <3>2. CASE i \in 1 .. before
      <4>1. delivered'[i] \in Nat /\ delivered'[i] <= captured - Len(recent)
        BY <1>8, <1>9, <3>2
      <4> QED  BY <1>6, <1>9, <2>3, <3>1, <4>1
    <3>3. CASE i \in before + 1 .. before + Len(recent)
      <4>1. delivered'[i] = captured - Len(recent) + (i - before)
        BY <1>11, <3>3
      <4> QED  BY <1>6, <1>9, <2>3, <3>1, <3>3, <4>1
    <3> QED  BY <1>6, <1>9, <2>1, <3>2, <3>3
  <2> QED  BY <1>6, <1>9, <2>1, <2>2, <2>3
<1>14. \A i \in DOMAIN delivered' : delivered'[i] <= captured
  <2> TAKE i \in DOMAIN delivered'
  <2>1. i \in 1 .. before + Len(recent)
    BY <1>12
  <2>2. CASE i \in 1 .. before
    BY <1>6, <1>8, <1>9, <2>2
  <2>3. CASE i \in before + 1 .. before + Len(recent)
    <3>1. delivered'[i] = captured - Len(recent) + (i - before)
      BY <1>11, <2>3
    <3> QED  BY <1>6, <1>9, <2>3, <3>1
  <2> QED  BY <1>6, <1>9, <2>1, <2>2, <2>3
<1>15. ASSUME NEW n \in 1 .. captured, n > captured - RecentLimit
       PROVE  \E i \in DOMAIN delivered' : delivered'[i] = n
  <2>1. CASE n \in 1 .. captured - Len(recent)
    <3>1. PICK i \in DOMAIN delivered : delivered[i] = n
      BY <1>1, <1>15, <2>1 DEF Sent
    <3>2. i \in 1 .. before /\ i \in DOMAIN delivered'
      BY <1>6, <1>9, <1>12
    <3> QED  BY <1>8, <3>1, <3>2
  <2>2. CASE n > captured - Len(recent)
    <3> DEFINE i == n - (captured - Len(recent))
    <3>1. i \in 1 .. Len(recent) /\ captured - Len(recent) + i = n
      BY <1>6, <2>2
    <3>2. before + i \in DOMAIN delivered'
      BY <1>6, <1>9, <1>12, <3>1
    <3> QED  BY <1>10, <3>1, <3>2
  <2> QED  BY <1>6, <2>1, <2>2
<1>16. Sent'
  <2>1. captured' - Len(recent') = captured /\ captured' = captured
    BY <1>1, <1>6
  <2>2. \A i \in DOMAIN delivered' : delivered'[i] <= captured' - Len(recent')
    BY <1>14, <2>1
  <2>3. \A n \in 1 .. captured' - Len(recent') :
          n > captured' - RecentLimit => \E i \in DOMAIN delivered' : delivered'[i] = n
    BY <1>15, <2>1
  <2> QED  BY <1>8, <1>13, <2>2, <2>3 DEF Sent
<1> QED  BY <1>4, <1>5, <1>16 DEF DataInv
\* Steps that leave the data alone and start no emitting connection.
LEMMA QuietKeeps ==
  ASSUME DataInv, UNCHANGED data, Emits' => Emits /\ ws' = ws, disposed => disposed'
  PROVE  DataInv'
<1>1. Told'
  BY DEF DataInv, Told, UpdatesUnderstood, data, Tracked
<1>2. Queue'
  BY DEF DataInv, Queue, data
<1>3. Sent'
  BY DEF DataInv, Sent, data
<1> QED  BY <1>1, <1>2, <1>3 DEF DataInv

\* A new connection starts with a bridge that knows nothing.
LEMMA ConstructKeeps ==
  ASSUME DataInv, NEW s \in Socket, negotiated' = FALSE, known' = [known EXCEPT ![s] = {}],
         UNCHANGED <<disposed, actors, recent, stray, captured, delivered>>
  PROVE  DataInv'
<1>1. Told' /\ ~Emits'
  BY DEF DataInv, Told, UpdatesUnderstood, Emits, Tracked
<1>2. Queue'
  BY <1>1 DEF DataInv, Queue
<1>3. Sent'
  BY DEF DataInv, Sent
<1> QED  BY <1>1, <1>2, <1>3 DEF DataInv

LEMMA DataNext == LinkInv /\ DataInv /\ [Next]_vars => DataInv'
<1> SUFFICES ASSUME LinkInv, DataInv, [Next]_vars PROVE DataInv'
  OBVIOUS
<1>1. ASSUME UNCHANGED <<adapter, data, socket>> PROVE DataInv'
  BY <1>1, QuietKeeps DEF Emits, Open, adapter
<1>2. CASE InspectActor
  <2>1. PICK a \in Actors : a = Actor[actors + 1]
    BY <1>2, ActorFacts DEF InspectActor, DataInv, Told, Actors
  <2>2. /\ Told /\ actors' = actors + 1 /\ actors' \in 0 .. Len(Actor) /\ emit({a}, {})
        /\ SameLink /\ UNCHANGED <<recent, captured, delivered>>
    BY <1>2, <2>1, ActorFacts DEF InspectActor, DataInv, Told, SameLink, adapter, net
  <2>3. Tracked' = Tracked \cup {a}
    BY <2>1, <2>2, ActorFacts DEF Tracked, Told
  <2>4. {a} \in SUBSET Actors /\ \A b \in {} : b \in {a} \/ b \in Tracked
    BY <2>1
  <2>5. /\ known' \in [Socket -> SUBSET (Socket \X Actors)]
        /\ ~stray' /\ \A s \in Socket : known'[s] \subseteq {s} \X Actors
        /\ Emits => /\ known[ws] \subseteq known'[ws]
                    /\ \A b \in {a} : <<ws, b>> \in known'[ws]
    <3>1. PICK updated : updated = {}
      OBVIOUS
    <3>2. PICK registered \in SUBSET Actors : registered = {a}
      BY <2>4
    <3>3. emit(registered, updated) /\ \A b \in updated : b \in registered \/ b \in Tracked
      BY <2>2, <3>1, <3>2
    <3> HIDE <3>1, <3>2
    <3>4. /\ known' \in [Socket -> SUBSET (Socket \X Actors)]
          /\ ~stray' /\ \A s \in Socket : known'[s] \subseteq {s} \X Actors
          /\ Emits => /\ known[ws] \subseteq known'[ws]
                      /\ \A b \in registered : <<ws, b>> \in known'[ws]
      BY <2>2, <3>3, EmitTells
    <3> QED  BY <3>2, <3>4
  <2>6. Told'
    BY <2>2, <2>3, <2>5, SameEmits DEF Told, UpdatesUnderstood, SameLink
  <2>7. Queue' /\ Sent'
    BY <2>2, SameEmits DEF DataInv, Queue, Sent, SameLink
  <2> QED  BY <2>6, <2>7 DEF DataInv
<1>3. ASSUME NEW a \in Actors, InspectSnapshot(a) PROVE DataInv'
  <2>1. /\ Told /\ a \in Tracked /\ Tracked' = Tracked /\ emit({}, {a})
        /\ SameLink /\ UNCHANGED <<actors, recent, captured, delivered>>
    BY <1>3 DEF InspectSnapshot, DataInv, SameLink, adapter, net, Tracked
  <2>2. {} \in SUBSET Actors /\ \A b \in {a} : b \in {} \/ b \in Tracked
    BY <2>1
  <2>3. /\ known' \in [Socket -> SUBSET (Socket \X Actors)]
        /\ ~stray' /\ \A s \in Socket : known'[s] \subseteq {s} \X Actors
        /\ Emits => known[ws] \subseteq known'[ws]
    BY <2>1, <2>2, EmitTells
  <2>4. Told'
    BY <2>1, <2>3, SameEmits DEF Told, UpdatesUnderstood, SameLink
  <2>5. Queue' /\ Sent'
    BY <2>1, SameEmits DEF DataInv, Queue, Sent, SameLink
  <2> QED  BY <2>4, <2>5 DEF DataInv
<1>4. ASSUME NEW a \in Actors, InspectEvent(a) PROVE DataInv'
  BY <1>4, CaptureKeeps DEF InspectEvent, SameLink, adapter, net
<1>5. ASSUME connect PROVE DataInv'
  BY <1>5, ConstructKeeps DEF connect, Construct
<1>6. CASE Retry
  <2>1. CASE connect
    BY <1>5, <2>1
  <2>2. CASE UNCHANGED <<ws, negotiated, disposed, data, net>>
    BY <2>2, QuietKeeps DEF Emits, Open, net
  <2> QED  BY <1>6, <2>1, <2>2 DEF Retry
<1>7. CASE Resume
  BY <1>7, ConstructKeeps DEF Resume, Construct
<1>8. CASE Pause
  BY <1>8, QuietKeeps DEF Pause, Emits
<1>9. CASE dispose
  <2>1. /\ ~Emits' /\ disposed' /\ actors' = 0 /\ recent' = <<>>
        /\ UNCHANGED <<known, stray, captured, delivered>>
    BY <1>9 DEF dispose, Emits
  <2>2. Told'
    BY <2>1, ActorFacts DEF DataInv, Told, UpdatesUnderstood
  <2>3. Queue'
    BY <2>1, RecentAssumption DEF DataInv, Queue, RecentAssumption
  <2>4. Sent'
    <3>1. /\ captured \in 0 .. MaxEvents /\ Len(recent) \in Nat
          /\ delivered \in Seq(1 .. MaxEvents) /\ MaxEvents \in Nat
          /\ \A i \in DOMAIN delivered : delivered[i] <= captured - Len(recent)
      BY BoundAssumption DEF DataInv, Queue, Sent, BoundAssumption
    <3>2. \A i \in DOMAIN delivered : delivered[i] \in 1 .. MaxEvents
      <4>1. DOMAIN delivered = 1 .. Len(delivered)
        BY <3>1
      <4> QED  BY <3>1, <4>1, ElementOfSeq
    <3>3. \A i \in DOMAIN delivered : delivered[i] <= captured
      BY <3>1, <3>2
    <3>4. captured' - Len(recent') = captured
      BY <2>1, <3>1
    <3>5. \A i \in DOMAIN delivered' : delivered'[i] <= captured' - Len(recent')
      BY <2>1, <3>3, <3>4
    <3> QED  BY <2>1, <3>5 DEF DataInv, Sent
  <2> QED  BY <2>2, <2>3, <2>4 DEF DataInv
<1>10. CASE DeadlineFires
  BY <1>10, QuietKeeps DEF DeadlineFires, Closed, Emits, Open, LinkInv, LinkTyped
<1>11. ASSUME NEW s \in Socket, OnOpen(s) PROVE DataInv'
  BY <1>11, QuietKeeps DEF OnOpen, page, Emits, Open, LinkInv, LinkTyped, SocketHolds
<1>12. ASSUME NEW s \in Socket, OnClose(s) PROVE DataInv'
  BY <1>12, QuietKeeps DEF OnClose, Emits, Open, LinkInv, LinkTyped
<1>13. ASSUME NEW s \in Socket, Drop(s) PROVE DataInv'
  BY <1>13, QuietKeeps DEF Drop, adapter, Emits, Open, LinkInv, LinkTyped
<1>14. ASSUME NEW s \in Socket, OnMessage(s) PROVE DataInv'
  <2>1. UNCHANGED <<ws, disposed, actors>>
    BY <1>14 DEF OnMessage
  <2>2. CASE Ignored
    BY <2>1, <2>2, QuietKeeps DEF Ignored, data, Emits, Open
  <2>3. CASE Rejects
    BY <2>1, <2>3, QuietKeeps DEF Rejects, data, Closed, Emits, Open, LinkInv, LinkTyped
  <2>4. CASE Open(ws) /\ ~disposed /\ ~negotiated /\ Accepted
    BY <2>1, <2>4, AcceptedKeeps
  <2>5. ASSUME NEW p \in BOOLEAN, ~disposed, HandleCommand(p) PROVE DataInv'
    <3>1. SameLink
      BY <2>1, <2>5 DEF HandleCommand, SameLink
    <3>2. CASE UNCHANGED <<known, stray, delivered, recent, captured>>
      BY <2>1, <3>1, <3>2, QuietKeeps, SameEmits DEF data, SameLink
    <3>3. CASE /\ Actor[Len(Actor)] \in Tracked /\ captured < MaxEvents
               /\ capture(Actor[Len(Actor)])
      BY <2>1, <2>5, <3>1, <3>3, CaptureKeeps
    <3> QED  BY <2>5, <3>2, <3>3 DEF HandleCommand
  <2>6. \/ Ignored
        \/ Rejects
        \/ Open(ws) /\ ~disposed /\ ~negotiated /\ Accepted
        \/ ~disposed /\ \E p \in BOOLEAN : HandleCommand(p)
    <3> DEFINE m == Head(inbox[s])
               answer == m \in {"accept", "refuse"}
               ignored == ~Open(s) \/ s # ws \/ disposed \/ paused \/ (answer <=> negotiated)
    <3>1. IF ignored THEN Ignored
          ELSE IF m = "accept" THEN Accepted
          ELSE IF m = "refuse" THEN Rejects
          ELSE HandleCommand(m = "command")
      BY <1>14 DEF OnMessage
    <3>2. ~ignored => Open(ws) /\ ~disposed /\ (m = "accept" => ~negotiated)
      OBVIOUS
    <3> HIDE DEF m, ignored
    <3>3. CASE ignored
      <4>1. Ignored
        BY <3>1, <3>3, Zenon
      <4> QED  BY <4>1
    <3>4. CASE ~ignored /\ m = "accept"
      BY <3>1, <3>2, <3>4, Zenon
    <3>5. CASE ~ignored /\ m # "accept" /\ m = "refuse"
      <4>1. Rejects
        BY <3>1, <3>5, Zenon
      <4> QED  BY <4>1
    <3>6. CASE ~ignored /\ m # "accept" /\ m # "refuse"
      <4>1. (m = "command") \in BOOLEAN
        OBVIOUS
      <4>2. HandleCommand(m = "command")
        BY <3>1, <3>6, Zenon
      <4> QED  BY <3>2, <3>6, <4>1, <4>2, Zenon
    <3> QED  BY <3>3, <3>4, <3>5, <3>6, Zenon
  <2> QED  BY <2>2, <2>3, <2>4, <2>5, <2>6
<1> QED
  BY <1>1, <1>2, <1>3, <1>4, <1>5, <1>6, <1>7, <1>8, <1>9, <1>10, <1>11, <1>12, <1>13, <1>14
     DEF Next, Load, HelloArrives, BridgeCommands, BridgeTurns, vars, net

-----------------------------------------------------------------------------
(* The theorems *)

NetTyped ==
  /\ stray \in BOOLEAN /\ asked \subseteq Socket /\ bridge \in {"up", "down", "mute", "foreign"}
  /\ inbox \in [Socket -> Seq(Message)]

LEMMA NetNext == NetTyped /\ [Next]_vars => NetTyped'
<1> SUFFICES ASSUME NetTyped, [Next]_vars PROVE NetTyped'
  OBVIOUS
<1> USE DEF NetTyped, net, data
<1>1. ASSUME UNCHANGED <<stray, net>> PROVE NetTyped'
  BY <1>1
<1>2. ASSUME NEW registered, NEW updated, emit(registered, updated) PROVE stray' \in BOOLEAN
  BY <1>2 DEF emit, Sends
<1>3. ASSUME NEW a, capture(a) PROVE stray' \in BOOLEAN
  BY <1>2, <1>3 DEF capture
<1>4. ASSUME connect \/ Resume PROVE NetTyped'
  <2>1. PICK s \in Socket : /\ inbox' = [inbox EXCEPT ![s] = <<>>] /\ asked' = asked \ {s}
                            /\ UNCHANGED <<stray, bridge>>
    BY <1>4 DEF connect, Resume, Construct
  <2> QED  BY <2>1
<1>5. CASE InspectActor
  BY <1>2, <1>5 DEF InspectActor
<1>6. ASSUME NEW a \in Actors, InspectSnapshot(a) \/ InspectEvent(a) PROVE NetTyped'
  BY <1>2, <1>3, <1>6 DEF InspectSnapshot, InspectEvent
<1>7. ASSUME NEW s \in Socket, OnMessage(s) PROVE NetTyped'
  <2>1. UNCHANGED <<asked, bridge>> /\ inbox' = [inbox EXCEPT ![s] = Tail(@)] /\ inbox[s] # <<>>
    BY <1>7 DEF OnMessage
  <2>2. inbox' \in [Socket -> Seq(Message)]
    BY <2>1
  <2>3. stray' \in BOOLEAN
    <3>1. Ignored \/ Rejects => stray' \in BOOLEAN
      BY DEF Ignored, Rejects
    <3>2. Accepted => stray' \in BOOLEAN
      BY DEF Accepted, Sends
    <3>3. \A p \in BOOLEAN : HandleCommand(p) => stray' \in BOOLEAN
      BY <1>3 DEF HandleCommand
    <3>4. Ignored \/ Rejects \/ Accepted \/ \E p \in BOOLEAN : HandleCommand(p)
      BY <1>7 DEF OnMessage
    <3> QED  BY <3>1, <3>2, <3>3, <3>4
  <2> QED  BY <2>1, <2>2, <2>3
<1>8. ASSUME NEW s \in Socket, HelloArrives(s) PROVE NetTyped'
  <2>1. {"accept", "refuse"} \subseteq Message /\ inbox[s] \in Seq(Message)
    BY DEF Message
  <2>2. \/ inbox' = inbox \/ inbox' = [inbox EXCEPT ![s] = Append(@, "accept")]
        \/ inbox' = [inbox EXCEPT ![s] = Append(@, "refuse")]
    BY <1>8, Zenon DEF HelloArrives
  <2>3. Append(inbox[s], "accept") \in Seq(Message) /\ Append(inbox[s], "refuse") \in Seq(Message)
    BY <2>1
  <2>4. inbox' \in [Socket -> Seq(Message)]
    BY <2>2, <2>3
  <2> QED  BY <1>8, <2>4 DEF HelloArrives
<1>9. ASSUME NEW s \in Socket, BridgeCommands(s) PROVE NetTyped'
  <2>1. {"command", "forbidden", "accept"} \subseteq Message
    BY DEF Message
  <2> QED  BY <1>9, <2>1 DEF BridgeCommands
<1>10. ASSUME NEW s \in Socket, OnOpen(s) PROVE NetTyped'
  BY <1>10 DEF OnOpen
<1>11. ASSUME NEW s \in Socket, OnClose(s) \/ Drop(s) PROVE NetTyped'
  BY <1>11 DEF OnClose, Drop
<1>12. CASE Retry
  BY <1>4, <1>12 DEF Retry
<1> QED
  BY <1>1, <1>4, <1>5, <1>6, <1>7, <1>8, <1>9, <1>10, <1>11, <1>12
     DEF Next, Load, DeadlineFires, Pause, dispose, BridgeTurns, vars

DemoInv == LinkInv /\ DataInv /\ NetTyped

LEMMA DemoHolds == Spec => []DemoInv
<1>1. Init => DemoInv
  <2>1. Init => NetTyped
    <3>1. Init => inbox = [s \in Socket |-> <<>>] /\ stray = FALSE /\ asked = {}
      BY DEF Init
    <3>2. Init => bridge \in {"up", "down", "mute", "foreign"}
      BY DEF Init
    <3>3. <<>> \in Seq(Message)
      OBVIOUS
    <3> SUFFICES ASSUME Init PROVE NetTyped
      OBVIOUS
    <3> QED  BY <3>1, <3>2, <3>3 DEF NetTyped
  <2> QED  BY <2>1, LinkInit, DataInit DEF DemoInv
<1>2. DemoInv /\ [Next]_vars => DemoInv'
  BY LinkNext, DataNext, NetNext DEF DemoInv
<1> QED  BY <1>1, <1>2, PTL DEF Spec, SafeSpec

\* The adapter's flags, timers and sockets and the page's label and button agree
\* after every order of open, message, close, timer and click: one live socket at
\* most, a retry or a close to come for a page that wants the connection, and no
\* timer without its purpose (connect(), its listeners, pause() and resume()).
THEOREM ConnectionStays == Spec => []ConnectionKept
<1>1. DemoInv => TypeOK
  BY DEF DemoInv, LinkInv, LinkTyped, DataInv, Told, Queue, Sent, NetTyped, TypeOK
<1>2. DemoInv => ConnectionKept
  BY <1>1 DEF DemoInv, LinkInv, ConnectionKept
<1> QED  BY <1>2, DemoHolds, PTL

\* On every connection the bridge is told of an actor, under that connection's
\* epoch, before any update of it: hello.response registers what is tracked
\* before it sends what was kept.
THEOREM UpdatesAreUnderstood == Spec => []UpdatesUnderstood
<1>1. DemoInv => UpdatesUnderstood
  BY DEF DemoInv, DataInv, Told
<1> QED  BY <1>1, DemoHolds, PTL

\* Events go out once and in the order in which they were received, and none of
\* the last RecentLimit is lost between sending and keeping (capture() and the
\* replay after hello.response).
THEOREM EventsStay == Spec => []EventsKept
<1>1. DemoInv => EventsKept
  <2> SUFFICES ASSUME DemoInv PROVE EventsKept
    OBVIOUS
  <2>1. /\ captured \in 0 .. MaxEvents /\ recent \in Seq((1 .. MaxEvents) \X Actors)
        /\ DOMAIN recent = 1 .. Len(recent) /\ Len(recent) \in Nat /\ Len(recent) <= captured
        /\ \A i \in 1 .. Len(recent) : recent[i][1] = captured - Len(recent) + i
        /\ RecentLimit \in Nat
    BY RecentAssumption DEF DemoInv, DataInv, Queue, RecentAssumption
  <2>2. ASSUME ~disposed, NEW n \in 1 .. captured, n > captured - RecentLimit
        PROVE  \/ \E i \in DOMAIN delivered : delivered[i] = n
               \/ \E i \in DOMAIN recent : recent[i][1] = n
    <3>1. CASE n \in 1 .. captured - Len(recent)
      BY <2>2, <3>1 DEF DemoInv, DataInv, Sent
    <3>2. CASE n > captured - Len(recent)
      <4>1. /\ n - (captured - Len(recent)) \in DOMAIN recent
            /\ captured - Len(recent) + (n - (captured - Len(recent))) = n
        BY <2>1, <3>2
      <4> QED  BY <2>1, <4>1
    <3> QED  BY <2>1, <3>1, <3>2
  <2> QED  BY <2>2 DEF DemoInv, DataInv, Sent, EventsKept
<1> QED  BY <1>1, DemoHolds, PTL

===============================================================================
