------------------------ MODULE ConnectionHealthProofs ------------------------
(***************************************************************************)
(* Proofs about ConnectionHealth for any sockets, peers, frames, limits and *)
(* clock rates.                                                             *)
(***************************************************************************)
EXTENDS ConnectionHealth, FiniteSetTheorems, TLAPS

-----------------------------------------------------------------------------
(* Counting *)

LEMMA IncrementTyped ==
  ASSUME NEW n \in Counter
  PROVE  /\ Increment(n) \in Counter
         /\ n <= Increment(n) /\ Increment(n) > 0
         /\ n < COUNTER_MAX => Increment(n) = n + 1
BY CounterAssumption DEF CounterAssumption, Counter, Increment

\* What a counter shows of n goes up with n until it stops.
LEMMA SaturatedTyped ==
  ASSUME NEW n \in Nat
  PROVE  /\ Saturated(n) \in Counter
         /\ Increment(Saturated(n)) = Saturated(n + 1)
BY CounterAssumption DEF CounterAssumption, Counter, Increment, Saturated

LEMMA BumpTyped ==
  ASSUME NEW c \in [Keys -> Counter], NEW keys
  PROVE  Bump(c, keys) \in [Keys -> Counter]
BY IncrementTyped DEF Bump

\* What a count does to the counters of every connection.
LEMMA Counted ==
  ASSUME TypeOK, NEW ws \in Socket, NEW keys, Count(ws, keys)
  PROVE  /\ counts' \in [Keys -> Counter]
         /\ counters' \in [Socket -> [Keys -> Counter]]
         /\ \A other \in Socket \ {ws} : counters'[other] = counters[other]
         /\ ws \in connections => counters'[ws] = Bump(counters[ws], keys)
<1>1. /\ counts' = Bump(counts, keys)
      /\ counters' = IF ws \in connections
           THEN [counters EXCEPT ![ws] = Bump(counters[ws], keys)] ELSE counters
  BY DEF Count
<1>2. /\ counts \in [Keys -> Counter]
      /\ counters \in [Socket -> [Keys -> Counter]]
  BY DEF TypeOK
<1>3. Bump(counts, keys) \in [Keys -> Counter]
  BY <1>2, BumpTyped
<1>4. Bump(counters[ws], keys) \in [Keys -> Counter]
  BY <1>2, BumpTyped
<1> QED  BY <1>1, <1>2, <1>3, <1>4

FrameTypes == {"invalid_json", "invalid_envelope", "invalid_hello",
               "incompatible_protocol", "invalid_ack", "unexpected_ack",
               "invalid_inspection", "missing_session_id",
               "ack", "microstep", "hello", "actor", "update"}

LEMMA FrameTyped ==
  ASSUME NEW f \in Sendable
  PROVE  /\ f.type \in FrameTypes
         /\ f.type = "hello" => f.hello \in Hello
         /\ f.type \in {"actor", "update"} => f.actor \in LocalId
BY FrameAssumption DEF FrameAssumption, Frames, BadFrames, FrameTypes

\* A frame is rejected with a frame's code, or accepted, ignored or quiet.
FrameRejections == Rejections \ {"transport_error"}

LEMMA VerdictTyped ==
  ASSUME NEW ws \in Socket, NEW f \in Sendable
  PROVE  Verdict(ws, f) \in FrameRejections \cup {"accepted", "ignored", "quiet"}
BY FrameTyped DEF FrameTypes, Verdict, FrameRejections, Rejections

\* Only an inspection on a connection that may inspect is accepted.
LEMMA AcceptedMayInspect ==
  ASSUME NEW ws \in Socket, NEW f \in Sendable, Verdict(ws, f) = "accepted"
  PROVE  f.type \in {"actor", "update"} /\ CanInspect(ws)
BY FrameTyped DEF FrameTypes, Verdict

LEMMA FrameKeys ==
  ASSUME NEW verdict \in FrameRejections \cup {"accepted", "ignored", "quiet"}
  PROVE  KeysOf(verdict) =
           {"receivedFrames"} \cup
           (IF verdict = "accepted" THEN {"acceptedInspectionFrames"}
            ELSE IF verdict = "ignored" THEN {"ignoredFrames"}
            ELSE IF verdict = "quiet" THEN {}
            ELSE {"rejectedFrames"})
BY DEF KeysOf, KeyOf, FrameRejections, Rejections

-----------------------------------------------------------------------------
(* Types *)

LEMMA TypeInit == Init => TypeOK
<1>1. 0 \in Counter
  BY CounterAssumption DEF CounterAssumption, Counter
<1>2. Zero \in [Keys -> Counter]
  BY <1>1 DEF Zero
<1> SUFFICES ASSUME Init PROVE TypeOK
  OBVIOUS
<1>3. /\ counters \in [Socket -> [Keys -> Counter]] /\ counts \in [Keys -> Counter]
      /\ totals \in [{"accepted", "closed", "rejected"} -> Counter]
      /\ quiet \in [Socket -> Counter]
  BY <1>1, <1>2 DEF Init
<1>4. idle \in [Socket -> 0 .. StaleAfter] /\ sinceBeat \in 0 .. HeartbeatInterval
  BY ClockAssumption DEF ClockAssumption, Init
<1> QED  BY <1>3, <1>4 DEF Init, TypeOK

LEMMA SumTyped ==
  ASSUME TypeOK, NEW t \in {"accepted", "closed", "rejected"},
         totals' = [totals EXCEPT ![t] = Increment(totals[t])]
  PROVE  totals' \in [{"accepted", "closed", "rejected"} -> Counter]
BY IncrementTyped DEF TypeOK

LEMMA NoteTyped ==
  ASSUME TypeOK, NEW ws \in Socket, NEW reason \in Rejections,
         NoteRejection(ws, reason)
  PROVE  /\ lastRejection' \in [Socket -> Rejections \cup {"none"}]
         /\ \A other \in Socket \ {ws} : lastRejection'[other] = lastRejection[other]
         /\ ws \in connections => lastRejection'[ws] = reason
BY DEF TypeOK, NoteRejection

LEMMA ActiveTyped ==
  ASSUME TypeOK, NEW ws \in Socket, Active(ws)
  PROVE  /\ idle' \in [Socket -> 0 .. StaleAfter]
         /\ \A other \in Socket \ {ws} : idle'[other] = idle[other]
         /\ ws \in connections => idle'[ws] = 0
BY ClockAssumption DEF ClockAssumption, TypeOK, Active

\* A handled frame: what it does to each variable.
LEMMA HandleTyped ==
  ASSUME TypeOK, NEW ws \in Socket, NEW f \in Sendable, Handle(ws, f)
  PROVE  TypeOK'
<1> DEFINE verdict == Verdict(ws, f)
<1>1. verdict \in FrameRejections \cup {"accepted", "ignored", "quiet"}
  BY VerdictTyped
<1>2. counts' \in [Keys -> Counter] /\ counters' \in [Socket -> [Keys -> Counter]]
  BY Counted DEF Handle
<1>3. idle' \in [Socket -> 0 .. StaleAfter]
  BY ActiveTyped DEF Handle
<1>4. lastRejection' \in [Socket -> Rejections \cup {"none"}]
  <2>1. CASE verdict \in Rejections
    BY <2>1, NoteTyped DEF Handle
  <2>2. CASE verdict \notin Rejections
    BY <2>2 DEF Handle, TypeOK
  <2> QED  BY <2>1, <2>2
<1>5. /\ hello' \in [Socket -> Hello \cup {NoHello}]
      /\ negotiation' \in
           [Socket -> {"awaiting_hello", "negotiated", "invalid", "incompatible"}]
  BY FrameTyped DEF Handle, Negotiate, TypeOK
<1>6. actors' \in [Socket -> SUBSET LocalId]
  BY FrameTyped DEF Handle, TypeOK
<1>7. quiet' \in [Socket -> Counter]
  BY IncrementTyped DEF Handle, TypeOK
<1> QED  BY <1>2, <1>3, <1>4, <1>5, <1>6, <1>7 DEF Handle, connVars, TypeOK

LEMMA TypeNext == TypeOK /\ [Next]_vars => TypeOK'
<1> SUFFICES ASSUME TypeOK, [Next]_vars PROVE TypeOK'
  OBVIOUS
<1> USE DEF connVars, protoVars, countVars, clockVars
<1>1. ASSUME NEW ws \in Socket, Accept(ws) PROVE TypeOK'
  <2>1. totals' \in [{"accepted", "closed", "rejected"} -> Counter]
    BY <1>1, SumTyped DEF Accept
  <2> QED  BY <1>1, <2>1, ClockAssumption DEF ClockAssumption, Accept, TypeOK
<1>2. ASSUME NEW ws \in Socket, Disconnect(ws) PROVE TypeOK'
  <2>1. totals' \in [{"accepted", "closed", "rejected"} -> Counter]
    BY <1>2, SumTyped DEF Disconnect
  <2>2. 0 \in Counter /\ Zero \in [Keys -> Counter]
    BY CounterAssumption DEF CounterAssumption, Counter, Zero
  <2>3. /\ idle' \in [Socket -> 0 .. StaleAfter]
        /\ counters' \in [Socket -> [Keys -> Counter]]
        /\ quiet' \in [Socket -> Counter]
    BY <1>2, <2>2, ClockAssumption DEF ClockAssumption, Disconnect, TypeOK
  <2>4. departed' \in [Keys -> Counter]
    <3>1. \A k \in Keys : departed[k] + counters[ws][k] \in Nat
      BY CounterAssumption DEF CounterAssumption, Counter, TypeOK
    <3> QED  BY <1>2, <3>1, SaturatedTyped DEF Disconnect
  <2> QED  BY <1>2, <2>1, <2>3, <2>4 DEF Disconnect, TypeOK
<1>3. ASSUME NEW ws \in Socket, TransportError(ws) PROVE TypeOK'
  <2>1. counts' \in [Keys -> Counter] /\ counters' \in [Socket -> [Keys -> Counter]]
    BY <1>3, Counted DEF TransportError
  <2>2. lastRejection' \in [Socket -> Rejections \cup {"none"}]
    BY <1>3, NoteTyped DEF TransportError, Rejections
  <2>3. departed' \in [Keys -> Counter]
    BY <1>3, IncrementTyped DEF TransportError, TypeOK, Keys
  <2> QED  BY <1>3, <2>1, <2>2, <2>3 DEF TransportError, TypeOK
<1>4. ASSUME NEW ws \in Socket, Pong(ws) PROVE TypeOK'
  BY <1>4, ActiveTyped DEF Pong, TypeOK
<1>5. ASSUME NEW ws \in Socket, NEW key \in CommandFailures, CommandFails(ws, key)
      PROVE  TypeOK'
  <2>1. counts' \in [Keys -> Counter] /\ counters' \in [Socket -> [Keys -> Counter]]
    BY <1>5, Counted DEF CommandFails
  <2> QED  BY <1>5, <2>1 DEF CommandFails, TypeOK
<1>6. CASE RejectConnection
  BY <1>6, SumTyped DEF RejectConnection, TypeOK
<1>7. CASE ClearActors \/ CloseRegistry
  BY <1>7 DEF ClearActors, CloseRegistry, TypeOK
<1>8. CASE Tick
  BY <1>8, ClockAssumption DEF ClockAssumption, Tick, TypeOK
<1>9. CASE Heartbeat
  BY <1>9, ClockAssumption DEF ClockAssumption, Heartbeat, TypeOK
<1>10. CASE UNCHANGED vars
  BY <1>10 DEF vars, TypeOK
<1> QED
  BY <1>1, <1>2, <1>3, <1>4, <1>5, <1>6, <1>7, <1>8, <1>9, <1>10, HandleTyped
     DEF Next, SocketStep

-----------------------------------------------------------------------------
(* Every frame is accounted for *)

\* The accounts of one connection.
Balanced(ws) ==
  LET c == counters[ws] IN
  /\ c["receivedFrames"] < COUNTER_MAX =>
       c["receivedFrames"] = c["acceptedInspectionFrames"] + c["rejectedFrames"]
                               + c["ignoredFrames"] + quiet[ws]
  /\ lastRejection[ws] # "none" <=> c["rejectedFrames"] + c["transportErrors"] > 0

\* Sockets without a record have empty accounts, so every socket balances.
AccountInv == TypeOK /\ \A ws \in Socket : Balanced(ws)

LEMMA AccountsReported == AccountInv => FramesAccounted
BY DEF AccountInv, FramesAccounted, ReceivedBalance, RejectionVisible, Balanced, TypeOK

\* A connection whose counters a step leaves alone.
LEMMA SameAccounts ==
  ASSUME NEW ws \in Socket, Balanced(ws), counters'[ws] = counters[ws],
         quiet'[ws] = quiet[ws], lastRejection'[ws] = lastRejection[ws]
  PROVE  Balanced(ws)'
BY DEF Balanced

LEMMA CounterFields ==
  ASSUME TypeOK, NEW ws \in Socket, NEW k \in Keys
  PROVE  /\ counters[ws][k] \in Counter /\ counters[ws][k] \in Nat
         /\ quiet[ws] \in Counter /\ quiet[ws] \in Nat
BY CounterAssumption DEF CounterAssumption, Counter, TypeOK

\* The account of received, accepted, rejected and ignored frames, transport
\* errors, quiet frames and the last rejection.
Account(r, a, j, g, t, q, last) ==
  /\ r < COUNTER_MAX => r = a + j + g + q
  /\ last # "none" <=> j + t > 0

\* A frame moves the received counter and exactly one other.
LEMMA HandleAccounts ==
  ASSUME AccountInv, NEW ws \in Socket, NEW f \in Sendable, Handle(ws, f)
  PROVE  Balanced(ws)'
<1> DEFINE verdict == Verdict(ws, f)
           now(k) == IF k \in KeysOf(verdict) THEN Increment(counters[ws][k])
                     ELSE counters[ws][k]
<1>1. TypeOK /\ ws \in connections /\ Balanced(ws)
  BY DEF AccountInv, Handle
<1>2. verdict \in FrameRejections \cup {"accepted", "ignored", "quiet"}
  BY VerdictTyped
<1>3. counters'[ws] = Bump(counters[ws], KeysOf(verdict))
  BY <1>1, Counted DEF Handle
<1>4. /\ quiet'[ws] = IF verdict = "quiet" THEN Increment(quiet[ws]) ELSE quiet[ws]
      /\ lastRejection'[ws] = IF verdict \in Rejections THEN verdict ELSE lastRejection[ws]
  <2>1. CASE verdict \in Rejections
    BY <1>1, <2>1, NoteTyped DEF Handle, TypeOK, Rejections
  <2>2. CASE verdict \notin Rejections
    BY <1>1, <2>2 DEF Handle, TypeOK
  <2> QED  BY <2>1, <2>2
<1>5. \A k \in Keys : counters'[ws][k] = now(k)
  BY <1>3 DEF Bump
<1>6. /\ counters'[ws]["receivedFrames"] = now("receivedFrames")
      /\ counters'[ws]["acceptedInspectionFrames"] = now("acceptedInspectionFrames")
      /\ counters'[ws]["rejectedFrames"] = now("rejectedFrames")
      /\ counters'[ws]["ignoredFrames"] = now("ignoredFrames")
      /\ counters'[ws]["transportErrors"] = now("transportErrors")
  BY <1>5 DEF Keys
<1>7. Account(counters[ws]["receivedFrames"], counters[ws]["acceptedInspectionFrames"],
              counters[ws]["rejectedFrames"], counters[ws]["ignoredFrames"],
              counters[ws]["transportErrors"], quiet[ws], lastRejection[ws])
  BY <1>1 DEF Balanced, Account
<1>8. /\ counters[ws]["receivedFrames"] \in Counter
      /\ counters[ws]["acceptedInspectionFrames"] \in Counter
      /\ counters[ws]["rejectedFrames"] \in Counter
      /\ counters[ws]["ignoredFrames"] \in Counter
      /\ counters[ws]["transportErrors"] \in Counter /\ quiet[ws] \in Counter
  BY <1>1, CounterFields DEF Keys
<1>9. /\ "receivedFrames" \in KeysOf(verdict) /\ "transportErrors" \notin KeysOf(verdict)
      /\ "acceptedInspectionFrames" \in KeysOf(verdict) <=> verdict = "accepted"
      /\ "ignoredFrames" \in KeysOf(verdict) <=> verdict = "ignored"
      /\ "rejectedFrames" \in KeysOf(verdict) <=> verdict \in FrameRejections
  BY <1>2, FrameKeys DEF FrameRejections, Rejections
<1>10. /\ verdict \in Rejections <=> verdict \in FrameRejections
       /\ verdict \in FrameRejections => verdict \notin {"accepted", "ignored", "quiet", "none"}
  BY <1>2 DEF FrameRejections, Rejections
<1> HIDE DEF verdict
<1>11. Account(counters'[ws]["receivedFrames"], counters'[ws]["acceptedInspectionFrames"],
               counters'[ws]["rejectedFrames"], counters'[ws]["ignoredFrames"],
               counters'[ws]["transportErrors"], quiet'[ws], lastRejection'[ws])
  <2>1. CASE verdict = "accepted"
    <3>1. /\ counters'[ws]["receivedFrames"] = Increment(counters[ws]["receivedFrames"])
          /\ counters'[ws]["acceptedInspectionFrames"] = Increment(counters[ws]["acceptedInspectionFrames"])
          /\ counters'[ws]["rejectedFrames"] = counters[ws]["rejectedFrames"]
          /\ counters'[ws]["ignoredFrames"] = counters[ws]["ignoredFrames"]
          /\ counters'[ws]["transportErrors"] = counters[ws]["transportErrors"]
          /\ quiet'[ws] = quiet[ws]
          /\ lastRejection'[ws] = lastRejection[ws]
      BY <1>4, <1>6, <1>9, <1>10, <2>1
    <3> QED  BY <1>7, <1>8, <3>1, CounterAssumption
               DEF CounterAssumption, Counter, Increment, Account
  <2>2. CASE verdict = "ignored"
    <3>1. /\ counters'[ws]["receivedFrames"] = Increment(counters[ws]["receivedFrames"])
          /\ counters'[ws]["acceptedInspectionFrames"] = counters[ws]["acceptedInspectionFrames"]
          /\ counters'[ws]["rejectedFrames"] = counters[ws]["rejectedFrames"]
          /\ counters'[ws]["ignoredFrames"] = Increment(counters[ws]["ignoredFrames"])
          /\ counters'[ws]["transportErrors"] = counters[ws]["transportErrors"]
          /\ quiet'[ws] = quiet[ws]
          /\ lastRejection'[ws] = lastRejection[ws]
      BY <1>4, <1>6, <1>9, <1>10, <2>2
    <3> QED  BY <1>7, <1>8, <3>1, CounterAssumption
               DEF CounterAssumption, Counter, Increment, Account
  <2>3. CASE verdict = "quiet"
    <3>1. /\ counters'[ws]["receivedFrames"] = Increment(counters[ws]["receivedFrames"])
          /\ counters'[ws]["acceptedInspectionFrames"] = counters[ws]["acceptedInspectionFrames"]
          /\ counters'[ws]["rejectedFrames"] = counters[ws]["rejectedFrames"]
          /\ counters'[ws]["ignoredFrames"] = counters[ws]["ignoredFrames"]
          /\ counters'[ws]["transportErrors"] = counters[ws]["transportErrors"]
          /\ quiet'[ws] = Increment(quiet[ws])
          /\ lastRejection'[ws] = lastRejection[ws]
      BY <1>4, <1>6, <1>9, <1>10, <2>3
    <3> QED  BY <1>7, <1>8, <3>1, CounterAssumption
               DEF CounterAssumption, Counter, Increment, Account
  <2>4. CASE verdict \in FrameRejections
    <3>1. /\ counters'[ws]["receivedFrames"] = Increment(counters[ws]["receivedFrames"])
          /\ counters'[ws]["acceptedInspectionFrames"] = counters[ws]["acceptedInspectionFrames"]
          /\ counters'[ws]["rejectedFrames"] = Increment(counters[ws]["rejectedFrames"])
          /\ counters'[ws]["ignoredFrames"] = counters[ws]["ignoredFrames"]
          /\ counters'[ws]["transportErrors"] = counters[ws]["transportErrors"]
          /\ quiet'[ws] = quiet[ws]
          /\ lastRejection'[ws] = verdict
          /\ verdict # "none"
      BY <1>4, <1>6, <1>9, <1>10, <2>4
    <3> QED  BY <1>7, <1>8, <3>1, CounterAssumption
               DEF CounterAssumption, Counter, Increment, Account
  <2> QED  BY <1>2, <2>1, <2>2, <2>3, <2>4
<1> QED  BY <1>11 DEF Balanced, Account

LEMMA AccountInit == Init => AccountInv
BY TypeInit DEF Init, AccountInv, Balanced, Zero, Keys

LEMMA AccountNext == AccountInv /\ [Next]_vars => AccountInv'
<1> SUFFICES ASSUME AccountInv, [Next]_vars, NEW ws \in Socket PROVE Balanced(ws)'
  BY TypeNext DEF AccountInv
<1> USE DEF countVars
<1>1. TypeOK /\ Balanced(ws)
  BY DEF AccountInv
<1>2. ASSUME NEW s \in Socket, Accept(s) \/ Pong(s) PROVE Balanced(ws)'
  BY <1>1, <1>2, SameAccounts DEF Accept, Pong
<1>3. ASSUME NEW s \in Socket, Disconnect(s) PROVE Balanced(ws)'
  <2>1. CASE s = ws
    <3>1. counters'[ws] = Zero /\ lastRejection'[ws] = "none" /\ quiet'[ws] = 0
      BY <1>1, <1>3, <2>1 DEF Disconnect, TypeOK
    <3> QED  BY <3>1 DEF Balanced, Zero, Keys
  <2>2. CASE s # ws
    BY <1>1, <1>3, <2>2, SameAccounts DEF Disconnect, TypeOK
  <2> QED  BY <2>1, <2>2
<1>4. ASSUME NEW s \in Socket, TransportError(s) PROVE Balanced(ws)'
  <2>1. CASE s = ws /\ ws \in connections
    <3>1. counters'[ws] = Bump(counters[ws], {"transportErrors"})
      BY <1>1, <1>4, <2>1, Counted DEF TransportError, KeyOf
    <3>2. lastRejection'[ws] = "transport_error" /\ quiet'[ws] = quiet[ws]
      BY <1>1, <1>4, <2>1, NoteTyped DEF TransportError, Rejections
    <3>3. \A k \in Keys : counters[ws][k] \in Counter /\ counters[ws][k] \in Nat
      BY <1>1, CounterFields
    <3>4. /\ \A k \in Keys \ {"transportErrors"} : counters'[ws][k] = counters[ws][k]
          /\ counters'[ws]["transportErrors"] = Increment(counters[ws]["transportErrors"])
      BY <3>1 DEF Bump, Keys
    <3>5. counters'[ws]["transportErrors"] \in Nat /\ counters'[ws]["transportErrors"] > 0
      BY <3>3, <3>4, IncrementTyped, CounterAssumption
         DEF Keys, Counter, CounterAssumption
    <3> QED  BY <1>1, <3>2, <3>3, <3>4, <3>5 DEF Balanced, Keys
  <2>2. CASE s = ws /\ ws \notin connections
    BY <1>1, <1>4, <2>2, SameAccounts DEF TransportError, Count, NoteRejection
  <2>3. CASE s # ws
    BY <1>1, <1>4, <2>3, Counted, NoteTyped, SameAccounts DEF TransportError, Rejections
  <2> QED  BY <2>1, <2>2, <2>3
<1>5. ASSUME NEW s \in Socket, NEW key \in CommandFailures, CommandFails(s, key)
      PROVE  Balanced(ws)'
  <2>1. CASE s = ws
    <3>1. counters'[ws] = Bump(counters[ws], {key})
      BY <1>1, <1>5, <2>1, Counted DEF CommandFails
    <3>2. key \in {"unsupportedCommands", "commandTimeouts"}
      BY FrameAssumption DEF FrameAssumption
    <3>3. \A k \in Keys \ {"unsupportedCommands", "commandTimeouts"} :
            counters'[ws][k] = counters[ws][k]
      BY <3>1, <3>2 DEF Bump
    <3>4. lastRejection'[ws] = lastRejection[ws] /\ quiet'[ws] = quiet[ws]
      BY <1>5 DEF CommandFails
    <3> QED  BY <1>1, <3>3, <3>4 DEF Balanced, Keys
  <2>2. CASE s # ws
    BY <1>1, <1>5, <2>2, Counted, SameAccounts DEF CommandFails
  <2> QED  BY <2>1, <2>2
<1>6. ASSUME NEW s \in Socket, NEW f \in Sendable, Handle(s, f) PROVE Balanced(ws)'
  <2>1. CASE s = ws
    BY <1>6, <2>1, HandleAccounts
  <2>2. CASE s # ws
    <3>1. counters'[ws] = counters[ws]
      BY <1>1, <1>6, <2>2, Counted DEF Handle
    <3>2. quiet'[ws] = quiet[ws]
      BY <1>1, <1>6, <2>2 DEF Handle, TypeOK
    <3>3. lastRejection'[ws] = lastRejection[ws]
      BY <1>1, <1>6, <2>2, NoteTyped DEF Handle
    <3> QED  BY <1>1, <3>1, <3>2, <3>3, SameAccounts
  <2> QED  BY <2>1, <2>2
<1>7. CASE RejectConnection \/ ClearActors \/ CloseRegistry \/ Tick \/ Heartbeat
  BY <1>1, <1>7, SameAccounts
     DEF RejectConnection, ClearActors, CloseRegistry, Tick, Heartbeat
<1>8. CASE UNCHANGED vars
  BY <1>1, <1>8, SameAccounts DEF vars
<1> QED
  BY <1>2, <1>3, <1>4, <1>5, <1>6, <1>7, <1>8 DEF Next, SocketStep

\* handleMessage loses no frame and counts none twice, and a rejection stays
\* visible on its connection, whatever peers send and wherever the counters stop.
THEOREM FramesAreAccounted == Spec => []FramesAccounted
BY AccountInit, AccountNext, AccountsReported, PTL DEF Spec

-----------------------------------------------------------------------------
(* Refused hellos *)

\* A connection whose hello was refused feeds nothing to the store, because
\* handleMessage checks the negotiation before it looks at an inspection.
THEOREM RefusedStaysOut == Spec => RefusedCannotInspect
<1> DEFINE Refused(ws) == negotiation[ws] \in {"invalid", "incompatible"}
           Fed(ws) == /\ actors'[ws] \subseteq actors[ws]
                      /\ counters'[ws]["acceptedInspectionFrames"] =
                           counters[ws]["acceptedInspectionFrames"]
<1>1. ASSUME TypeOK, [Next]_vars, NEW ws \in connections \cap connections', Refused(ws)
      PROVE  Fed(ws)
  <2> USE DEF countVars
  <2>1. ws \in Socket /\ "acceptedInspectionFrames" \in Keys
    BY <1>1 DEF TypeOK, Keys
  <2>2. ASSUME counters'[ws] = counters[ws], actors'[ws] = actors[ws] PROVE Fed(ws)
    BY <2>2
  <2>3. ASSUME NEW s \in Socket, Accept(s) \/ Pong(s) PROVE Fed(ws)
    BY <2>3 DEF Accept, Pong
  <2>4. ASSUME NEW s \in Socket, Disconnect(s) PROVE Fed(ws)
    <3>1. s # ws
      BY <1>1, <2>4 DEF Disconnect
    <3> QED  BY <1>1, <2>1, <2>4, <3>1 DEF Disconnect, TypeOK
  <2>5. ASSUME NEW s \in Socket, NEW keys, Count(s, keys), actors' = actors,
               "acceptedInspectionFrames" \notin keys
        PROVE  Fed(ws)
    <3>1. CASE s = ws
      <4>1. counters'[ws] = Bump(counters[ws], keys)
        BY <1>1, <2>5, <3>1, Counted
      <4> QED  BY <2>1, <2>5, <4>1 DEF Bump
    <3>2. CASE s # ws
      BY <1>1, <2>1, <2>5, <3>2, Counted
    <3> QED  BY <3>1, <3>2
  <2>6. ASSUME NEW s \in Socket, TransportError(s) PROVE Fed(ws)
    BY <2>5, <2>6 DEF TransportError, KeyOf
  <2>7. ASSUME NEW s \in Socket, NEW key \in CommandFailures, CommandFails(s, key)
        PROVE  Fed(ws)
    BY <2>5, <2>7, FrameAssumption DEF FrameAssumption, CommandFails
  <2>8. ASSUME NEW s \in Socket, NEW f \in Sendable, Handle(s, f) PROVE Fed(ws)
    <3>1. CASE s = ws
      <4>1. Verdict(ws, f) # "accepted"
        BY <1>1, <2>1, AcceptedMayInspect DEF CanInspect
      <4>2. "acceptedInspectionFrames" \notin KeysOf(Verdict(ws, f))
        BY <2>1, <4>1, VerdictTyped, FrameKeys
      <4>3. actors' = actors
        BY <2>8, <3>1, <4>1 DEF Handle
      <4> QED  BY <2>1, <2>5, <2>8, <3>1, <4>2, <4>3 DEF Handle
    <3>2. CASE s # ws
      <4>1. counters'[ws] = counters[ws]
        BY <1>1, <2>1, <2>8, <3>2, Counted DEF Handle
      <4>2. actors'[ws] = actors[ws]
        BY <1>1, <2>1, <2>8, <3>2 DEF Handle, TypeOK
      <4> QED  BY <2>2, <4>1, <4>2
    <3> QED  BY <3>1, <3>2
  <2>9. CASE ClearActors \/ CloseRegistry
    BY <2>1, <2>9 DEF ClearActors, CloseRegistry
  <2>10. CASE RejectConnection \/ Tick \/ Heartbeat \/ UNCHANGED vars
    BY <2>10 DEF RejectConnection, Tick, Heartbeat, vars
  <2> QED
    BY <1>1, <2>3, <2>4, <2>6, <2>7, <2>8, <2>9, <2>10 DEF Next, SocketStep
<1>2. TypeOK /\ [Next]_vars
        => [\A ws \in connections \cap connections' : Refused(ws) => Fed(ws)]_vars
  BY <1>1
<1> QED  BY TypeInit, TypeNext, <1>2, PTL DEF Spec, RefusedCannotInspect

-----------------------------------------------------------------------------
(* Heartbeats *)

\* Silence lasts at most since the last heartbeat, or since the one before when
\* its ping is not yet answered.
FreshInv ==
  /\ TypeOK /\ pinged \subseteq connections
  /\ \A ws \in connections \cap Responsive :
       idle[ws] <= sinceBeat + (IF ws \in pinged THEN HeartbeatInterval ELSE 0)

LEMMA FreshInit == Init => FreshInv
BY TypeInit DEF Init, FreshInv

LEMMA FreshNext == FreshInv /\ [Next]_vars => FreshInv'
<1> SUFFICES ASSUME FreshInv, [Next]_vars PROVE FreshInv'
  OBVIOUS
<1>1. TypeOK /\ TypeOK'
  BY TypeNext DEF FreshInv
<1>2. /\ HeartbeatInterval \in Nat /\ sinceBeat \in Nat /\ StaleAfter \in Nat
      /\ \A ws \in Socket : idle[ws] \in Nat /\ idle'[ws] \in Nat
      /\ connections \subseteq Socket
  BY <1>1, ClockAssumption DEF ClockAssumption, TypeOK
<1>3. ASSUME UNCHANGED <<connections, clockVars>> PROVE FreshInv'
  BY <1>1, <1>3 DEF FreshInv, clockVars
<1>4. ASSUME NEW ws \in Socket, Accept(ws) PROVE FreshInv'
  BY <1>1, <1>2, <1>4 DEF Accept, FreshInv, TypeOK
<1>5. ASSUME NEW ws \in Socket, Disconnect(ws) PROVE FreshInv'
  BY <1>1, <1>2, <1>5 DEF Disconnect, FreshInv, TypeOK
<1>6. ASSUME NEW ws \in Socket, Pong(ws) PROVE FreshInv'
  BY <1>1, <1>2, <1>6, ActiveTyped DEF Pong, connVars, FreshInv
<1>7. ASSUME NEW ws \in Socket, NEW f \in Sendable, Handle(ws, f) PROVE FreshInv'
  BY <1>1, <1>2, <1>7, ActiveTyped DEF Handle, connVars, FreshInv
<1>8. CASE Tick
  <2>1. \A ws \in connections : idle'[ws] <= idle[ws] + 1
    BY <1>1, <1>2, <1>8 DEF Tick, TypeOK
  <2> QED  BY <1>1, <1>2, <1>8, <2>1 DEF Tick, connVars, FreshInv
<1>9. CASE Heartbeat
  BY <1>1, <1>2, <1>9 DEF Heartbeat, connVars, FreshInv
<1> QED
  BY <1>3, <1>4, <1>5, <1>6, <1>7, <1>8, <1>9
     DEF Next, SocketStep, TransportError, CommandFails, RejectConnection,
         ClearActors, CloseRegistry, vars, connVars

\* A peer that answers each ping before the next is never reported stale, when
\* the stale limit is longer than two heartbeats (the code's is three).
THEOREM ResponsiveFresh ==
  ASSUME StaleAfter > 2 * HeartbeatInterval
  PROVE  Spec => []ResponsiveStaysFresh
<1>1. FreshInv => ResponsiveStaysFresh
  <2> SUFFICES ASSUME FreshInv, NEW ws \in connections \cap Responsive
               PROVE  idle[ws] < StaleAfter
    BY DEF ResponsiveStaysFresh
  <2>1. /\ HeartbeatInterval \in Nat /\ StaleAfter \in Nat
        /\ sinceBeat \in 0 .. HeartbeatInterval /\ idle[ws] \in Nat
    BY ClockAssumption DEF ClockAssumption, FreshInv, TypeOK
  <2> QED  BY <2>1 DEF FreshInv
<1> QED  BY FreshInit, FreshNext, <1>1, PTL DEF Spec

-----------------------------------------------------------------------------
(* Aggregates *)

\* One element for each unit that f gives to an element of S: their number is the
\* sum of f over S in whatever order it is taken.
Units(f, S) == {u \in S \X Nat : 1 <= u[2] /\ u[2] <= f[u[1]]}

LEMMA UnitsOfSubset ==
  ASSUME NEW S, NEW f \in [S -> Nat], IsFiniteSet(Units(f, S)), NEW T \in SUBSET S
  PROVE  IsFiniteSet(Units(f, T))
<1>1. Units(f, T) \in SUBSET Units(f, S)
  BY DEF Units
<1> QED  BY <1>1, FS_Subset

\* An element contributes its value to the sum.
LEMMA UnitsOfElement ==
  ASSUME NEW S, NEW f \in [S -> Nat], IsFiniteSet(Units(f, S)), NEW x \in S
  PROVE  Cardinality(Units(f, S)) = f[x] + Cardinality(Units(f, S \ {x}))
<1> DEFINE rest == Units(f, S \ {x})
           own  == {u \in {x} \X Nat : 1 <= u[2] /\ u[2] <= f[x]}
           nth  == [i \in 1 .. f[x] |-> <<x, i>>]
<1>1. f[x] \in Nat
  OBVIOUS
<1>2. IsFiniteSet(1 .. f[x]) /\ Cardinality(1 .. f[x]) = f[x]
  BY <1>1, FS_Interval
<1>3. nth \in Bijection(1 .. f[x], own)
  <2>1. \A i \in 1 .. f[x] : nth[i] \in own
    BY <1>1
  <2>2. \A i, j \in 1 .. f[x] : nth[i] = nth[j] => i = j
    OBVIOUS
  <2>3. \A u \in own : u[2] \in 1 .. f[x] /\ nth[u[2]] = u
    BY <1>1
  <2> QED  BY <2>1, <2>2, <2>3 DEF Bijection, Injection, Surjection, IsInjective
<1>4. IsFiniteSet(own) /\ Cardinality(own) = f[x]
  BY <1>2, <1>3, FS_Bijection DEF ExistsBijection
<1>5. IsFiniteSet(rest)
  BY UnitsOfSubset
<1>6. Units(f, S) = own \cup rest /\ own \cap rest = {}
  BY DEF Units
<1>7. Cardinality(own \cap rest) = 0
  BY <1>6, FS_EmptySet
<1>8. Cardinality(rest) \in Nat
  BY <1>5, FS_CardinalityType
<1> HIDE DEF own, rest
<1>9. Cardinality(own \cup rest) = Cardinality(own) + Cardinality(rest) - Cardinality(own \cap rest)
  BY <1>4, <1>5, FS_Union
<1>10. Cardinality(Units(f, S)) = f[x] + Cardinality(rest)
  BY <1>1, <1>4, <1>6, <1>7, <1>8, <1>9
<1> QED  BY <1>10 DEF rest

\* What MapThenSumSet computes, whichever element it takes first.
LEMMA SumIsUnits ==
  ASSUME NEW S, IsFiniteSet(S), NEW f \in [S -> Nat], IsFiniteSet(Units(f, S))
  PROVE  MapThenSumSet(LAMBDA x : f[x], S) = Cardinality(Units(f, S))
<1> DEFINE Step(g) == [s \in SUBSET S |->
                        IF s = {} THEN 0
                        ELSE LET x == CHOOSE y \in s : TRUE IN f[x] + g[s \ {x}]]
           sum == CHOOSE g : g = Step(g)
           number == [s \in SUBSET S |-> Cardinality(Units(f, s))]
<1>1. ASSUME NEW s \in SUBSET S, s # {}, NEW x \in s
      PROVE  number[s] = f[x] + number[s \ {x}]
  <2>1. f \in [S -> Nat] /\ IsFiniteSet(Units(f, s)) /\ x \in S
    BY UnitsOfSubset
  <2> DEFINE h == [y \in s |-> f[y]]
  <2>2. h \in [s -> Nat] /\ Units(h, s) = Units(f, s) /\ Units(h, s \ {x}) = Units(f, s \ {x}) /\ h[x] = f[x]
    BY DEF Units
  <2> HIDE DEF h
  <2>3. Cardinality(Units(h, s)) = h[x] + Cardinality(Units(h, s \ {x}))
    BY <2>1, <2>2, UnitsOfElement
  <2> QED  BY <2>2, <2>3
<1>2. number[{}] = 0
  <2>1. Units(f, {}) = {}
    BY DEF Units
  <2> QED  BY <2>1, FS_EmptySet
<1>3. \A s \in SUBSET S : s # {} => (CHOOSE y \in s : TRUE) \in s
  OBVIOUS
<1>4. number = Step(number)
  BY <1>1, <1>2, <1>3
<1>5. sum = Step(sum)
  BY <1>4
<1> HIDE DEF sum
<1>6. sum = number
  <2> DEFINE bad == {s \in SUBSET S : sum[s] # number[s]}
  <2>1. bad = {}
    <3> SUFFICES ASSUME bad # {} PROVE FALSE
      OBVIOUS
    <3>1. IsWellFoundedOn(StrictSubsetOrdering(S), SUBSET S)
      BY FS_StrictSubsetOrderingWellFounded, FS_FiniteSubsetsOfFinite
    <3>2. PICK s \in bad : \A r \in bad : <<r, s>> \notin StrictSubsetOrdering(S)
      <4>1. bad \subseteq SUBSET S
        OBVIOUS
      <4> HIDE DEF bad
      <4> QED  BY <3>1, <4>1, WFMin
    <3>3. s # {}
      BY <1>2, <1>5
    <3> DEFINE x == CHOOSE y \in s : TRUE
    <3>4. x \in s
      BY <3>3
    <3> HIDE DEF x
    <3>5. s \ {x} \in SUBSET S /\ <<s \ {x}, s>> \in StrictSubsetOrdering(S)
      BY <3>4 DEF StrictSubsetOrdering
    <3>6. sum[s \ {x}] = number[s \ {x}]
      BY <3>2, <3>5
    <3>7. sum[s] = f[x] + sum[s \ {x}]
      BY <1>5, <3>3 DEF x
    <3> QED  BY <1>1, <3>3, <3>4, <3>6, <3>7
  <2>2. \A s \in SUBSET S : sum[s] = number[s]
    BY <2>1
  <2>3. sum = [s \in SUBSET S |-> sum[s]]
    BY <1>5
  <2>4. number = [s \in SUBSET S |-> number[s]]
    OBVIOUS
  <2> HIDE DEF number
  <2> QED  BY <2>2, <2>3, <2>4
<1> QED  BY <1>6 DEF sum, MapThenSumSet, MapThenFoldSet


\* What the live connections have counted under a key.
CountedHere(k) == {u \in connections \X Nat : 1 <= u[2] /\ u[2] <= counters[u[1]][k]}

\* How many units that is, with what connections counted that are gone.
Total(k) == Cardinality(CountedHere(k)) + departed[k]

\* Sockets without a record have counted nothing.
CoverInv ==
  /\ TypeOK
  /\ IsFiniteSet(connections) /\ connections \cap gone = {}
  /\ \A ws \in Socket \ connections : counters[ws] = Zero /\ lastRejection[ws] = "none"
  /\ \A k \in Keys : IsFiniteSet(CountedHere(k)) /\ counts[k] = Saturated(Total(k))

LEMMA CoverReported == CoverInv => AggregatesCover
<1> SUFFICES ASSUME CoverInv, NEW k \in Keys PROVE counts[k] = Saturated(Present(k) + departed[k])
  BY DEF AggregatesCover, CoverInv
<1> DEFINE f == [ws \in connections |-> counters[ws][k]]
<1>1. f \in [connections -> Nat]
  BY CounterFields DEF CoverInv, TypeOK
<1>2. Units(f, connections) = CountedHere(k)
  BY DEF Units, CountedHere
<1>3. IsFiniteSet(connections) /\ IsFiniteSet(CountedHere(k)) /\ counts[k] = Saturated(Total(k))
  BY DEF CoverInv
<1> HIDE DEF f
<1>4. MapThenSumSet(LAMBDA ws : f[ws], connections) = Cardinality(Units(f, connections))
  BY <1>1, <1>2, <1>3, SumIsUnits
<1>5. Present(k) = MapThenSumSet(LAMBDA ws : f[ws], connections)
  BY DEF f, Present, MapThenSumSet, MapThenFoldSet
<1> QED  BY <1>2, <1>3, <1>4, <1>5 DEF Total

\* The totals are numbers, and what a connection has counted is part of them.
LEMMA TotalTyped ==
  ASSUME CoverInv, NEW k \in Keys
  PROVE  /\ Cardinality(CountedHere(k)) \in Nat
         /\ departed[k] \in Nat /\ departed[k] <= COUNTER_MAX /\ COUNTER_MAX \in Nat
         /\ Total(k) \in Nat /\ counts[k] = Saturated(Total(k))
<1>1. Cardinality(CountedHere(k)) \in Nat
  BY FS_CardinalityType DEF CoverInv
<1>2. departed[k] \in Nat /\ departed[k] <= COUNTER_MAX /\ COUNTER_MAX \in Nat
  BY CounterAssumption DEF CounterAssumption, Counter, CoverInv, TypeOK
<1> QED  BY <1>1, <1>2 DEF Total, CoverInv

\* The units of a connection and those of the others.
LEMMA OwnUnits ==
  ASSUME CoverInv, NEW ws \in connections, NEW k \in Keys
  PROVE  LET others == {u \in CountedHere(k) : u[1] # ws}
         IN  /\ IsFiniteSet(others) /\ Cardinality(others) \in Nat
             /\ counters[ws][k] \in Nat
             /\ Cardinality(CountedHere(k)) = counters[ws][k] + Cardinality(others)
<1> DEFINE f == [x \in connections |-> counters[x][k]]
           others == {u \in CountedHere(k) : u[1] # ws}
<1>1. f \in [connections -> Nat] /\ f[ws] = counters[ws][k] /\ counters[ws][k] \in Nat
  BY CounterFields DEF CoverInv, TypeOK
<1>2. Units(f, connections) = CountedHere(k) /\ Units(f, connections \ {ws}) = others
  BY DEF Units, CountedHere
<1>3. IsFiniteSet(CountedHere(k))
  BY DEF CoverInv
<1>4. IsFiniteSet(others) /\ Cardinality(others) \in Nat
  <2>1. others \in SUBSET CountedHere(k)
    OBVIOUS
  <2> HIDE DEF others
  <2> QED  BY <1>3, <2>1, FS_Subset, FS_CardinalityType
<1> HIDE DEF f, others
<1>5. Cardinality(CountedHere(k)) = counters[ws][k] + Cardinality(others)
  BY <1>1, <1>2, <1>3, UnitsOfElement
<1> QED  BY <1>1, <1>4, <1>5 DEF others

\* Steps that leave the counters and the connections alone.
LEMMA CoverSame ==
  ASSUME CoverInv, TypeOK', UNCHANGED connVars, UNCHANGED countVars
  PROVE  CoverInv'
BY DEF CoverInv, CountedHere, Total, connVars, countVars

\* What a step that only counts owes.
LEMMA CoverKept ==
  ASSUME CoverInv, TypeOK', UNCHANGED connVars,
         \A ws \in Socket \ connections : counters'[ws] = Zero /\ lastRejection'[ws] = "none",
         \A k \in Keys : IsFiniteSet(CountedHere(k)') /\ counts'[k] = Saturated(Total(k)')
  PROVE  CoverInv'
BY DEF CoverInv, connVars

\* A count on a connection with a record adds one unit to it and one to the aggregate.
LEMMA CountedUnit ==
  ASSUME CoverInv, TypeOK', UNCHANGED connVars, departed' = departed,
         NEW ws \in Socket, ws \in connections, NEW keys, Count(ws, keys), NEW k \in Keys
  PROVE  IsFiniteSet(CountedHere(k)') /\ counts'[k] = Saturated(Total(k)')
<1> DEFINE unit == <<ws, counters[ws][k] + 1>>
           n == Cardinality(CountedHere(k))
           c == counters[ws][k]
<1>1. TypeOK /\ IsFiniteSet(CountedHere(k))
  BY DEF CoverInv
<1>2. /\ n \in Nat /\ departed[k] \in Nat /\ COUNTER_MAX \in Nat
      /\ Total(k) = n + departed[k] /\ Total(k) \in Nat /\ counts[k] = Saturated(Total(k))
  BY TotalTyped DEF Total
<1>3. counts'[k] = IF k \in keys THEN Increment(counts[k]) ELSE counts[k]
  BY DEF Count, Bump
<1>4. /\ \A other \in Socket \ {ws} : counters'[other] = counters[other]
      /\ counters'[ws][k] = IF k \in keys THEN Increment(c) ELSE c
  <2>1. /\ \A other \in Socket \ {ws} : counters'[other] = counters[other]
        /\ counters'[ws] = Bump(counters[ws], keys)
    BY <1>1, Counted
  <2> QED  BY <2>1 DEF Bump
<1>5. c \in Nat /\ c <= COUNTER_MAX /\ connections \subseteq Socket
  BY <1>1, CounterAssumption DEF CounterAssumption, Counter, TypeOK
<1>6. CASE k \in keys /\ c < COUNTER_MAX
  <2>1. counters'[ws][k] = c + 1
    BY <1>4, <1>6 DEF Increment
  <2>2. CountedHere(k)' = CountedHere(k) \cup {unit}
    <3>1. \A u \in connections \X Nat :
            /\ u[1] # ws => counters'[u[1]][k] = counters[u[1]][k]
            /\ u[1] = ws => (u[2] <= counters'[u[1]][k] <=> u[2] <= c \/ u[2] = c + 1)
      BY <1>4, <1>5, <2>1
    <3>2. unit \in connections \X Nat /\ unit[1] = ws /\ unit[2] = c + 1 /\ 1 <= c + 1
      BY <1>5
    <3>3. \A u \in connections \X Nat : u[1] = ws /\ u[2] = c + 1 => u = unit
      OBVIOUS
    <3> HIDE DEF unit
    <3> QED  BY <3>1, <3>2, <3>3 DEF CountedHere, connVars
  <2>3. unit \notin CountedHere(k)
    BY <1>5 DEF CountedHere
  <2> HIDE DEF unit
  <2>4. IsFiniteSet(CountedHere(k)') /\ Cardinality(CountedHere(k)') = n + 1
    BY <1>1, <2>2, <2>3, FS_AddElement
  <2>5. Total(k)' = Total(k) + 1
    BY <1>2, <2>4 DEF Total
  <2> QED  BY <1>2, <1>3, <1>6, <2>4, <2>5, SaturatedTyped
<1>7. CASE k \notin keys \/ ~(c < COUNTER_MAX)
  <2>1. counters'[ws][k] = c
    BY <1>2, <1>4, <1>5, <1>7 DEF Increment
  <2>2. CountedHere(k)' = CountedHere(k)
    BY <1>4, <1>5, <2>1 DEF CountedHere, connVars
  <2>3. Total(k)' = Total(k)
    BY <2>2 DEF Total
  <2>4. counts'[k] = counts[k]
    <3>1. CASE k \notin keys
      BY <1>3, <3>1
    <3>2. CASE ~(c < COUNTER_MAX)
      <4>1. \E others : Cardinality(others) \in Nat /\ n = c + Cardinality(others)
        BY OwnUnits
      <4>2. n >= COUNTER_MAX /\ Total(k) >= COUNTER_MAX
        BY <1>2, <1>5, <3>2, <4>1
      <4>3. counts[k] = COUNTER_MAX
        BY <1>2, <4>2 DEF Saturated
      <4> QED  BY <1>2, <1>3, <4>3 DEF Increment
    <3> QED  BY <1>7, <3>1, <3>2
  <2> QED  BY <1>1, <1>2, <2>2, <2>3, <2>4
<1> QED  BY <1>6, <1>7

LEMMA CoverCounted ==
  ASSUME CoverInv, TypeOK', UNCHANGED connVars, departed' = departed,
         NEW ws \in Socket, ws \in connections, NEW keys, Count(ws, keys),
         \A other \in Socket \ connections : lastRejection'[other] = lastRejection[other]
  PROVE  CoverInv'
<1>1. \A other \in Socket \ connections : counters'[other] = Zero /\ lastRejection'[other] = "none"
  BY Counted DEF CoverInv
<1>2. \A k \in Keys : IsFiniteSet(CountedHere(k)') /\ counts'[k] = Saturated(Total(k)')
  BY CountedUnit
<1> QED  BY <1>1, <1>2, CoverKept

\* An error that is reported after the record is gone.
LEMMA CoverLate ==
  ASSUME CoverInv, TypeOK', NEW ws \in Socket, ws \notin connections, TransportError(ws)
  PROVE  CoverInv'
<1>1. /\ UNCHANGED connVars /\ connections' = connections
      /\ counters' = counters /\ lastRejection' = lastRejection
      /\ counts' = Bump(counts, {"transportErrors"})
      /\ departed' = [departed EXCEPT !["transportErrors"] = Increment(departed["transportErrors"])]
  BY DEF TransportError, connVars, Count, NoteRejection, KeyOf
<1>2. ASSUME NEW k \in Keys PROVE IsFiniteSet(CountedHere(k)') /\ counts'[k] = Saturated(Total(k)')
  <2>1. CountedHere(k)' = CountedHere(k) /\ IsFiniteSet(CountedHere(k))
    BY <1>1 DEF CountedHere, CoverInv
  <2>2. /\ Cardinality(CountedHere(k)) \in Nat /\ departed[k] \in Nat
        /\ departed[k] <= COUNTER_MAX /\ COUNTER_MAX \in Nat
        /\ Total(k) = Cardinality(CountedHere(k)) + departed[k]
        /\ Total(k) \in Nat /\ counts[k] = Saturated(Total(k))
    BY TotalTyped DEF Total
  <2>3. departed \in [Keys -> Counter]
    BY DEF CoverInv, TypeOK
  <2>4. CASE k = "transportErrors"
    <3>1. counts'[k] = Increment(counts[k]) /\ departed'[k] = Increment(departed[k])
      BY <1>1, <2>3, <2>4 DEF Bump
    <3>2. counts'[k] = Saturated(Total(k) + 1)
      BY <2>2, <3>1, SaturatedTyped
    <3>3. Total(k)' = Cardinality(CountedHere(k)) + Increment(departed[k])
      BY <2>1, <3>1 DEF Total
    <3>4. Saturated(Total(k)') = Saturated(Total(k) + 1)
      BY <2>2, <3>3 DEF Saturated, Increment
    <3> QED  BY <2>1, <3>2, <3>4
  <2>5. CASE k # "transportErrors"
    <3>1. counts'[k] = counts[k] /\ departed'[k] = departed[k]
      BY <1>1, <2>3, <2>5 DEF Bump
    <3>2. Total(k)' = Total(k)
      BY <2>1, <3>1 DEF Total
    <3> QED  BY <2>1, <2>2, <3>1, <3>2
  <2> QED  BY <2>4, <2>5
<1>3. \A other \in Socket \ connections : counters'[other] = Zero /\ lastRejection'[other] = "none"
  BY <1>1 DEF CoverInv
<1> QED  BY <1>1, <1>2, <1>3, CoverKept

\* A connection that goes hands over what it has counted.
LEMMA CoverGone ==
  ASSUME CoverInv, TypeOK', NEW ws \in Socket, Disconnect(ws)
  PROVE  CoverInv'
<1>1. /\ ws \in connections /\ connections' = connections \ {ws} /\ counts' = counts
      /\ gone' = gone \cup {ws}
      /\ counters' = [counters EXCEPT ![ws] = Zero]
      /\ lastRejection' = [lastRejection EXCEPT ![ws] = "none"]
      /\ departed' = [k \in Keys |-> Saturated(departed[k] + counters[ws][k])]
  BY DEF Disconnect
<1>2. TypeOK
  BY DEF CoverInv
<1>3. IsFiniteSet(connections') /\ connections' \cap gone' = {}
  BY <1>1, FS_RemoveElement DEF CoverInv
<1>4. \A other \in Socket \ connections' : counters'[other] = Zero /\ lastRejection'[other] = "none"
  BY <1>1, <1>2 DEF CoverInv, TypeOK
<1>5. ASSUME NEW k \in Keys PROVE IsFiniteSet(CountedHere(k)') /\ counts'[k] = Saturated(Total(k)')
  <2> DEFINE others == {u \in CountedHere(k) : u[1] # ws}
             c == counters[ws][k]
  <2>1. /\ IsFiniteSet(others) /\ Cardinality(others) \in Nat /\ c \in Nat
        /\ Cardinality(CountedHere(k)) = c + Cardinality(others)
    BY <1>1, OwnUnits
  <2>2. CountedHere(k)' = others
    BY <1>1, <1>2 DEF CountedHere, TypeOK
  <2>3. departed'[k] = Saturated(departed[k] + c)
    BY <1>1
  <2> HIDE DEF others, c
  <2>4. Total(k)' = Cardinality(others) + Saturated(departed[k] + c)
    BY <2>2, <2>3 DEF Total
  <2>5. /\ departed[k] \in Nat /\ COUNTER_MAX \in Nat /\ counts[k] = Saturated(Total(k))
        /\ Total(k) = c + Cardinality(others) + departed[k]
    BY <2>1, TotalTyped DEF Total
  <2>6. Saturated(Total(k)') = Saturated(Total(k))
    BY <2>1, <2>4, <2>5 DEF Saturated
  <2> QED  BY <1>1, <2>1, <2>2, <2>5, <2>6
<1> QED  BY <1>3, <1>4, <1>5 DEF CoverInv

LEMMA CoverInit == Init => CoverInv
<1> SUFFICES ASSUME Init PROVE CoverInv
  OBVIOUS
<1>1. \A k \in Keys : CountedHere(k) = {}
  BY DEF Init, CountedHere
<1>2. \A k \in Keys : /\ IsFiniteSet(CountedHere(k)) /\ Cardinality(CountedHere(k)) = 0
                      /\ counts[k] = 0 /\ departed[k] = 0
  BY <1>1, FS_EmptySet DEF Init, Zero
<1>3. \A k \in Keys : IsFiniteSet(CountedHere(k)) /\ counts[k] = Saturated(Total(k))
  BY <1>2, CounterAssumption DEF CounterAssumption, Total, Saturated
<1> QED  BY <1>3, TypeInit, FS_EmptySet DEF CoverInv, Init

LEMMA CoverNext == CoverInv /\ [Next]_vars => CoverInv'
<1> SUFFICES ASSUME CoverInv, [Next]_vars PROVE CoverInv'
  OBVIOUS
<1>1. TypeOK /\ TypeOK' /\ connections \subseteq Socket
  BY TypeNext DEF CoverInv, TypeOK
<1>2. ASSUME NEW ws \in Socket, Accept(ws) PROVE CoverInv'
  <2>1. /\ connections' = connections \cup {ws} /\ UNCHANGED countVars
        /\ counters[ws] = Zero /\ gone' = gone /\ ws \notin gone
    BY <1>2 DEF Accept, CoverInv
  <2>2. IsFiniteSet(connections') /\ connections' \cap gone' = {}
    BY <2>1, FS_AddElement DEF CoverInv
  <2>3. \A k \in Keys : CountedHere(k)' = CountedHere(k)
    BY <2>1 DEF CountedHere, Zero, countVars
  <2> QED  BY <1>1, <2>1, <2>2, <2>3 DEF CoverInv, Total, countVars
<1>3. ASSUME NEW ws \in Socket, Disconnect(ws) PROVE CoverInv'
  BY <1>1, <1>3, CoverGone
<1>4. ASSUME NEW ws \in Socket, TransportError(ws) PROVE CoverInv'
  <2>1. CASE ws \in connections
    <3>1. /\ UNCHANGED connVars /\ Count(ws, {KeyOf("transport_error")})
          /\ NoteRejection(ws, "transport_error")
      BY <1>4 DEF TransportError
    <3>2. departed' = departed
      BY <1>4, <2>1 DEF TransportError, CoverInv
    <3>3. \A other \in Socket \ connections : lastRejection'[other] = lastRejection[other]
      BY <1>1, <2>1, <3>1, NoteTyped DEF Rejections
    <3> QED  BY <1>1, <2>1, <3>1, <3>2, <3>3, CoverCounted
  <2>2. CASE ws \notin connections
    BY <1>1, <1>4, <2>2, CoverLate
  <2> QED  BY <2>1, <2>2
<1>5. ASSUME NEW ws \in Socket, NEW key \in CommandFailures, CommandFails(ws, key) PROVE CoverInv'
  BY <1>1, <1>5, CoverCounted DEF CommandFails
<1>6. ASSUME NEW ws \in Socket, NEW f \in Sendable, Handle(ws, f) PROVE CoverInv'
  <2>1. /\ ws \in connections /\ UNCHANGED connVars /\ departed' = departed
        /\ Count(ws, KeysOf(Verdict(ws, f)))
    BY <1>6 DEF Handle
  <2>2. \A other \in Socket \ connections : lastRejection'[other] = lastRejection[other]
    <3>1. CASE Verdict(ws, f) \in Rejections
      BY <1>1, <1>6, <2>1, <3>1, NoteTyped DEF Handle
    <3>2. CASE Verdict(ws, f) \notin Rejections
      BY <1>6, <3>2 DEF Handle
    <3> QED  BY <3>1, <3>2
  <2> QED  BY <1>1, <2>1, <2>2, CoverCounted
<1>7. ASSUME NEW ws \in Socket, Pong(ws) PROVE CoverInv'
  BY <1>1, <1>7, CoverSame DEF Pong
<1>8. CASE RejectConnection \/ ClearActors \/ CloseRegistry \/ Tick \/ Heartbeat
  BY <1>1, <1>8, CoverSame
     DEF RejectConnection, ClearActors, CloseRegistry, Tick, Heartbeat
<1>9. CASE UNCHANGED vars
  BY <1>1, <1>9, CoverSame DEF vars
<1> QED
  BY <1>2, <1>3, <1>4, <1>5, <1>6, <1>7, <1>8, <1>9 DEF Next, SocketStep

\* No step lowers an aggregate.
LEMMA CountsGrow == TypeOK /\ [Next]_vars => [\A k \in Keys : counts[k] <= counts'[k]]_vars
<1> SUFFICES ASSUME TypeOK, [Next]_vars, NEW k \in Keys PROVE counts[k] <= counts'[k]
  OBVIOUS
<1>1. counts[k] \in Counter /\ counts[k] \in Nat
  BY CounterAssumption DEF CounterAssumption, Counter, TypeOK
<1>2. ASSUME NEW ws, NEW keys, Count(ws, keys) PROVE counts[k] <= counts'[k]
  BY <1>1, <1>2, IncrementTyped DEF Count, Bump
<1>3. counts' = counts => counts[k] <= counts'[k]
  BY <1>1
<1> QED
  BY <1>2, <1>3 DEF Next, SocketStep, Accept, Disconnect, TransportError, Pong, CommandFails, Handle,
     RejectConnection, ClearActors, CloseRegistry, Tick, Heartbeat, countVars, vars

\* The totals of the health report are what the connections count that are there and
\* what those counted that are gone, with the errors reported after; they stop at the
\* schema's limit.
THEOREM AggregatesCoverHolds == Spec => []AggregatesCover
<1> QED  BY CoverInit, CoverNext, CoverReported, PTL DEF Spec

\* A total of the health report never goes down, whatever connections come and go.
THEOREM AggregatesNeverFall == Spec => [][\A k \in Keys : counts[k] <= counts'[k]]_vars
<1>1. CoverInv => TypeOK
  BY DEF CoverInv
<1> QED  BY CoverInit, CoverNext, CountsGrow, <1>1, PTL DEF Spec

===============================================================================
