--------------------------- MODULE ActorWaitsProofs ---------------------------
(***************************************************************************)
(* Proofs about ActorWaits for any number of calls, actors and waiters, any *)
(* ring and any bounds. The invariant adds to PendingWaits what makes it    *)
(* inductive: a pending event wait has looked at every event of its record, *)
(* so that the next change shows it exactly one new event.                  *)
(***************************************************************************)
EXTENDS ActorWaits, FiniteSetTheorems, WellFoundedInduction, TLAPS

LogsBounded ==
  \A sid \in SessionId : actors[sid] # NoActor => Len(actors[sid].log) <= MaxEvents

BaselinesCurrent ==
  \A w \in pending :
    request[w].kind = "event" =>
      /\ afterEvent[w] = Len(actors[request[w].sid].log)
      /\ request[w].from <= Len(actors[request[w].sid].log)

WaitsInv ==
  /\ PendingWaits
  /\ LogsBounded /\ BaselinesCurrent
  /\ \A w \in pending : request[w] \in Request
  /\ IsFiniteSet(pending)

-----------------------------------------------------------------------------
(* Evaluating a wait *)

\* A set of numbers that is not empty has an earliest one.
LEMMA Minimum ==
  \A S \in SUBSET Nat :
    S # {} => Earliest(S) \in S /\ \A m \in S : Earliest(S) <= m
<1> SUFFICES ASSUME NEW S \in SUBSET Nat, S # {}
             PROVE  Earliest(S) \in S /\ \A m \in S : Earliest(S) <= m
  OBVIOUS
<1> DEFINE R == {ss \in Nat \X Nat : ss[1] < ss[2]}
<1>1. IsWellFoundedOn(R, Nat)
  BY NatLessThanWellFounded DEF OpToRel
<1>2. PICK n \in S : \A m \in S : <<m, n>> \notin R
  <2> HIDE DEF R
  <2> QED  BY <1>1, WFMin
<1>3. \A m \in S : n <= m
  <2> TAKE m \in S
  <2>1. m \in Nat /\ n \in Nat
    OBVIOUS
  <2>2. ~(m < n)
    BY <1>2, <2>1
  <2> QED  BY <2>1, <2>2
<1> QED  BY <1>3 DEF Earliest

\* The fields of a record.
LEMMA RecordFields ==
  \A rec \in ActorRecord :
    /\ rec.generation \in Generation /\ rec.version \in 0 .. MaxVersions
    /\ rec.log \in Seq(EventType) /\ Len(rec.log) \in Nat
    /\ Evicted(rec) \in Nat /\ Evicted(rec) <= Len(rec.log)
    /\ rec.log # <<>> => Evicted(rec) < Len(rec.log)
BY SizeAssumption DEF SizeAssumption, ActorRecord, Evicted

\* What an event adds to a log.
LEMMA Appended ==
  ASSUME NEW log \in Seq(EventType), NEW type \in EventType
  PROVE  LET longer == Append(log, type)
         IN  /\ longer \in Seq(EventType) /\ Len(longer) = Len(log) + 1 /\ Len(log) \in Nat
             /\ \A n \in 1 .. Len(log) : longer[n] = log[n]
OBVIOUS

\* Candidates are numbers of events after the baseline.
LEMMA CandidatesTyped ==
  ASSUME NEW rec \in ActorRecord, NEW from, NEW type
  PROVE  /\ Candidates(rec, from, type) \in SUBSET Nat
         /\ \A n \in Candidates(rec, from, type) :
              n \in 1 .. Len(rec.log) /\ n > from /\ rec.log[n] = type
BY RecordFields DEF Candidates, Retained

\* The cursor of a result counts no further than its record.
LEMMA CursorTyped ==
  ASSUME NEW rec \in ActorRecord, Len(rec.log) <= MaxEvents,
         NEW q, NEW from, NEW verdict,
         verdict = "matched" /\ q.kind = "event" => Candidates(rec, from, q.want) # {}
  PROVE  LET c == ResultCursor(rec, q, from, verdict)
         IN  /\ c \in Cursor /\ c.generation = rec.generation
             /\ c.snapshot = rec.version /\ c.event <= Len(rec.log)
<1> DEFINE S == Candidates(rec, from, q.want)
<1>1. CASE verdict = "matched" /\ q.kind = "event"
  <2>1. Earliest(S) \in S
    BY <1>1, CandidatesTyped, Minimum
  <2>2. Earliest(S) \in 1 .. Len(rec.log)
    BY <2>1, CandidatesTyped
  <2> HIDE DEF S
  <2>3. Earliest(S) \in 0 .. MaxEvents
    BY <2>2, RecordFields, SizeAssumption DEF SizeAssumption
  <2>4. ResultCursor(rec, q, from, verdict)
          = [generation |-> rec.generation, snapshot |-> rec.version, event |-> Earliest(S)]
    BY <1>1 DEF ResultCursor, S
  <2> QED  BY <2>2, <2>3, <2>4, RecordFields DEF Cursor
<1>2. CASE ~(verdict = "matched" /\ q.kind = "event")
  <2>1. ResultCursor(rec, q, from, verdict)
          = [generation |-> rec.generation, snapshot |-> rec.version,
             event |-> Len(rec.log)]
    BY <1>2 DEF ResultCursor
  <2>2. Len(rec.log) \in 0 .. MaxEvents
    BY RecordFields, SizeAssumption DEF SizeAssumption
  <2> QED  BY <2>1, <2>2, RecordFields DEF Cursor
<1> QED  BY <1>1, <1>2

\* A verdict other than "waiting" is an ending, and an event match has a candidate.
LEMMA VerdictTyped ==
  ASSUME NEW rec, NEW q, NEW from
  PROVE  /\ Verdict(rec, q, from) \in {"waiting", "matched", "history_lost"}
         /\ Verdict(rec, q, from) = "matched" /\ q.kind = "event"
              => Candidates(rec, from, q.want) # {}
BY DEF Verdict

-----------------------------------------------------------------------------
(* Settling *)

LEMMA FinishKeeps ==
  ASSUME TypeOK, SlotsMatch, IsFiniteSet(pending), NEW ends, NEW verdict, NEW rec,
         \A w \in ends \cap pending :
           /\ verdict[w] \in Endings
           /\ ResultCursor(rec[w], request[w], afterEvent[w], verdict[w]) \in Cursor,
         Finish(ends, verdict, rec)
  PROVE  /\ pending' = pending \ ends
         /\ timers' = pending' /\ listeners' = pending'
         /\ outcome' \in [Wait -> Outcomes]
         /\ cursor' \in [Wait -> Cursor \cup {NoCursor}]
         /\ \A w \in Wait : outcome'[w] = "waiting" <=> w \in pending'
         /\ IsFiniteSet(pending') /\ Cardinality(pending') <= MaxWaiters
<1>1. /\ pending' = pending \ ends
      /\ timers' = pending' /\ listeners' = pending'
  BY DEF Finish, SlotsMatch
<1>2. IsFiniteSet(pending') /\ Cardinality(pending') <= MaxWaiters
  <2>1. IsFiniteSet(pending') /\ Cardinality(pending') <= Cardinality(pending)
    BY <1>1, FS_Subset
  <2>2. Cardinality(pending) \in Nat /\ Cardinality(pending') \in Nat
    BY <2>1, FS_CardinalityType
  <2> QED  BY <2>1, <2>2, SizeAssumption DEF SizeAssumption, SlotsMatch
<1>3. outcome' \in [Wait -> Outcomes]
  BY DEF Finish, TypeOK, Outcomes
<1>4. cursor' \in [Wait -> Cursor \cup {NoCursor}]
  BY DEF Finish, TypeOK
<1>5. \A w \in Wait : outcome'[w] = "waiting" <=> w \in pending'
  BY DEF Finish, SlotsMatch, Endings, Removals
<1> QED  BY <1>1, <1>2, <1>3, <1>4, <1>5

\* The record a pending wait captured is a record of the store.
LEMMA CapturedTyped ==
  ASSUME WaitsInv, NEW w \in pending
  PROVE  /\ w \in Wait /\ request[w].sid \in SessionId
         /\ Captured[w] = actors[request[w].sid]
         /\ Captured[w] \in ActorRecord /\ Len(Captured[w].log) <= MaxEvents
<1>1. w \in Wait /\ request[w].sid \in SessionId
  BY DEF WaitsInv, PendingWaits, TypeOK, Request
<1>2. Captured[w] = actors[request[w].sid]
  BY <1>1 DEF Captured
<1> QED  BY <1>1, <1>2
         DEF WaitsInv, PendingWaits, TypeOK, WaitsOnStoredRecord, LogsBounded

LEMMA EndAllKeeps ==
  ASSUME WaitsInv, NEW S, NEW why \in Endings \ {"matched"}, EndAll(S, why)
  PROVE  /\ pending' = pending \ S
         /\ timers' = pending' /\ listeners' = pending'
         /\ outcome' \in [Wait -> Outcomes]
         /\ cursor' \in [Wait -> Cursor \cup {NoCursor}]
         /\ \A w \in Wait : outcome'[w] = "waiting" <=> w \in pending'
         /\ IsFiniteSet(pending') /\ Cardinality(pending') <= MaxWaiters
<1> DEFINE verdict == [w \in Wait |-> why]
<1>1. \A w \in S \cap pending :
        /\ verdict[w] \in Endings
        /\ ResultCursor(Captured[w], request[w], afterEvent[w], verdict[w]) \in Cursor
  BY CapturedTyped, CursorTyped
<1>2. Finish(S, verdict, Captured)
  BY DEF EndAll
<1> HIDE DEF verdict
<1> QED  BY <1>1, <1>2, FinishKeeps DEF WaitsInv, PendingWaits

\* A wait that a change leaves pending has just been looked at and not matched.
LEMMA CheckAllKeeps ==
  ASSUME WaitsInv, NEW sid \in SessionId,
         NEW rec \in ActorRecord, Len(rec.log) <= MaxEvents, CheckAll(sid, rec)
  PROVE  /\ timers' = pending' /\ listeners' = pending' /\ pending' \subseteq pending
         /\ outcome' \in [Wait -> Outcomes]
         /\ cursor' \in [Wait -> Cursor \cup {NoCursor}]
         /\ afterEvent' \in [Wait -> 0 .. MaxEvents]
         /\ \A w \in Wait : outcome'[w] = "waiting" <=> w \in pending'
         /\ IsFiniteSet(pending') /\ Cardinality(pending') <= MaxWaiters
         /\ \A w \in pending' :
              IF request[w].sid = sid
                THEN /\ Verdict(rec, request[w], afterEvent[w]) = "waiting"
                     /\ request[w].kind = "event" => afterEvent'[w] = Len(rec.log)
                ELSE afterEvent'[w] = afterEvent[w]
<1> DEFINE told == {w \in pending : request[w].sid = sid}
           verdict == [w \in Wait |->
             IF w \notin told THEN "waiting"
             ELSE IF w \in overdue THEN "timeout"
             ELSE Verdict(rec, request[w], afterEvent[w])]
           ends == {w \in told : verdict[w] # "waiting"}
<1>1. /\ Finish(ends, verdict, [w \in Wait |-> rec])
      /\ afterEvent' = [w \in Wait |->
           IF w \in told /\ w \notin overdue /\ request[w].kind = "event"
             THEN Len(rec.log) ELSE afterEvent[w]]
  BY DEF CheckAll
<1>2. told \subseteq pending /\ pending \subseteq Wait
  BY DEF WaitsInv, PendingWaits, TypeOK
<1>3. \A w \in ends \cap pending :
        /\ verdict[w] \in Endings
        /\ ResultCursor([v \in Wait |-> rec][w], request[w], afterEvent[w], verdict[w])
             \in Cursor
  <2> TAKE w \in ends \cap pending
  <2>1. w \in Wait /\ w \in told /\ verdict[w] # "waiting"
    BY <1>2
  <2>2. CASE w \in overdue
    <3>1. verdict[w] = "timeout"
      BY <2>1, <2>2
    <3> HIDE DEF verdict
    <3> QED  BY <2>1, <3>1, CursorTyped DEF Endings
  <2>3. CASE w \notin overdue
    <3>1. verdict[w] = Verdict(rec, request[w], afterEvent[w])
      BY <2>1, <2>3
    <3> HIDE DEF verdict
    <3> QED  BY <2>1, <3>1, VerdictTyped, CursorTyped DEF Endings
  <2> QED  BY <2>2, <2>3
<1>4. Len(rec.log) \in 0 .. MaxEvents
  BY RecordFields, SizeAssumption DEF SizeAssumption
<1>5. afterEvent' \in [Wait -> 0 .. MaxEvents]
  BY <1>1, <1>4 DEF WaitsInv, PendingWaits, TypeOK
<1>6. /\ pending' = pending \ ends
      /\ timers' = pending' /\ listeners' = pending'
      /\ outcome' \in [Wait -> Outcomes]
      /\ cursor' \in [Wait -> Cursor \cup {NoCursor}]
      /\ \A w \in Wait : outcome'[w] = "waiting" <=> w \in pending'
      /\ IsFiniteSet(pending') /\ Cardinality(pending') <= MaxWaiters
  <2> HIDE DEF ends, verdict, told
  <2> QED  BY <1>1, <1>3, FinishKeeps DEF WaitsInv, PendingWaits
<1>7. ASSUME NEW w \in pending'
      PROVE  IF request[w].sid = sid
               THEN /\ Verdict(rec, request[w], afterEvent[w]) = "waiting"
                    /\ request[w].kind = "event" => afterEvent'[w] = Len(rec.log)
               ELSE afterEvent'[w] = afterEvent[w]
  <2>1. w \in pending /\ w \in Wait /\ w \notin ends
    BY <1>2, <1>6
  <2>2. CASE request[w].sid = sid
    <3>1. w \in told /\ verdict[w] = "waiting"
      BY <2>1, <2>2
    <3>2. w \notin overdue
      BY <2>1, <3>1
    <3>3. Verdict(rec, request[w], afterEvent[w]) = "waiting"
      BY <2>1, <3>1, <3>2
    <3>4. request[w].kind = "event" => afterEvent'[w] = Len(rec.log)
      BY <1>1, <2>1, <3>1, <3>2
    <3> QED  BY <2>2, <3>3, <3>4
  <2>3. CASE request[w].sid # sid
    BY <1>1, <2>1, <2>3
  <2> QED  BY <2>2, <2>3
<1> QED  BY <1>5, <1>6, <1>7

-----------------------------------------------------------------------------
(* Every step preserves the invariant *)

LEMMA WaitsInit == Init => WaitsInv
<1> SUFFICES ASSUME Init PROVE WaitsInv
  OBVIOUS
<1>1. IsFiniteSet(pending) /\ Cardinality(pending) = 0
  BY FS_EmptySet DEF Init
<1>2. TypeOK
  <2>1. generations \in 0 .. MaxGenerations /\ 0 \in 0 .. MaxEvents
    BY SizeAssumption DEF SizeAssumption, Init
  <2>2. "idle" \in Outcomes
    BY DEF Outcomes
  <2> QED  BY <2>1, <2>2 DEF Init, TypeOK
<1> QED  BY <1>1, <1>2, SizeAssumption
         DEF SizeAssumption, Init, WaitsInv, PendingWaits, SlotsMatch, WaitsOnStoredRecord,
             NoMissedMatch, LogsBounded, BaselinesCurrent

\* Waits that no step touches stay as they are while their record does.
LEMMA UntouchedKeep ==
  ASSUME WaitsInv, pending' \subseteq pending, UNCHANGED request,
         \A w \in pending' : /\ actors'[request[w].sid] = actors[request[w].sid]
                             /\ afterEvent'[w] = afterEvent[w]
  PROVE  /\ WaitsOnStoredRecord' /\ NoMissedMatch' /\ BaselinesCurrent'
         /\ \A w \in pending' : request'[w] \in Request'
BY DEF WaitsInv, PendingWaits, WaitsOnStoredRecord, NoMissedMatch, BaselinesCurrent,
       Request, Generation

LEMMA RegisterActorKeeps ==
  ASSUME WaitsInv, NEW sid \in SessionId, NEW snap \in Snapshot \cup {NoSnapshot},
         RegisterActor(sid, snap)
  PROVE  WaitsInv'
<1> DEFINE fresh == [generation |-> generations + 1,
                     version    |-> IF snap = NoSnapshot THEN 0 ELSE 1,
                     snapshot   |-> snap,
                     log        |-> <<>>]
           replaced == {w \in pending : Subscribed /\ request[w].sid = sid}
<1>1. fresh \in ActorRecord /\ Len(fresh.log) = 0
  BY SizeAssumption
     DEF SizeAssumption, RegisterActor, WaitsInv, PendingWaits, TypeOK, ActorRecord, Generation
<1>2. /\ actors' = [actors EXCEPT ![sid] = fresh]
      /\ EndAll(replaced, "actor_replaced")
      /\ generations' \in 0 .. MaxGenerations
      /\ UNCHANGED <<request, afterEvent, overdue, closed>>
  BY SizeAssumption DEF SizeAssumption, RegisterActor, WaitsInv, PendingWaits, TypeOK
<1> HIDE DEF fresh, replaced
<1>3. /\ pending' = pending \ replaced
      /\ timers' = pending' /\ listeners' = pending'
      /\ outcome' \in [Wait -> Outcomes]
      /\ cursor' \in [Wait -> Cursor \cup {NoCursor}]
      /\ \A w \in Wait : outcome'[w] = "waiting" <=> w \in pending'
      /\ IsFiniteSet(pending') /\ Cardinality(pending') <= MaxWaiters
  BY <1>2, EndAllKeeps DEF Endings
<1>4. TypeOK'
  BY <1>1, <1>2, <1>3 DEF WaitsInv, PendingWaits, TypeOK
<1>5. SlotsMatch'
  BY <1>2, <1>3 DEF WaitsInv, PendingWaits, SlotsMatch
<1>6. LogsBounded'
  BY <1>1, <1>2, SizeAssumption
     DEF SizeAssumption, WaitsInv, PendingWaits, TypeOK, LogsBounded
<1>7. \A w \in pending' : request[w].sid # sid
  BY <1>2, <1>3 DEF replaced, Subscribed, WaitsInv, PendingWaits, SlotsMatch
<1>8. /\ WaitsOnStoredRecord' /\ NoMissedMatch' /\ BaselinesCurrent'
      /\ \A w \in pending' : request'[w] \in Request'
  BY <1>2, <1>3, <1>7, UntouchedKeep
     DEF WaitsInv, PendingWaits, TypeOK, Request
<1> QED  BY <1>3, <1>4, <1>5, <1>6, <1>8 DEF WaitsInv, PendingWaits


\* The newest event is always there to be looked at.
LEMMA NewestRetained ==
  ASSUME NEW rec, Len(rec.log) \in Nat \ {0}
  PROVE  Len(rec.log) \in Retained(rec)
<1>1. Evicted(rec) \in Nat /\ Evicted(rec) < Len(rec.log)
  BY SizeAssumption DEF SizeAssumption, Evicted
<1> QED  BY <1>1 DEF Retained

\* A step after which the waits look at a change of their record: a snapshot or
\* one more event.
LEMMA ChangeKeeps ==
  ASSUME WaitsInv, NEW sid \in SessionId, actors[sid] # NoActor,
         NEW rec \in ActorRecord, Len(rec.log) <= MaxEvents,
         rec.generation = actors[sid].generation,
         \/ rec.log = actors[sid].log
         \/ /\ rec.version = actors[sid].version /\ rec.snapshot = actors[sid].snapshot
            /\ \E type \in EventType : rec.log = Append(actors[sid].log, type),
         actors' = [actors EXCEPT ![sid] = rec], Emit(sid, rec),
         UNCHANGED <<generations, request, overdue, closed>>
  PROVE  WaitsInv'
<1>1. CASE closed
  <2>1. /\ pending = {} /\ UNCHANGED <<afterEvent, pending, timers, listeners, outcome, cursor>>
    BY <1>1 DEF Emit, Subscribed, WaitsInv, PendingWaits, SlotsMatch
  <2> QED  BY <2>1 DEF WaitsInv, PendingWaits, TypeOK, SlotsMatch, WaitsOnStoredRecord,
                       NoMissedMatch, LogsBounded, BaselinesCurrent
<1>2. CASE ~closed
  <2>1. CheckAll(sid, rec)
    BY <1>2 DEF Emit, Subscribed
  <2>2. /\ timers' = pending' /\ listeners' = pending' /\ pending' \subseteq pending
        /\ outcome' \in [Wait -> Outcomes]
        /\ cursor' \in [Wait -> Cursor \cup {NoCursor}]
        /\ afterEvent' \in [Wait -> 0 .. MaxEvents]
        /\ \A w \in Wait : outcome'[w] = "waiting" <=> w \in pending'
        /\ IsFiniteSet(pending') /\ Cardinality(pending') <= MaxWaiters
    BY <2>1, CheckAllKeeps
  <2>3. TypeOK'
    BY <2>2 DEF WaitsInv, PendingWaits, TypeOK
  <2>4. SlotsMatch'
    BY <1>2, <2>2 DEF SlotsMatch
  <2>5. LogsBounded'
    BY DEF WaitsInv, PendingWaits, TypeOK, LogsBounded
  <2>6. ASSUME NEW w \in pending'
        PROVE  LET q == request[w]
                   new == actors'[q.sid]
               IN  /\ q \in Request
                   /\ new # NoActor /\ new.generation = q.record
                   /\ q.kind = "event" => /\ afterEvent'[w] = Len(new.log)
                                          /\ q.from <= Len(new.log)
                   /\ IF q.kind = "event"
                        THEN \A n \in q.from + 1 .. Len(new.log) : new.log[n] # q.want
                        ELSE ~(/\ new.snapshot # NoSnapshot /\ new.snapshot \in q.want
                               /\ new.version > q.newer)
    <3> DEFINE q == request[w]
               old == actors[q.sid]
    <3>1. /\ w \in pending /\ q \in Request /\ q.sid \in SessionId
          /\ old # NoActor /\ old \in ActorRecord /\ old.generation = q.record
          /\ q.kind = "event" => afterEvent[w] = Len(old.log) /\ q.from <= Len(old.log)
          /\ IF q.kind = "event"
               THEN \A n \in q.from + 1 .. Len(old.log) : old.log[n] # q.want
               ELSE ~(/\ old.snapshot # NoSnapshot /\ old.snapshot \in q.want
                      /\ old.version > q.newer)
          /\ q.from \in Nat
      BY <2>2 DEF WaitsInv, PendingWaits, TypeOK, WaitsOnStoredRecord, NoMissedMatch,
                  BaselinesCurrent, Request
    <3>2. CASE q.sid # sid
      <4>1. actors'[q.sid] = old /\ afterEvent'[w] = afterEvent[w]
        BY <2>1, <3>2, CheckAllKeeps DEF WaitsInv, PendingWaits, TypeOK
      <4> QED  BY <3>1, <4>1
    <3>3. CASE q.sid = sid
      <4>1. /\ actors'[q.sid] = rec /\ rec # NoActor
            /\ Verdict(rec, q, afterEvent[w]) = "waiting"
            /\ q.kind = "event" => afterEvent'[w] = Len(rec.log)
        BY <2>1, <3>1, <3>3, CheckAllKeeps, SentinelAssumption
           DEF SentinelAssumption, WaitsInv, PendingWaits, TypeOK
      <4>2. CASE q.kind # "event"
        BY <3>1, <3>3, <4>1, <4>2 DEF Verdict
      <4>3. CASE q.kind = "event"
        <5>1. CASE rec.log = old.log
          BY <3>1, <3>3, <4>1, <4>3, <5>1
        <5>2. ASSUME NEW type \in EventType, rec.log = Append(old.log, type)
              PROVE  /\ \A n \in q.from + 1 .. Len(rec.log) : rec.log[n] # q.want
                     /\ q.from <= Len(rec.log)
          <6>1. /\ Len(rec.log) = Len(old.log) + 1
                /\ \A n \in 1 .. Len(old.log) : rec.log[n] = old.log[n]
                /\ Len(old.log) \in Nat
            <7>1. old.log \in Seq(EventType)
              BY <3>1 DEF ActorRecord
            <7> HIDE DEF old
            <7> QED  BY <5>2, <7>1, Appended
          <6>2. Candidates(rec, Len(old.log), q.want) = {}
            BY <3>1, <4>1, <4>3 DEF Verdict
          <6>3. Len(rec.log) \in Retained(rec)
            <7>1. Len(rec.log) \in Nat \ {0}
              BY <6>1
            <7> QED  BY <7>1, NewestRetained
          <6>4. rec.log[Len(rec.log)] # q.want
            BY <6>1, <6>2, <6>3 DEF Candidates
          <6>5. \A n \in q.from + 1 .. Len(rec.log) : rec.log[n] # q.want
            <7> HIDE DEF q, old
            <7> TAKE n \in q.from + 1 .. Len(rec.log)
            <7>1. CASE n = Len(rec.log)
              BY <6>4, <7>1
            <7>2. CASE n # Len(rec.log)
              <8>1. n \in 1 .. Len(old.log) /\ n \in q.from + 1 .. Len(old.log)
                BY <3>1, <6>1, <7>2
              <8> QED  BY <3>1, <4>3, <6>1, <8>1
            <7> QED  BY <7>1, <7>2
          <6>6. q.from <= Len(rec.log)
            <7> HIDE DEF q, old
            <7> QED  BY <3>1, <4>3, <6>1
          <6> QED  BY <6>5, <6>6
        <5> QED  BY <3>1, <3>3, <4>1, <4>3, <5>1, <5>2
      <4> QED  BY <4>2, <4>3
    <3> QED  BY <3>2, <3>3
  <2>7. WaitsOnStoredRecord' /\ BaselinesCurrent' /\ NoMissedMatch'
    BY <2>6 DEF WaitsOnStoredRecord, BaselinesCurrent, NoMissedMatch
  <2>8. \A w \in pending' : request'[w] \in Request'
    BY <2>6 DEF Request, Generation
  <2> QED  BY <2>2, <2>3, <2>4, <2>5, <2>7, <2>8 DEF WaitsInv, PendingWaits
<1> QED  BY <1>1, <1>2


\* The record after an update, and after an event.
LEMMA UpdatedRecord ==
  ASSUME WaitsInv, NEW sid \in SessionId, NEW snap \in Snapshot \cup {NoSnapshot},
         UpdateSnapshot(sid, snap)
  PROVE  LET old == actors[sid]
             rec == IF snap = NoSnapshot THEN old
                    ELSE [old EXCEPT !.version = @ + 1, !.snapshot = snap]
         IN  /\ old # NoActor /\ rec \in ActorRecord /\ Len(rec.log) <= MaxEvents
             /\ rec.log = old.log /\ rec.generation = old.generation
<1> DEFINE old == actors[sid]
           rec == IF snap = NoSnapshot THEN old
                  ELSE [old EXCEPT !.version = @ + 1, !.snapshot = snap]
<1>1. /\ old \in ActorRecord /\ Len(old.log) <= MaxEvents /\ old # NoActor
      /\ snap # NoSnapshot => old.version < MaxVersions
  BY DEF UpdateSnapshot, WaitsInv, PendingWaits, TypeOK, LogsBounded
<1>2. rec \in ActorRecord /\ rec.log = old.log /\ rec.generation = old.generation
  <2>1. CASE snap = NoSnapshot
    BY <1>1, <2>1
  <2>2. CASE snap # NoSnapshot
    <3>1. old.version + 1 \in 0 .. MaxVersions
      BY <1>1, <2>2, SizeAssumption DEF SizeAssumption, ActorRecord
    <3> QED  BY <1>1, <2>2, <3>1 DEF ActorRecord
  <2> QED  BY <2>1, <2>2
<1> QED  BY <1>1, <1>2

LEMMA LongerRecord ==
  ASSUME WaitsInv, NEW sid \in SessionId, NEW type \in EventType, AddEvent(sid, type)
  PROVE  LET old == actors[sid]
             rec == [old EXCEPT !.log = Append(@, type)]
         IN  /\ old # NoActor /\ rec \in ActorRecord /\ Len(rec.log) <= MaxEvents
             /\ rec.log = Append(old.log, type)
             /\ rec.generation = old.generation
             /\ rec.version = old.version /\ rec.snapshot = old.snapshot
<1> DEFINE old == actors[sid]
           rec == [old EXCEPT !.log = Append(@, type)]
<1>1. old \in ActorRecord /\ Len(old.log) < MaxEvents /\ old # NoActor
  BY DEF AddEvent, WaitsInv, PendingWaits, TypeOK
<1>2. old.log \in Seq(EventType)
  BY <1>1 DEF ActorRecord
<1>3. /\ Append(old.log, type) \in Seq(EventType)
      /\ Len(Append(old.log, type)) <= MaxEvents
  BY <1>1, <1>2, Appended, SizeAssumption DEF SizeAssumption
<1>4. /\ rec \in ActorRecord /\ rec.log = Append(old.log, type)
      /\ rec.generation = old.generation
      /\ rec.version = old.version /\ rec.snapshot = old.snapshot
  BY <1>1, <1>3 DEF ActorRecord
<1> QED  BY <1>1, <1>3, <1>4

LEMMA UpdateSnapshotKeeps ==
  ASSUME WaitsInv, NEW sid \in SessionId, NEW snap \in Snapshot \cup {NoSnapshot},
         UpdateSnapshot(sid, snap)
  PROVE  WaitsInv'
<1> DEFINE rec == IF snap = NoSnapshot THEN actors[sid]
                  ELSE [actors[sid] EXCEPT !.version = @ + 1, !.snapshot = snap]
<1>1. /\ actors[sid] # NoActor /\ rec \in ActorRecord /\ Len(rec.log) <= MaxEvents
      /\ rec.log = actors[sid].log /\ rec.generation = actors[sid].generation
  BY UpdatedRecord
<1>2. /\ actors' = [actors EXCEPT ![sid] = rec] /\ Emit(sid, rec)
      /\ UNCHANGED <<generations, request, overdue, closed>>
  BY DEF UpdateSnapshot
<1> HIDE DEF rec
<1> QED  BY <1>1, <1>2, ChangeKeeps

LEMMA AddEventKeeps ==
  ASSUME WaitsInv, NEW sid \in SessionId, NEW type \in EventType, AddEvent(sid, type)
  PROVE  WaitsInv'
<1> DEFINE rec == [actors[sid] EXCEPT !.log = Append(@, type)]
<1>1. /\ actors[sid] # NoActor /\ rec \in ActorRecord /\ Len(rec.log) <= MaxEvents
      /\ rec.log = Append(actors[sid].log, type)
      /\ rec.generation = actors[sid].generation
      /\ rec.version = actors[sid].version /\ rec.snapshot = actors[sid].snapshot
  BY LongerRecord
<1>2. /\ actors' = [actors EXCEPT ![sid] = rec] /\ Emit(sid, rec)
      /\ UNCHANGED <<generations, request, overdue, closed>>
  BY DEF AddEvent
<1> HIDE DEF rec
<1> QED  BY <1>1, <1>2, ChangeKeeps

\* An ending that leaves no wait behind on an actor it took away.
LEMMA EndingKeeps ==
  ASSUME WaitsInv, NEW S, NEW why \in Endings \ {"matched"}, EndAll(S, why),
         TypeOK', UNCHANGED <<request, afterEvent>>,
         \A sid \in SessionId :
           actors'[sid] = NoActor \/ actors'[sid] = actors[sid],
         \A w \in pending \ S : actors'[request[w].sid] = actors[request[w].sid],
         closed' => closed \/ pending \subseteq S
  PROVE  WaitsInv'
<1>1. /\ pending' = pending \ S
      /\ timers' = pending' /\ listeners' = pending'
      /\ \A w \in Wait : outcome'[w] = "waiting" <=> w \in pending'
      /\ IsFiniteSet(pending') /\ Cardinality(pending') <= MaxWaiters
  BY EndAllKeeps
<1>2. SlotsMatch'
  BY <1>1 DEF WaitsInv, PendingWaits, SlotsMatch
<1>3. LogsBounded'
  <2>1. \A sid \in SessionId : actors'[sid] # NoActor => Len(actors'[sid].log) <= MaxEvents
    BY DEF WaitsInv, LogsBounded
  <2> QED  BY <2>1 DEF LogsBounded
<1>4. /\ WaitsOnStoredRecord' /\ NoMissedMatch' /\ BaselinesCurrent'
      /\ \A w \in pending' : request'[w] \in Request'
  <2>1. \A w \in pending' : afterEvent'[w] = afterEvent[w]
    OBVIOUS
  <2> QED  BY <1>1, <2>1, UntouchedKeep
<1> QED  BY <1>1, <1>2, <1>3, <1>4 DEF WaitsInv, PendingWaits

LEMMA RemoveActorKeeps ==
  ASSUME WaitsInv, NEW sid \in SessionId, NEW reason \in Removals, RemoveActor(sid, reason)
  PROVE  WaitsInv'
<1> DEFINE S == {w \in pending : Subscribed /\ request[w].sid = sid}
<1>1. /\ EndAll(S, reason) /\ reason \in Endings \ {"matched"}
      /\ actors' = [actors EXCEPT ![sid] = NoActor]
      /\ UNCHANGED <<generations, request, afterEvent, overdue, closed>>
  BY DEF RemoveActor, Removals, Endings
<1>2. TypeOK'
  BY <1>1, EndAllKeeps DEF WaitsInv, PendingWaits, TypeOK
<1>3. \A w \in pending \ S : request[w].sid # sid
  BY DEF Subscribed, WaitsInv, PendingWaits, SlotsMatch
<1> HIDE DEF S
<1> QED  BY <1>1, <1>2, <1>3, EndingKeeps
         DEF WaitsInv, PendingWaits, TypeOK, Request

LEMMA ClearStoreKeeps == WaitsInv /\ ClearStore => WaitsInv'
<1> SUFFICES ASSUME WaitsInv, ClearStore PROVE WaitsInv'
  OBVIOUS
<1> DEFINE S == {w \in pending : Subscribed}
<1>1. /\ EndAll(S, "cleared") /\ "cleared" \in Endings \ {"matched"}
      /\ actors' = [sid \in SessionId |-> NoActor]
      /\ UNCHANGED <<generations, request, afterEvent, overdue, closed>>
  BY DEF ClearStore, Endings
<1>2. TypeOK'
  BY <1>1, EndAllKeeps DEF WaitsInv, PendingWaits, TypeOK
<1>3. pending \ S = {}
  BY DEF Subscribed, WaitsInv, PendingWaits, SlotsMatch
<1> HIDE DEF S
<1> QED  BY <1>1, <1>2, <1>3, EndingKeeps

LEMMA EndsKeep ==
  ASSUME WaitsInv, \/ Dispose \/ \E w \in Wait : TimerFires(w) \/ Abort(w)
  PROVE  WaitsInv'
<1>1. CASE Dispose
  <2>1. /\ EndAll(Wait, "shutdown") /\ "shutdown" \in Endings \ {"matched"}
        /\ UNCHANGED <<storeVars, request, afterEvent, overdue>> /\ closed' = TRUE
    BY <1>1 DEF Dispose, Endings
  <2>2. TypeOK' /\ pending \subseteq Wait
    BY <2>1, EndAllKeeps DEF storeVars, WaitsInv, PendingWaits, TypeOK
  <2> QED  BY <2>1, <2>2, EndingKeeps DEF storeVars
<1>2. ASSUME NEW w \in Wait, TimerFires(w) \/ Abort(w)
      PROVE  WaitsInv'
  <2>1. PICK why \in {"timeout", "cancelled"} : EndAll({w}, why)
    BY <1>2 DEF TimerFires, Abort
  <2>2. /\ why \in Endings \ {"matched"}
        /\ UNCHANGED <<storeVars, request, afterEvent, overdue, closed>>
    BY <1>2 DEF TimerFires, Abort, Endings
  <2>3. TypeOK'
    BY <2>1, <2>2, EndAllKeeps DEF storeVars, WaitsInv, PendingWaits, TypeOK
  <2> QED  BY <2>1, <2>2, <2>3, EndingKeeps DEF storeVars
<1> QED  BY <1>1, <1>2

\* A call that is answered at once, or never: the pending waits stay as they are.
LEMMA AnswerKeeps ==
  ASSUME WaitsInv, NEW w \in Wait, outcome[w] = "idle",
         NEW why \in Outcomes \ {"waiting"}, NEW result \in Cursor \cup {NoCursor},
         Resolve(w, why, result),
         request' \in [Wait -> Request \cup {NoRequest}],
         afterEvent' \in [Wait -> 0 .. MaxEvents],
         \A v \in Wait \ {w} : request'[v] = request[v] /\ afterEvent'[v] = afterEvent[v]
  PROVE  WaitsInv'
<1>1. /\ outcome' = [outcome EXCEPT ![w] = why]
      /\ cursor' = [cursor EXCEPT ![w] = result]
      /\ UNCHANGED <<actors, generations, pending, timers, listeners, overdue, closed>>
  BY DEF Resolve, storeVars
<1>2. TypeOK'
  BY <1>1 DEF WaitsInv, PendingWaits, TypeOK
<1>3. w \notin pending /\ pending \subseteq Wait
  BY DEF WaitsInv, PendingWaits, TypeOK, SlotsMatch
<1>4. SlotsMatch'
  BY <1>1, <1>3 DEF WaitsInv, PendingWaits, TypeOK, SlotsMatch
<1>5. \A v \in pending : request'[v] = request[v] /\ afterEvent'[v] = afterEvent[v]
  BY <1>3
<1>6. WaitsOnStoredRecord' /\ BaselinesCurrent' /\ NoMissedMatch' /\ LogsBounded'
  BY <1>1, <1>5 DEF WaitsInv, PendingWaits, WaitsOnStoredRecord, BaselinesCurrent,
                    NoMissedMatch, LogsBounded
<1>7. IsFiniteSet(pending') /\ \A v \in pending' : request'[v] \in Request'
  BY <1>1, <1>5 DEF WaitsInv, Request, Generation
<1> QED  BY <1>2, <1>4, <1>6, <1>7 DEF WaitsInv, PendingWaits

LEMMA RefuseCallKeeps ==
  ASSUME WaitsInv, NEW w \in Wait, NEW sid \in SessionId,
         NEW valid \in BOOLEAN, NEW aborted \in BOOLEAN, RefuseCall(w, sid, valid, aborted)
  PROVE  WaitsInv'
<1> DEFINE rec == actors[sid]
           now == [generation |-> rec.generation, snapshot |-> rec.version,
                   event |-> Len(rec.log)]
           why == IF ~valid THEN "invalid_input"
                  ELSE IF closed THEN "shutdown"
                  ELSE IF aborted THEN "cancelled"
                  ELSE "actor_not_found"
           result == IF valid /\ rec # NoActor THEN now ELSE NoCursor
<1>1. result \in Cursor \cup {NoCursor}
  <2>1. CASE valid /\ rec # NoActor
    <3>1. rec \in ActorRecord /\ Len(rec.log) \in 0 .. MaxEvents
      BY <2>1, RecordFields, SizeAssumption
         DEF SizeAssumption, WaitsInv, PendingWaits, TypeOK, LogsBounded
    <3> QED  BY <2>1, <3>1, RecordFields DEF Cursor
  <2> QED  BY <2>1
<1>2. why \in Outcomes \ {"waiting"}
  BY DEF Outcomes, Endings, Refusals
<1>3. /\ outcome[w] = "idle" /\ Resolve(w, why, result)
      /\ UNCHANGED <<request, afterEvent>>
  BY DEF RefuseCall, Unasked
<1> HIDE DEF result, why
<1> QED  BY <1>1, <1>2, <1>3, AnswerKeeps DEF WaitsInv, PendingWaits, TypeOK

\* What a call of an actor of the store asks for, and its first verdict.
LEMMA CallTyped ==
  ASSUME WaitsInv, NEW sid \in SessionId, actors[sid] # NoActor,
         NEW kind \in {"event", "state"}, NEW want,
         want \in IF kind = "event" THEN EventType ELSE Predicate,
         NEW after \in Cursors
  PROVE  LET rec   == actors[sid]
             from  == IF after = NoCursor THEN Len(rec.log) ELSE after.event
             newer == IF after = NoCursor THEN -1 ELSE after.snapshot
             q == [kind |-> kind, sid |-> sid, record |-> rec.generation,
                   want |-> want, from |-> from, newer |-> newer]
         IN  /\ rec \in ActorRecord /\ Len(rec.log) \in 0 .. MaxEvents
             /\ from \in 0 .. MaxEvents /\ q \in Request
<1> DEFINE rec   == actors[sid]
           from  == IF after = NoCursor THEN Len(rec.log) ELSE after.event
           newer == IF after = NoCursor THEN -1 ELSE after.snapshot
<1>1. rec \in ActorRecord /\ Len(rec.log) \in 0 .. MaxEvents
  BY RecordFields, SizeAssumption
     DEF SizeAssumption, WaitsInv, PendingWaits, TypeOK, LogsBounded
<1>2. from \in 0 .. MaxEvents /\ newer \in -1 .. MaxVersions
  <2>1. CASE after = NoCursor
    BY <1>1, <2>1, SizeAssumption DEF SizeAssumption
  <2>2. CASE after # NoCursor
    BY <2>2, SizeAssumption DEF SizeAssumption, Cursors
  <2> QED  BY <2>1, <2>2
<1>3. rec.generation \in Generation
  BY <1>1, RecordFields
<1> HIDE DEF rec, from, newer
<1>4. [kind |-> kind, sid |-> sid, record |-> rec.generation,
       want |-> want, from |-> from, newer |-> newer] \in Request
  BY <1>2, <1>3 DEF Request
<1> QED  BY <1>1, <1>2, <1>4 DEF rec, from, newer

\* A call that starts to wait has looked at all its record retains, and nothing
\* it did not look at had been evicted.
LEMMA WaitingMissedNothing ==
  ASSUME NEW rec \in ActorRecord, NEW q \in Request, q.from \in Nat,
         Verdict(rec, q, q.from) = "waiting"
  PROVE  IF q.kind = "event"
           THEN \A n \in q.from + 1 .. Len(rec.log) : rec.log[n] # q.want
           ELSE ~(/\ rec.snapshot # NoSnapshot /\ rec.snapshot \in q.want
                  /\ rec.version > q.newer)
<1>1. CASE q.kind = "event"
  <2>1. ~(q.from < Evicted(rec)) /\ Candidates(rec, q.from, q.want) = {}
    BY <1>1 DEF Verdict
  <2>2. \A n \in q.from + 1 .. Len(rec.log) : n \in Retained(rec) /\ n > q.from
    BY <2>1, RecordFields DEF Retained
  <2> QED  BY <1>1, <2>1, <2>2 DEF Candidates
<1>2. CASE q.kind # "event"
  BY <1>2 DEF Verdict
<1> QED  BY <1>1, <1>2

LEMMA CallWaitKeeps ==
  ASSUME WaitsInv, NEW w \in Wait, NEW sid \in SessionId,
         NEW kind \in {"event", "state"}, NEW want,
         want \in IF kind = "event" THEN EventType ELSE Predicate,
         NEW after \in Cursors, NEW zero \in BOOLEAN, NEW late \in BOOLEAN,
         CallWait(w, sid, kind, want, after, zero, late)
  PROVE  WaitsInv'
<1> DEFINE rec   == actors[sid]
           from  == IF after = NoCursor THEN Len(rec.log) ELSE after.event
           newer == IF after = NoCursor THEN -1 ELSE after.snapshot
           q == [kind |-> kind, sid |-> sid, record |-> rec.generation,
                 want |-> want, from |-> from, newer |-> newer]
           verdict ==
             IF BadCursor(rec, after) THEN "invalid_cursor"
             ELSE IF Verdict(rec, q, from) # "waiting" THEN Verdict(rec, q, from)
             ELSE IF zero THEN "timeout"
             ELSE IF Cardinality(pending) >= MaxWaiters THEN "capacity_exceeded"
             ELSE IF late THEN "timeout"
             ELSE "waiting"
           baseline == IF kind = "event" /\ verdict \notin {"invalid_cursor", "history_lost"}
                         THEN Len(rec.log) ELSE from
<1>1. /\ rec # NoActor /\ outcome[w] = "idle" /\ ~closed
      /\ request' = [request EXCEPT ![w] = q]
      /\ afterEvent' = [afterEvent EXCEPT ![w] = baseline]
      /\ IF verdict = "waiting"
           THEN /\ pending' = pending \cup {w}
                /\ timers' = timers \cup {w}
                /\ listeners' = listeners \cup {w}
                /\ outcome' = [outcome EXCEPT ![w] = "waiting"]
                /\ UNCHANGED <<storeVars, overdue, cursor, closed>>
           ELSE Resolve(w, verdict, ResultCursor(rec, q, from, verdict))
  BY DEF CallWait, Answerable, Unasked
<1>2. /\ rec \in ActorRecord /\ Len(rec.log) \in 0 .. MaxEvents
      /\ from \in 0 .. MaxEvents /\ q \in Request
  BY <1>1, CallTyped
<1>3. q.kind = kind /\ q.sid = sid /\ q.record = rec.generation /\ q.from = from
  OBVIOUS
<1>4. /\ verdict \in {"invalid_cursor", "matched", "history_lost", "timeout",
                      "capacity_exceeded", "waiting"}
      /\ verdict = "matched" => Verdict(rec, q, from) = "matched"
      /\ verdict = "waiting" => /\ Verdict(rec, q, from) = "waiting"
                                /\ ~(Cardinality(pending) >= MaxWaiters)
  <2> HIDE DEF q, from, rec
  <2> QED  BY VerdictTyped
<1>5. baseline \in 0 .. MaxEvents
  BY <1>2
<1>6. verdict = "waiting" /\ kind = "event" => baseline = Len(rec.log)
  OBVIOUS
<1>10. verdict = "waiting" => from <= Len(rec.log)
  BY <1>2 DEF BadCursor
<1> HIDE DEF verdict, baseline, q, from, newer, rec
<1>7. /\ request' \in [Wait -> Request \cup {NoRequest}]
      /\ afterEvent' \in [Wait -> 0 .. MaxEvents]
      /\ request'[w] = q /\ afterEvent'[w] = baseline
      /\ \A v \in Wait \ {w} : request'[v] = request[v] /\ afterEvent'[v] = afterEvent[v]
  BY <1>1, <1>2, <1>5 DEF WaitsInv, PendingWaits, TypeOK
<1>8. CASE verdict # "waiting"
  <2>1. ResultCursor(rec, q, from, verdict) \in Cursor
    BY <1>2, <1>4, VerdictTyped, CursorTyped
  <2>2. verdict \in Outcomes \ {"waiting"}
    BY <1>4, <1>8 DEF Outcomes, Endings, Refusals
  <2>3. Resolve(w, verdict, ResultCursor(rec, q, from, verdict))
    BY <1>1, <1>8
  <2> QED  BY <1>1, <1>7, <2>1, <2>2, <2>3, AnswerKeeps
<1>9. CASE verdict = "waiting"
  <2>1. /\ pending' = pending \cup {w}
        /\ timers' = timers \cup {w} /\ listeners' = listeners \cup {w}
        /\ outcome' = [outcome EXCEPT ![w] = "waiting"]
        /\ UNCHANGED <<actors, generations, overdue, cursor, closed>>
    BY <1>1, <1>9 DEF storeVars
  <2>2. w \notin pending /\ pending \subseteq Wait
    BY <1>1 DEF WaitsInv, PendingWaits, TypeOK, SlotsMatch
  <2>3. TypeOK'
    BY <1>7, <2>1 DEF WaitsInv, PendingWaits, TypeOK, Outcomes
  <2>4. IsFiniteSet(pending') /\ Cardinality(pending') <= MaxWaiters
    <3>1. IsFiniteSet(pending') /\ Cardinality(pending') = Cardinality(pending) + 1
      BY <2>1, <2>2, FS_AddElement DEF WaitsInv
    <3>2. Cardinality(pending) \in Nat
      BY FS_CardinalityType DEF WaitsInv
    <3> QED  BY <1>4, <1>9, <3>1, <3>2, SizeAssumption DEF SizeAssumption
  <2>5. SlotsMatch'
    BY <1>1, <2>1, <2>2, <2>4 DEF WaitsInv, PendingWaits, TypeOK, SlotsMatch
  <2>6. /\ LogsBounded'
        /\ \A v \in pending : request'[v] = request[v] /\ afterEvent'[v] = afterEvent[v]
    BY <1>7, <2>1, <2>2 DEF WaitsInv, LogsBounded
  <2>7. IF kind = "event"
          THEN \A n \in from + 1 .. Len(rec.log) : rec.log[n] # q.want
          ELSE ~(/\ rec.snapshot # NoSnapshot /\ rec.snapshot \in q.want
                 /\ rec.version > q.newer)
    <3>1. from \in Nat
      BY <1>2, SizeAssumption DEF SizeAssumption
    <3> QED  BY <1>2, <1>3, <1>4, <1>9, <3>1, WaitingMissedNothing
  <2>8. actors' = actors /\ actors[q.sid] = rec
    BY <1>3, <2>1 DEF rec
  <2>9. WaitsOnStoredRecord'
    BY <1>1, <1>3, <1>7, <2>1, <2>6, <2>8
       DEF WaitsInv, PendingWaits, WaitsOnStoredRecord
  <2>10. BaselinesCurrent'
    BY <1>3, <1>6, <1>7, <1>9, <1>10, <2>1, <2>6, <2>8 DEF WaitsInv, BaselinesCurrent
  <2>11. NoMissedMatch'
    <3>1. ASSUME NEW v \in pending
          PROVE  /\ request'[v] = request[v] /\ actors' = actors
                 /\ IF request[v].kind = "event"
                      THEN \A n \in request[v].from + 1 .. Len(actors[request[v].sid].log) :
                             actors[request[v].sid].log[n] # request[v].want
                      ELSE ~(/\ actors[request[v].sid].snapshot # NoSnapshot
                             /\ actors[request[v].sid].snapshot \in request[v].want
                             /\ actors[request[v].sid].version > request[v].newer)
      BY <2>1, <2>6 DEF WaitsInv, PendingWaits, NoMissedMatch
    <3>2. request'[w] = q /\ q.kind = kind /\ actors'[q.sid] = rec /\ q.from = from
      BY <1>3, <1>7, <2>8
    <3> QED  BY <2>1, <2>7, <3>1, <3>2 DEF NoMissedMatch
  <2>12. \A v \in pending' : request'[v] \in Request'
    BY <1>2, <1>7, <2>1, <2>6 DEF WaitsInv, Request, Generation
  <2> QED  BY <2>3, <2>4, <2>5, <2>6, <2>9, <2>10, <2>11, <2>12 DEF WaitsInv, PendingWaits
<1> QED  BY <1>8, <1>9

LEMMA WaitsNext == WaitsInv /\ [Next]_vars => WaitsInv'
<1> SUFFICES ASSUME WaitsInv, [Next]_vars PROVE WaitsInv'
  OBVIOUS
<1>1. ASSUME NEW sid \in SessionId, StoreStep(sid) PROVE WaitsInv'
  BY <1>1, RegisterActorKeeps, UpdateSnapshotKeeps, AddEventKeeps, RemoveActorKeeps
     DEF StoreStep
<1>2. ASSUME NEW w \in Wait, NEW sid \in SessionId, CallStep(w, sid) PROVE WaitsInv'
  <2>1. ASSUME NEW valid \in BOOLEAN, NEW aborted \in BOOLEAN,
               RefuseCall(w, sid, valid, aborted)
        PROVE  WaitsInv'
    BY <2>1, RefuseCallKeeps
  <2>2. ASSUME NEW after \in Cursors, NEW zero \in BOOLEAN, NEW late \in BOOLEAN,
               NEW type \in EventType, CallWait(w, sid, "event", type, after, zero, late)
        PROVE  WaitsInv'
    BY <2>2, CallWaitKeeps
  <2>3. ASSUME NEW after \in Cursors, NEW zero \in BOOLEAN, NEW late \in BOOLEAN,
               NEW want \in Predicate, CallWait(w, sid, "state", want, after, zero, late)
        PROVE  WaitsInv'
    BY <2>3, CallWaitKeeps
  <2> QED  BY <1>2, <2>1, <2>2, <2>3 DEF CallStep
<1>3. ASSUME NEW w \in Wait, DeadlinePasses(w) PROVE WaitsInv'
  BY <1>3 DEF DeadlinePasses, storeVars, WaitsInv, PendingWaits, TypeOK, SlotsMatch,
              WaitsOnStoredRecord, NoMissedMatch, LogsBounded, BaselinesCurrent
<1>4. CASE UNCHANGED vars
  BY <1>4 DEF vars, storeVars, waitVars, WaitsInv, PendingWaits, TypeOK, SlotsMatch,
              WaitsOnStoredRecord, NoMissedMatch, LogsBounded, BaselinesCurrent
<1> QED  BY <1>1, <1>2, <1>3, <1>4, ClearStoreKeeps, EndsKeep DEF Next, WaitStep

\* A pending wait holds one slot, one timer and one abort listener, watches a
\* record that is still the store's, and has missed nothing of it.
THEOREM PendingWaitsHold == Spec => []PendingWaits
<1>1. WaitsInv => PendingWaits
  BY DEF WaitsInv
<1> QED  BY WaitsInit, WaitsNext, <1>1, PTL DEF Spec, SafeSpec

-----------------------------------------------------------------------------
(* What a step may answer *)

\* The answer and the cursor point at what the record holds after the step.
MatchFound(w) ==
  LET q == request'[w]
      rec == actors'[q.sid]
      n == cursor'[w].event
  IN  IF q.kind = "event"
        THEN /\ n \in q.from + 1 .. Len(rec.log) /\ rec.log[n] = q.want
             /\ \A m \in q.from + 1 .. n - 1 : rec.log[m] # q.want
        ELSE /\ rec.snapshot \in q.want /\ rec.version > q.newer
             /\ cursor'[w].snapshot = rec.version

\* A cursor that counts no further than a record of its registration.
CursorFits(c, rec) ==
  /\ rec # NoActor /\ c.generation = rec.generation
  /\ c.snapshot <= rec.version /\ c.event <= Len(rec.log)

AnswerOf(w) ==
  /\ outcome[w] \notin {"idle", "waiting"} => outcome'[w] = outcome[w]
  /\ w \in pending => outcome'[w] # "history_lost"
  /\ Matches(w) => MatchFound(w)

CursorOf(w) ==
  \/ cursor'[w] \in {cursor[w], NoCursor}
  \/ \E sid \in SessionId : \/ CursorFits(cursor'[w], actors[sid])
                            \/ CursorFits(cursor'[w], actors'[sid])

LEMMA SameAnswers ==
  ASSUME WaitsInv, UNCHANGED <<outcome, cursor>>
  PROVE  \A w \in Wait : AnswerOf(w) /\ CursorOf(w)
BY DEF AnswerOf, CursorOf, Matches, WaitsInv, PendingWaits, SlotsMatch, TypeOK

LEMMA EndAllAnswers ==
  ASSUME WaitsInv, NEW S, NEW why \in Endings \ {"matched", "history_lost"}, EndAll(S, why)
  PROVE  \A w \in Wait : AnswerOf(w) /\ CursorOf(w)
<1> SUFFICES ASSUME NEW w \in Wait PROVE AnswerOf(w) /\ CursorOf(w)
  OBVIOUS
<1> DEFINE done == S \cap pending
<1>1. /\ outcome'[w] = IF w \in done THEN why ELSE outcome[w]
      /\ cursor'[w] = IF w \in done
           THEN ResultCursor(Captured[w], request[w], afterEvent[w], why) ELSE cursor[w]
  BY DEF EndAll, Finish
<1>2. w \in pending <=> outcome[w] = "waiting"
  BY DEF WaitsInv, PendingWaits, SlotsMatch
<1>3. AnswerOf(w)
  BY <1>1, <1>2 DEF AnswerOf, Matches
<1>4. CASE w \in done
  <2>1. /\ request[w].sid \in SessionId /\ Captured[w] = actors[request[w].sid]
        /\ Captured[w] \in ActorRecord /\ Len(Captured[w].log) <= MaxEvents
    BY <1>4, CapturedTyped
  <2>2. CursorFits(cursor'[w], Captured[w])
    <3>1. LET c == ResultCursor(Captured[w], request[w], afterEvent[w], why)
          IN  /\ c \in Cursor /\ c.generation = Captured[w].generation
              /\ c.snapshot = Captured[w].version /\ c.event <= Len(Captured[w].log)
      BY <2>1, CursorTyped
    <3>2. cursor'[w].snapshot <= Captured[w].version
      BY <1>1, <1>4, <2>1, <3>1, RecordFields, SizeAssumption DEF SizeAssumption
    <3> QED  BY <1>1, <1>4, <2>1, <3>1, <3>2, SentinelAssumption
             DEF SentinelAssumption, CursorFits
  <2> QED  BY <1>3, <2>1, <2>2 DEF CursorOf
<1>5. CASE w \notin done
  BY <1>1, <1>3, <1>5 DEF CursorOf
<1> QED  BY <1>4, <1>5

\* A change shows each wait at most one event it has not looked at: the match.
LEMMA ChangeAnswers ==
  ASSUME WaitsInv, NEW sid \in SessionId, actors[sid] # NoActor,
         NEW rec \in ActorRecord, Len(rec.log) <= MaxEvents,
         rec.generation = actors[sid].generation,
         \/ rec.log = actors[sid].log
         \/ /\ rec.version = actors[sid].version /\ rec.snapshot = actors[sid].snapshot
            /\ \E type \in EventType : rec.log = Append(actors[sid].log, type),
         actors' = [actors EXCEPT ![sid] = rec], Emit(sid, rec),
         UNCHANGED <<generations, request, overdue, closed>>
  PROVE  \A w \in Wait : AnswerOf(w) /\ CursorOf(w)
<1>1. CASE closed
  BY <1>1, SameAnswers DEF Emit, Subscribed
<1>2. CASE ~closed
  <2> SUFFICES ASSUME NEW w \in Wait PROVE AnswerOf(w) /\ CursorOf(w)
    OBVIOUS
  <2> DEFINE q == request[w]
             old == actors[sid]
             told == {v \in pending : request[v].sid = sid}
             verdict == [v \in Wait |->
               IF v \notin told THEN "waiting"
               ELSE IF v \in overdue THEN "timeout"
               ELSE Verdict(rec, request[v], afterEvent[v])]
             ends == {v \in told : verdict[v] # "waiting"}
  <2>1. /\ outcome'[w] = IF w \in ends \cap pending THEN verdict[w] ELSE outcome[w]
        /\ cursor'[w] = IF w \in ends \cap pending
             THEN ResultCursor(rec, request[w], afterEvent[w], verdict[w]) ELSE cursor[w]
    BY <1>2 DEF Emit, Subscribed, CheckAll, Finish
  <2>2. w \in pending <=> outcome[w] = "waiting"
    BY DEF WaitsInv, PendingWaits, SlotsMatch
  <2>3. CASE w \notin ends \cap pending
    BY <2>1, <2>2, <2>3 DEF AnswerOf, CursorOf, Matches
  <2>4. CASE w \in ends \cap pending
    <3>1. /\ w \in pending /\ q.sid = sid
          /\ verdict[w] \in {"timeout", "matched", "history_lost"}
          /\ verdict[w] # "timeout" => verdict[w] = Verdict(rec, q, afterEvent[w])
          /\ verdict[w] = "matched" /\ q.kind = "event"
               => Candidates(rec, afterEvent[w], q.want) # {}
      BY <2>4, VerdictTyped
    <3>2. outcome'[w] = verdict[w]
          /\ cursor'[w] = ResultCursor(rec, q, afterEvent[w], verdict[w])
      BY <2>1, <2>4
    <3>3. /\ actors'[sid] = rec /\ rec # NoActor /\ request'[w] = q
      BY SentinelAssumption DEF SentinelAssumption, WaitsInv, PendingWaits, TypeOK
    <3> HIDE DEF ends, verdict, told
    <3>4. LET c == cursor'[w]
          IN  /\ c \in Cursor /\ c.generation = rec.generation
              /\ c.snapshot = rec.version /\ c.event <= Len(rec.log)
      <4> DEFINE v == verdict[w]
                 from == afterEvent[w]
      <4>1. /\ v = "matched" /\ q.kind = "event" => Candidates(rec, from, q.want) # {}
            /\ cursor'[w] = ResultCursor(rec, q, from, v)
        BY <3>1, <3>2
      <4> HIDE DEF q, v, from
      <4>2. LET c == ResultCursor(rec, q, from, v)
            IN  /\ c \in Cursor /\ c.generation = rec.generation
                /\ c.snapshot = rec.version /\ c.event <= Len(rec.log)
        BY <4>1, CursorTyped
      <4> QED  BY <4>1, <4>2
    <3>5. CursorOf(w)
      <4>1. cursor'[w].snapshot <= rec.version
        BY <3>4, RecordFields, SizeAssumption DEF SizeAssumption
      <4> QED  BY <3>3, <3>4, <4>1 DEF CursorOf, CursorFits
    <3>6. /\ q.kind = "event" => /\ afterEvent[w] = Len(old.log) /\ q.from <= Len(old.log)
                                 /\ \A n \in q.from + 1 .. Len(old.log) : old.log[n] # q.want
          /\ q.from \in Nat /\ old \in ActorRecord
      BY <3>1 DEF WaitsInv, PendingWaits, TypeOK, NoMissedMatch, BaselinesCurrent, Request
    <3>7. ASSUME q.kind = "event"
          PROVE  /\ Verdict(rec, q, afterEvent[w]) # "history_lost"
                 /\ verdict[w] = "matched" => MatchFound(w)
      <4>0. old.log \in Seq(EventType) /\ Len(old.log) \in Nat
        BY <3>6, RecordFields
      <4>1. CASE rec.log = old.log
        <5>1. Candidates(rec, afterEvent[w], q.want) = {}
          BY <3>6, <3>7, <4>0, <4>1, CandidatesTyped
        <5>2. ~(afterEvent[w] < Evicted(rec))
          BY <3>6, <3>7, <4>0, <4>1, RecordFields
        <5> QED  BY <3>1, <3>7, <5>1, <5>2 DEF Verdict
      <4>2. ASSUME NEW type \in EventType, rec.log = Append(old.log, type)
            PROVE  /\ Verdict(rec, q, afterEvent[w]) # "history_lost"
                   /\ verdict[w] = "matched" => MatchFound(w)
        <5>1. /\ Len(rec.log) = Len(old.log) + 1
              /\ \A n \in 1 .. Len(old.log) : rec.log[n] = old.log[n]
          <6> HIDE DEF old
          <6> QED  BY <4>0, <4>2, Appended
        <5>2. ~(afterEvent[w] < Evicted(rec))
          <6>1. Evicted(rec) <= Len(old.log)
            BY <4>0, <5>1, SizeAssumption DEF SizeAssumption, Evicted
          <6> QED  BY <3>6, <3>7, <4>0, <6>1, RecordFields
        <5>3. ASSUME verdict[w] = "matched"
              PROVE  MatchFound(w)
          <6> DEFINE C == Candidates(rec, afterEvent[w], q.want)
          <6>1. Earliest(C) \in C
            BY <3>1, <3>7, <5>3, CandidatesTyped, Minimum
          <6>2. cursor'[w].event = Earliest(C)
            BY <3>2, <3>7, <5>3 DEF ResultCursor
          <6>3. /\ Earliest(C) \in 1 .. Len(rec.log) /\ Earliest(C) > Len(old.log)
                /\ rec.log[Earliest(C)] = q.want
            BY <3>6, <3>7, <6>1, CandidatesTyped
          <6> HIDE DEF C, old, q
          <6>4. Earliest(C) = Len(rec.log)
            BY <4>0, <5>1, <6>3
          <6>5. \A m \in q.from + 1 .. Len(old.log) : rec.log[m] # q.want
            BY <3>6, <3>7, <4>0, <5>1
          <6>6. LET n == cursor'[w].event
                IN  /\ n \in q.from + 1 .. Len(rec.log) /\ rec.log[n] = q.want
                    /\ \A m \in q.from + 1 .. n - 1 : rec.log[m] # q.want
            BY <3>6, <3>7, <4>0, <5>1, <6>2, <6>3, <6>4, <6>5
          <6> QED  BY <3>1, <3>3, <3>7, <6>6 DEF MatchFound
        <5> QED  BY <3>7, <5>2, <5>3 DEF Verdict
      <4> QED  BY <4>1, <4>2
    <3>8. ASSUME q.kind # "event"
          PROVE  /\ Verdict(rec, q, afterEvent[w]) # "history_lost"
                 /\ verdict[w] = "matched" => MatchFound(w)
      BY <3>1, <3>3, <3>4, <3>8 DEF Verdict, MatchFound
    <3>9. AnswerOf(w)
      BY <2>2, <3>1, <3>2, <3>7, <3>8 DEF AnswerOf, Matches
    <3> QED  BY <3>5, <3>9
  <2> QED  BY <2>3, <2>4
<1> QED  BY <1>1, <1>2

LEMMA CallAnswers ==
  ASSUME WaitsInv, NEW w \in Wait, NEW sid \in SessionId, CallStep(w, sid)
  PROVE  \A v \in Wait : AnswerOf(v) /\ CursorOf(v)
<1>1. \A v \in pending : outcome[v] = "waiting"
  BY DEF WaitsInv, PendingWaits, TypeOK, SlotsMatch
<1>2. ASSUME outcome[w] = "idle", NEW why, NEW result, Resolve(w, why, result),
             AnswerOf(w), CursorOf(w)
      PROVE  \A v \in Wait : AnswerOf(v) /\ CursorOf(v)
  <2>1. \A v \in Wait \ {w} : outcome'[v] = outcome[v] /\ cursor'[v] = cursor[v]
    BY <1>2 DEF Resolve, WaitsInv, PendingWaits, TypeOK
  <2>2. \A v \in Wait \ {w} : AnswerOf(v) /\ CursorOf(v)
    BY <1>1, <2>1 DEF AnswerOf, CursorOf, Matches
  <2> QED  BY <1>2, <2>2
<1>3. ASSUME NEW valid \in BOOLEAN, NEW aborted \in BOOLEAN,
             RefuseCall(w, sid, valid, aborted)
      PROVE  \A v \in Wait : AnswerOf(v) /\ CursorOf(v)
  <2> DEFINE rec == actors[sid]
             now == [generation |-> rec.generation, snapshot |-> rec.version,
                     event |-> Len(rec.log)]
             why == IF ~valid THEN "invalid_input"
                    ELSE IF closed THEN "shutdown"
                    ELSE IF aborted THEN "cancelled"
                    ELSE "actor_not_found"
             result == IF valid /\ rec # NoActor THEN now ELSE NoCursor
  <2>1. outcome[w] = "idle" /\ Resolve(w, why, result)
    BY <1>3 DEF RefuseCall, Unasked
  <2>2. outcome'[w] = why /\ cursor'[w] = result
    BY <2>1 DEF Resolve, WaitsInv, PendingWaits, TypeOK
  <2>3. AnswerOf(w)
    BY <1>1, <2>1, <2>2 DEF AnswerOf, Matches
  <2>4. CursorOf(w)
    <3>1. CASE valid /\ rec # NoActor
      <4>1. rec \in ActorRecord
        BY <3>1 DEF WaitsInv, PendingWaits, TypeOK
      <4>2. CursorFits(cursor'[w], rec)
        BY <2>2, <3>1, <4>1, RecordFields, SizeAssumption DEF SizeAssumption, CursorFits
      <4> QED  BY <4>2 DEF CursorOf
    <3>2. CASE ~(valid /\ rec # NoActor)
      BY <2>2, <3>2 DEF CursorOf
    <3> QED  BY <3>1, <3>2
  <2> HIDE DEF why, result
  <2> QED  BY <1>2, <2>1, <2>3, <2>4
<1>4. ASSUME NEW kind \in {"event", "state"}, NEW want,
             want \in IF kind = "event" THEN EventType ELSE Predicate,
             NEW after \in Cursors, NEW zero \in BOOLEAN, NEW late \in BOOLEAN,
             CallWait(w, sid, kind, want, after, zero, late)
      PROVE  \A v \in Wait : AnswerOf(v) /\ CursorOf(v)
  <2> DEFINE rec   == actors[sid]
             from  == IF after = NoCursor THEN Len(rec.log) ELSE after.event
             newer == IF after = NoCursor THEN -1 ELSE after.snapshot
             q == [kind |-> kind, sid |-> sid, record |-> rec.generation,
                   want |-> want, from |-> from, newer |-> newer]
             verdict ==
               IF BadCursor(rec, after) THEN "invalid_cursor"
               ELSE IF Verdict(rec, q, from) # "waiting" THEN Verdict(rec, q, from)
               ELSE IF zero THEN "timeout"
               ELSE IF Cardinality(pending) >= MaxWaiters THEN "capacity_exceeded"
               ELSE IF late THEN "timeout"
               ELSE "waiting"
  <2>1. /\ rec # NoActor /\ outcome[w] = "idle"
        /\ request' = [request EXCEPT ![w] = q]
        /\ IF verdict = "waiting"
             THEN /\ outcome' = [outcome EXCEPT ![w] = "waiting"]
                  /\ UNCHANGED <<storeVars, overdue, cursor, closed>>
             ELSE Resolve(w, verdict, ResultCursor(rec, q, from, verdict))
    BY <1>4 DEF CallWait, Answerable, Unasked
  <2>2. /\ rec \in ActorRecord /\ Len(rec.log) \in 0 .. MaxEvents
        /\ from \in 0 .. MaxEvents /\ q \in Request
    BY <1>4, <2>1, CallTyped
  <2>3. q.kind = kind /\ q.sid = sid /\ q.want = want /\ q.from = from /\ q.newer = newer
    OBVIOUS
  <2>4. verdict = "matched" => Verdict(rec, q, from) = "matched"
    <3> HIDE DEF q, from, rec
    <3> QED  BY VerdictTyped
  <2>5. actors' = actors
    BY <2>1 DEF Resolve, storeVars
  <2> HIDE DEF verdict, q, from, newer, rec
  <2>6. request'[w] = q
    BY <2>1 DEF WaitsInv, PendingWaits, TypeOK
  <2>7. CASE verdict = "waiting"
    <3>1. /\ outcome' = [outcome EXCEPT ![w] = "waiting"] /\ cursor' = cursor
      BY <2>1, <2>7
    <3> QED  BY <1>1, <2>1, <3>1 DEF AnswerOf, CursorOf, Matches, WaitsInv, PendingWaits, TypeOK
  <2>8. CASE verdict # "waiting"
    <3>1. Resolve(w, verdict, ResultCursor(rec, q, from, verdict))
      BY <2>1, <2>8
    <3>2. outcome'[w] = verdict /\ cursor'[w] = ResultCursor(rec, q, from, verdict)
      BY <3>1 DEF Resolve, WaitsInv, PendingWaits, TypeOK
    <3>3. LET c == ResultCursor(rec, q, from, verdict)
          IN  /\ c \in Cursor /\ c.generation = rec.generation
              /\ c.snapshot = rec.version /\ c.event <= Len(rec.log)
      <4>1. verdict = "matched" /\ q.kind = "event" => Candidates(rec, from, q.want) # {}
        BY <2>4, VerdictTyped
      <4>2. Len(rec.log) <= MaxEvents
        BY <2>2, SizeAssumption DEF SizeAssumption
      <4> QED  BY <2>2, <4>1, <4>2, CursorTyped
    <3>4. CursorOf(w)
      <4>1. cursor'[w].snapshot <= rec.version
        BY <2>2, <3>2, <3>3, RecordFields, SizeAssumption DEF SizeAssumption
      <4>2. CursorFits(cursor'[w], actors[sid])
        BY <2>1, <3>2, <3>3, <4>1 DEF CursorFits, rec
      <4> QED  BY <4>2 DEF CursorOf
    <3>5. ASSUME verdict = "matched"
          PROVE  MatchFound(w)
      <4>1. actors'[q.sid] = rec
        BY <2>3, <2>5 DEF rec
      <4>2. CASE kind = "event"
        <5> DEFINE C == Candidates(rec, from, want)
        <5>1. C # {} /\ ~(from < Evicted(rec))
          BY <2>3, <2>4, <3>5, <4>2 DEF Verdict
        <5>2. Earliest(C) \in C /\ \A m \in C : Earliest(C) <= m
          BY <2>2, <5>1, CandidatesTyped, Minimum
        <5>3. cursor'[w].event = Earliest(C)
          BY <2>3, <3>2, <3>5, <4>2 DEF ResultCursor
        <5>4. Earliest(C) \in 1 .. Len(rec.log) /\ Earliest(C) > from /\ rec.log[Earliest(C)] = want
          BY <2>2, <5>2, CandidatesTyped
        <5>5. \A m \in from + 1 .. Len(rec.log) : rec.log[m] = want => m \in C
          BY <2>2, <5>1, RecordFields, SizeAssumption
             DEF SizeAssumption, Candidates, Retained
        <5> HIDE DEF C
        <5>6. \A m \in from + 1 .. Earliest(C) - 1 : rec.log[m] # want
          <6> SUFFICES ASSUME NEW m \in from + 1 .. Earliest(C) - 1, rec.log[m] = want
                       PROVE  FALSE
            OBVIOUS
          <6>1. m \in from + 1 .. Len(rec.log) /\ m < Earliest(C)
            BY <2>2, <5>4, SizeAssumption DEF SizeAssumption
          <6>2. m \in C
            BY <5>5, <6>1
          <6> QED  BY <2>2, <5>2, <5>4, <6>1, <6>2
        <5>7. Earliest(C) \in from + 1 .. Len(rec.log)
          BY <2>2, <5>4
        <5> QED  BY <2>3, <2>6, <4>1, <4>2, <5>3, <5>4, <5>6, <5>7 DEF MatchFound
      <4>3. CASE kind # "event"
        BY <2>3, <2>4, <2>6, <3>2, <3>3, <3>5, <4>1, <4>3 DEF Verdict, MatchFound
      <4> QED  BY <4>2, <4>3
    <3>6. AnswerOf(w)
      BY <1>1, <2>1, <3>2, <3>5 DEF AnswerOf, Matches
    <3> QED  BY <1>2, <2>1, <3>1, <3>4, <3>6
  <2> QED  BY <2>7, <2>8
<1>5. ASSUME NEW after \in Cursors, NEW zero \in BOOLEAN, NEW late \in BOOLEAN,
             NEW type \in EventType, CallWait(w, sid, "event", type, after, zero, late)
      PROVE  \A v \in Wait : AnswerOf(v) /\ CursorOf(v)
  BY <1>4, <1>5
<1>6. ASSUME NEW after \in Cursors, NEW zero \in BOOLEAN, NEW late \in BOOLEAN,
             NEW want \in Predicate, CallWait(w, sid, "state", want, after, zero, late)
      PROVE  \A v \in Wait : AnswerOf(v) /\ CursorOf(v)
  BY <1>4, <1>6
<1> QED  BY <1>3, <1>5, <1>6 DEF CallStep

LEMMA StepAnswers ==
  ASSUME WaitsInv, [Next]_vars
  PROVE  \A w \in Wait : AnswerOf(w) /\ CursorOf(w)
<1>1. ASSUME NEW sid \in SessionId, StoreStep(sid)
      PROVE  \A w \in Wait : AnswerOf(w) /\ CursorOf(w)
  <2>1. ASSUME NEW snap \in Snapshot \cup {NoSnapshot}, RegisterActor(sid, snap)
        PROVE  \A w \in Wait : AnswerOf(w) /\ CursorOf(w)
    BY <2>1, EndAllAnswers DEF RegisterActor, Endings
  <2>2. ASSUME NEW snap \in Snapshot \cup {NoSnapshot}, UpdateSnapshot(sid, snap)
        PROVE  \A w \in Wait : AnswerOf(w) /\ CursorOf(w)
    <3> DEFINE rec == IF snap = NoSnapshot THEN actors[sid]
                      ELSE [actors[sid] EXCEPT !.version = @ + 1, !.snapshot = snap]
    <3>1. /\ actors[sid] # NoActor /\ rec \in ActorRecord /\ Len(rec.log) <= MaxEvents
          /\ rec.log = actors[sid].log /\ rec.generation = actors[sid].generation
      BY <2>2, UpdatedRecord
    <3>2. /\ actors' = [actors EXCEPT ![sid] = rec] /\ Emit(sid, rec)
          /\ UNCHANGED <<generations, request, overdue, closed>>
      BY <2>2 DEF UpdateSnapshot
    <3> HIDE DEF rec
    <3> QED  BY <3>1, <3>2, ChangeAnswers
  <2>3. ASSUME NEW type \in EventType, AddEvent(sid, type)
        PROVE  \A w \in Wait : AnswerOf(w) /\ CursorOf(w)
    <3> DEFINE rec == [actors[sid] EXCEPT !.log = Append(@, type)]
    <3>1. /\ actors[sid] # NoActor /\ rec \in ActorRecord /\ Len(rec.log) <= MaxEvents
          /\ rec.log = Append(actors[sid].log, type)
          /\ rec.generation = actors[sid].generation
          /\ rec.version = actors[sid].version /\ rec.snapshot = actors[sid].snapshot
      BY <2>3, LongerRecord
    <3>2. /\ actors' = [actors EXCEPT ![sid] = rec] /\ Emit(sid, rec)
          /\ UNCHANGED <<generations, request, overdue, closed>>
      BY <2>3 DEF AddEvent
    <3> HIDE DEF rec
    <3> QED  BY <3>1, <3>2, ChangeAnswers
  <2>4. ASSUME NEW reason \in Removals, RemoveActor(sid, reason)
        PROVE  \A w \in Wait : AnswerOf(w) /\ CursorOf(w)
    BY <2>4, EndAllAnswers DEF RemoveActor, Removals, Endings
  <2> QED  BY <1>1, <2>1, <2>2, <2>3, <2>4 DEF StoreStep
<1>2. ASSUME ClearStore PROVE \A w \in Wait : AnswerOf(w) /\ CursorOf(w)
  BY <1>2, EndAllAnswers DEF ClearStore, Endings
<1>3. ASSUME Dispose PROVE \A w \in Wait : AnswerOf(w) /\ CursorOf(w)
  BY <1>3, EndAllAnswers DEF Dispose, Endings
<1>4. ASSUME NEW w \in Wait, WaitStep(w)
      PROVE  \A v \in Wait : AnswerOf(v) /\ CursorOf(v)
  <2>1. CASE DeadlinePasses(w)
    BY <2>1, SameAnswers DEF DeadlinePasses
  <2>2. CASE TimerFires(w)
    BY <2>2, EndAllAnswers DEF TimerFires, Endings
  <2>3. CASE Abort(w)
    BY <2>3, EndAllAnswers DEF Abort, Endings
  <2> QED  BY <1>4, <2>1, <2>2, <2>3, CallAnswers DEF WaitStep
<1>5. CASE UNCHANGED vars
  BY <1>5, SameAnswers DEF vars, waitVars
<1> QED  BY <1>1, <1>2, <1>3, <1>4, <1>5 DEF Next

\* A call is answered once.
THEOREM AnsweredOnce == Spec => SettledOnce
<1>1. WaitsInv /\ [Next]_vars
        => [\A w \in Wait : outcome[w] \notin {"idle", "waiting"}
              => outcome'[w] = outcome[w]]_vars
  BY StepAnswers DEF AnswerOf
<1> QED  BY WaitsInit, WaitsNext, <1>1, PTL DEF Spec, SafeSpec, SettledOnce

\* A matched event is the first one after the baseline in the whole history,
\* although the ring may have dropped others.
THEOREM FirstMatchFound == Spec => FirstMatch
<1>1. WaitsInv /\ [Next]_vars
        => [\A w \in Wait : Matches(w) /\ request'[w].kind = "event" =>
              LET q == request'[w]
                  log == actors'[q.sid].log
                  n == cursor'[w].event
              IN /\ n \in q.from + 1 .. Len(log) /\ log[n] = q.want
                 /\ \A m \in q.from + 1 .. n - 1 : log[m] # q.want]_vars
  BY StepAnswers DEF AnswerOf, MatchFound
<1> QED  BY WaitsInit, WaitsNext, <1>1, PTL DEF Spec, SafeSpec, FirstMatch

\* A matched snapshot is the current one and newer than the caller's cursor.
THEOREM NewerSnapshotFound == Spec => NewerSnapshotOnly
<1>1. WaitsInv /\ [Next]_vars
        => [\A w \in Wait : Matches(w) /\ request'[w].kind = "state" =>
              LET q == request'[w]
                  rec == actors'[q.sid]
              IN /\ rec.snapshot \in q.want /\ rec.version > q.newer
                 /\ cursor'[w].snapshot = rec.version]_vars
  BY StepAnswers DEF AnswerOf, MatchFound
<1> QED  BY WaitsInit, WaitsNext, <1>1, PTL DEF Spec, SafeSpec, NewerSnapshotOnly

\* A pending wait never ends because the ring dropped an event it had not seen.
THEOREM NoHistoryLost == Spec => PendingLosesNoHistory
<1>1. WaitsInv /\ [Next]_vars => [\A w \in pending : outcome'[w] # "history_lost"]_vars
  <2>1. WaitsInv => pending \subseteq Wait
    BY DEF WaitsInv, PendingWaits, TypeOK
  <2> QED  BY <2>1, StepAnswers DEF AnswerOf
<1> QED  BY WaitsInit, WaitsNext, <1>1, PTL DEF Spec, SafeSpec, PendingLosesNoHistory

-----------------------------------------------------------------------------
(* Cursors *)

\* A generation is minted once: it names one record, and cursors name the past.
Minted ==
  /\ \A sid \in SessionId : actors[sid] # NoActor => actors[sid].generation <= generations
  /\ \A sid, other \in SessionId :
       /\ actors[sid] # NoActor /\ actors[other] # NoActor
       /\ actors[sid].generation = actors[other].generation
       => sid = other
  /\ \A w \in Wait : cursor[w] # NoCursor => cursor[w].generation <= generations

CursorInv == WaitsInv /\ Minted /\ CursorsStayUsable

\* What a step does to the record of an actor.
Gone(sid)  == actors'[sid] = NoActor
Fresh(sid) == generations' = generations + 1 /\ actors'[sid].generation = generations'
Grown(sid) ==
  LET old == actors[sid]
      new == actors'[sid]
  IN  /\ old # NoActor /\ new.generation = old.generation
      /\ old.version <= new.version /\ Len(old.log) <= Len(new.log)

\* All records but at most one stay or go.
RecordsKept ==
  /\ generations' \in {generations, generations + 1}
  /\ \A sid \in SessionId : Gone(sid) \/ Grown(sid) \/ Fresh(sid)
  /\ \A sid, other \in SessionId :
       sid = other \/ Gone(sid) \/ Grown(sid) \/ Gone(other) \/ Grown(other)

LEMMA SameRecordGrown ==
  ASSUME WaitsInv, NEW sid \in SessionId, actors'[sid] = actors[sid]
  PROVE  Gone(sid) \/ Grown(sid)
<1>1. actors[sid] # NoActor => actors[sid].version \in Nat /\ Len(actors[sid].log) \in Nat
  BY RecordFields, SizeAssumption
     DEF SizeAssumption, WaitsInv, PendingWaits, TypeOK
<1> QED  BY <1>1 DEF Gone, Grown

LEMMA RefuseKeepsStore ==
  ASSUME NEW w, NEW sid, NEW valid, NEW aborted, RefuseCall(w, sid, valid, aborted)
  PROVE  UNCHANGED storeVars
BY DEF RefuseCall, Resolve

LEMMA CallKeepsStore ==
  ASSUME NEW w, NEW sid, NEW kind, NEW want, NEW after, NEW zero, NEW late,
         CallWait(w, sid, kind, want, after, zero, late)
  PROVE  UNCHANGED storeVars
BY DEF CallWait, Resolve

LEMMA StepRecords ==
  ASSUME WaitsInv, [Next]_vars
  PROVE  RecordsKept
<1>1. ASSUME NEW sid \in SessionId, StoreStep(sid) PROVE RecordsKept
  <2>1. \A other \in SessionId \ {sid} : actors'[other] = actors[other]
    BY <1>1 DEF StoreStep, RegisterActor, UpdateSnapshot, AddEvent, RemoveActor,
                WaitsInv, PendingWaits, TypeOK
  <2>2. \A other \in SessionId \ {sid} : Gone(other) \/ Grown(other)
    BY <2>1, SameRecordGrown
  <2>3. ASSUME NEW snap \in Snapshot \cup {NoSnapshot}, RegisterActor(sid, snap)
        PROVE  generations' = generations + 1 /\ Fresh(sid)
    BY <2>3 DEF RegisterActor, Fresh, WaitsInv, PendingWaits, TypeOK
  <2>4. ASSUME NEW snap \in Snapshot \cup {NoSnapshot}, UpdateSnapshot(sid, snap)
        PROVE  generations' = generations /\ (Gone(sid) \/ Grown(sid))
    <3>1. /\ generations' = generations /\ actors[sid] # NoActor
          /\ actors'[sid] = IF snap = NoSnapshot THEN actors[sid]
               ELSE [actors[sid] EXCEPT !.version = @ + 1, !.snapshot = snap]
      BY <2>4 DEF UpdateSnapshot, WaitsInv, PendingWaits, TypeOK
    <3>2. CASE snap = NoSnapshot
      BY <3>1, <3>2, SameRecordGrown
    <3>3. CASE snap # NoSnapshot
      <4>1. actors[sid] \in ActorRecord
        BY <3>1 DEF WaitsInv, PendingWaits, TypeOK
      <4>2. /\ actors'[sid].generation = actors[sid].generation
            /\ actors'[sid].version = actors[sid].version + 1
            /\ actors'[sid].log = actors[sid].log
        BY <3>1, <3>3, <4>1 DEF ActorRecord
      <4>3. actors[sid].version \in Nat /\ Len(actors[sid].log) \in Nat
        BY <4>1, RecordFields, SizeAssumption DEF SizeAssumption
      <4> QED  BY <3>1, <4>2, <4>3 DEF Grown
    <3> QED  BY <3>1, <3>2, <3>3
  <2>5. ASSUME NEW type \in EventType, AddEvent(sid, type)
        PROVE  generations' = generations /\ Grown(sid)
    <3>1. /\ generations' = generations /\ actors[sid] # NoActor
          /\ actors'[sid] = [actors[sid] EXCEPT !.log = Append(@, type)]
      BY <2>5 DEF AddEvent, WaitsInv, PendingWaits, TypeOK
    <3>2. actors[sid] \in ActorRecord /\ actors[sid].log \in Seq(EventType)
      BY <3>1 DEF WaitsInv, PendingWaits, TypeOK, ActorRecord
    <3>3. /\ actors'[sid].generation = actors[sid].generation
          /\ actors'[sid].version = actors[sid].version
          /\ actors'[sid].log = Append(actors[sid].log, type)
      BY <3>1, <3>2 DEF ActorRecord
    <3>4. actors[sid].version \in Nat /\ Len(actors[sid].log) \in Nat
      BY <3>2, RecordFields, SizeAssumption DEF SizeAssumption
    <3>5. Len(actors'[sid].log) = Len(actors[sid].log) + 1
      BY <3>2, <3>3, Appended
    <3> QED  BY <3>1, <3>3, <3>4, <3>5 DEF Grown
  <2>6. ASSUME NEW reason \in Removals, RemoveActor(sid, reason)
        PROVE  generations' = generations /\ Gone(sid)
    BY <2>6 DEF RemoveActor, Gone, WaitsInv, PendingWaits, TypeOK
  <2> QED  BY <1>1, <2>2, <2>3, <2>4, <2>5, <2>6 DEF StoreStep, RecordsKept
<1>2. CASE ClearStore
  BY <1>2 DEF ClearStore, Gone, RecordsKept
<1>3. CASE UNCHANGED storeVars
  BY <1>3, SameRecordGrown DEF storeVars, RecordsKept
<1>4. ASSUME NEW w \in Wait, WaitStep(w) PROVE UNCHANGED storeVars
  <2>1. ASSUME NEW sid \in SessionId, CallStep(w, sid) PROVE UNCHANGED storeVars
    BY <2>1, RefuseKeepsStore, CallKeepsStore DEF CallStep
  <2> QED  BY <1>4, <2>1 DEF WaitStep, DeadlinePasses, TimerFires, Abort
<1> QED  BY <1>1, <1>2, <1>3, <1>4 DEF Next, Dispose, vars

LEMMA CursorInit == Init => CursorInv
BY WaitsInit DEF Init, CursorInv, Minted, CursorsStayUsable

LEMMA CursorNext == CursorInv /\ [Next]_vars => CursorInv'
<1> SUFFICES ASSUME CursorInv, [Next]_vars PROVE CursorInv'
  OBVIOUS
<1>1. WaitsInv /\ WaitsInv' /\ RecordsKept /\ \A w \in Wait : CursorOf(w)
  BY WaitsNext, StepRecords, StepAnswers DEF CursorInv
<1>2. /\ generations \in Nat /\ generations' \in Nat
      /\ \A sid \in SessionId : actors[sid] # NoActor =>
           /\ actors[sid].generation \in Nat /\ actors[sid].version \in Nat
           /\ Len(actors[sid].log) \in Nat
      /\ \A sid \in SessionId : actors'[sid] # NoActor =>
           /\ actors'[sid].generation \in Nat /\ actors'[sid].version \in Nat
           /\ Len(actors'[sid].log) \in Nat
      /\ \A w \in Wait : cursor'[w] # NoCursor =>
           /\ cursor'[w].generation \in Nat /\ cursor'[w].snapshot \in Nat
           /\ cursor'[w].event \in Nat
  BY <1>1, RecordFields, SizeAssumption
     DEF SizeAssumption, WaitsInv, PendingWaits, TypeOK, Generation, Cursor
<1>3. \A sid \in SessionId : actors'[sid] # NoActor => actors'[sid].generation <= generations'
  BY <1>1, <1>2 DEF CursorInv, Minted, RecordsKept, Gone, Grown, Fresh
<1>4. ASSUME NEW sid \in SessionId, NEW other \in SessionId, Grown(sid), Fresh(other)
      PROVE  actors'[sid].generation # actors'[other].generation
  <2>1. actors[sid].generation \in Nat /\ actors[sid].generation <= generations
    BY <1>2, <1>4 DEF Grown, CursorInv, Minted
  <2>2. /\ actors'[sid].generation = actors[sid].generation
        /\ actors'[other].generation = generations + 1
    BY <1>4 DEF Grown, Fresh
  <2> QED  BY <1>2, <2>1, <2>2
<1>5. ASSUME NEW sid \in SessionId, NEW other \in SessionId,
             actors'[sid] # NoActor, actors'[other] # NoActor,
             actors'[sid].generation = actors'[other].generation
      PROVE  sid = other
  <2>1. CASE Grown(sid) /\ Grown(other)
    BY <1>5, <2>1 DEF CursorInv, Minted, Grown
  <2>2. CASE Grown(sid) /\ ~Grown(other)
    BY <1>1, <1>5, <1>4, <2>2 DEF RecordsKept, Gone
  <2>3. CASE ~Grown(sid) /\ Grown(other)
    BY <1>1, <1>5, <1>4, <2>3 DEF RecordsKept, Gone
  <2>4. CASE ~Grown(sid) /\ ~Grown(other)
    BY <1>1, <1>5, <2>4 DEF RecordsKept, Gone
  <2> QED  BY <2>1, <2>2, <2>3, <2>4
<1>6. ASSUME NEW w \in Wait, cursor'[w] # NoCursor
      PROVE  /\ cursor'[w].generation <= generations'
             /\ \A sid \in SessionId :
                  /\ actors'[sid] # NoActor
                  /\ actors'[sid].generation = cursor'[w].generation
                  => CursorFits(cursor'[w], actors'[sid])
  <2>1. ASSUME cursor'[w].generation <= generations,
               \A sid \in SessionId :
                 /\ actors[sid] # NoActor
                 /\ actors[sid].generation = cursor'[w].generation
                 => CursorFits(cursor'[w], actors[sid])
        PROVE  /\ cursor'[w].generation <= generations'
               /\ \A sid \in SessionId :
                    /\ actors'[sid] # NoActor
                    /\ actors'[sid].generation = cursor'[w].generation
                    => CursorFits(cursor'[w], actors'[sid])
    <3>1. cursor'[w].generation <= generations'
      BY <1>1, <1>2, <1>6, <2>1 DEF RecordsKept
    <3>2. ASSUME NEW sid \in SessionId, actors'[sid] # NoActor,
                 actors'[sid].generation = cursor'[w].generation
          PROVE  CursorFits(cursor'[w], actors'[sid])
      <4>1. Grown(sid)
        BY <1>1, <1>2, <1>6, <2>1, <3>2 DEF RecordsKept, Gone, Fresh
      <4>2. CursorFits(cursor'[w], actors[sid])
        BY <2>1, <3>2, <4>1 DEF Grown
      <4> QED  BY <1>2, <1>6, <3>2, <4>1, <4>2 DEF Grown, CursorFits
    <3> QED  BY <3>1, <3>2
  <2>2. CASE cursor'[w] = cursor[w]
    <3>1. cursor[w].generation <= generations
      BY <1>6, <2>2 DEF CursorInv, Minted
    <3>2. \A sid \in SessionId :
            /\ actors[sid] # NoActor /\ actors[sid].generation = cursor'[w].generation
            => CursorFits(cursor'[w], actors[sid])
      BY <1>2, <1>6, <2>2 DEF CursorInv, CursorsStayUsable, BadCursor, CursorFits
    <3> QED  BY <2>1, <2>2, <3>1, <3>2
  <2>3. ASSUME NEW sid \in SessionId, CursorFits(cursor'[w], actors[sid])
        PROVE  /\ cursor'[w].generation <= generations'
               /\ \A other \in SessionId :
                    /\ actors'[other] # NoActor
                    /\ actors'[other].generation = cursor'[w].generation
                    => CursorFits(cursor'[w], actors'[other])
    <3>1. /\ cursor'[w].generation <= generations
          /\ \A other \in SessionId :
               /\ actors[other] # NoActor
               /\ actors[other].generation = cursor'[w].generation
               => CursorFits(cursor'[w], actors[other])
      BY <2>3 DEF CursorInv, Minted, CursorFits
    <3> QED  BY <2>1, <3>1
  <2>4. ASSUME NEW sid \in SessionId, CursorFits(cursor'[w], actors'[sid])
        PROVE  /\ cursor'[w].generation <= generations'
               /\ \A other \in SessionId :
                    /\ actors'[other] # NoActor
                    /\ actors'[other].generation = cursor'[w].generation
                    => CursorFits(cursor'[w], actors'[other])
    BY <1>3, <1>5, <2>4 DEF CursorFits
  <2> QED  BY <1>1, <1>6, <2>2, <2>3, <2>4 DEF CursorOf
<1>7. Minted'
  BY <1>3, <1>5, <1>6 DEF Minted
<1>8. CursorsStayUsable'
  <2> SUFFICES ASSUME NEW w \in Wait, NEW sid \in SessionId,
                      cursor'[w] # NoCursor, actors'[sid] # NoActor,
                      actors'[sid].generation = cursor'[w].generation
               PROVE  ~BadCursor(actors'[sid], cursor'[w])
    BY DEF CursorsStayUsable, BadCursor
  <2>1. CursorFits(cursor'[w], actors'[sid])
    BY <1>6
  <2> QED  BY <1>2, <2>1 DEF CursorFits, BadCursor
<1> QED  BY <1>1, <1>7, <1>8 DEF CursorInv

\* A cursor a call returned is never refused while the registration it was taken
\* from lasts.
THEOREM CursorsUsable == Spec => []CursorsStayUsable
<1>1. CursorInv => CursorsStayUsable
  BY DEF CursorInv
<1> QED  BY CursorInit, CursorNext, <1>1, PTL DEF Spec, SafeSpec

===============================================================================
