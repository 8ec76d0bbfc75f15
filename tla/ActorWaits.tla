------------------------------ MODULE ActorWaits ------------------------------
(***************************************************************************)
(* Verification waits (src/src/actor-waits.ts) over the actor store         *)
(* (src/src/actor-store.ts): wait_for_state and wait_for_event calls, the   *)
(* store changes that wake them, and everything that ends them.             *)
(*                                                                         *)
(* A store operation emits its change synchronously, so an operation and    *)
(* the reaction of every pending wait are one action. A record object is    *)
(* identified by its generation. "log" keeps all events of a generation;    *)
(* the code retains the last BufferSize of them (module RingBuffer shows    *)
(* that its ring holds exactly those). A snapshot is an opaque value and a  *)
(* state predicate the set of snapshots it accepts. Transition history,     *)
(* names and redaction do not reach a wait and are left out.                *)
(***************************************************************************)
EXTENDS Integers, Sequences, FiniteSets

CONSTANTS
  Wait,            \* wait calls
  SessionId,       \* public actor ids
  EventType,       \* event types
  Snapshot,        \* observable snapshots
  Predicate,       \* state predicates: sets of snapshots
  BufferSize,      \* the store's bufferSize
  MaxWaiters,      \* MAX_WAITERS
  MaxGenerations,  \* bound: registrations
  MaxVersions,     \* bound: snapshots per registration
  MaxEvents,       \* bound: events per registration
  NoActor, NoSnapshot, NoCursor, NoRequest

ASSUME SizeAssumption ==
  /\ BufferSize \in Nat \ {0}
  /\ MaxWaiters \in Nat
  /\ MaxGenerations \in Nat /\ MaxVersions \in Nat /\ MaxEvents \in Nat

ASSUME PredicateAssumption == Predicate \subseteq SUBSET Snapshot

Generation == 1 .. MaxGenerations

ActorRecord == [generation : Generation, version : 0 .. MaxVersions,
                snapshot : Snapshot \cup {NoSnapshot}, log : Seq(EventType)]

Cursor == [generation : Generation, snapshot : 0 .. MaxVersions,
           event : 0 .. MaxEvents]

\* What a pending or settled call asked for. "record" is the captured record's
\* generation, "from" and "newer" the baselines: events after "from", snapshots
\* newer than version "newer" (-1 without a cursor).
Request ==
  [kind : {"event"}, sid : SessionId, record : Generation, want : EventType,
   from : 0 .. MaxEvents, newer : -1 .. MaxVersions]
  \cup
  [kind : {"state"}, sid : SessionId, record : Generation, want : Predicate,
   from : 0 .. MaxEvents, newer : -1 .. MaxVersions]

ASSUME SentinelAssumption ==
  /\ NoActor \notin ActorRecord
  /\ NoSnapshot \notin Snapshot
  /\ NoCursor \notin Cursor
  /\ NoRequest \notin Request

Removals == {"actor_removed", "disconnected"}
Endings  == {"matched", "timeout", "actor_replaced", "cleared", "cancelled",
             "shutdown", "history_lost"} \cup Removals
Refusals == {"invalid_input", "actor_not_found", "invalid_cursor",
             "capacity_exceeded"}
Outcomes == {"idle", "waiting"} \cup Endings \cup Refusals

VARIABLES
  actors,       \* the store: sessionId -> record
  generations,  \* generations minted so far
  request,      \* what each call asked for
  afterEvent,   \* the moving event baseline of each call's evaluate()
  pending,      \* ActorWaits.pending
  timers,       \* calls whose timeout is armed
  listeners,    \* calls whose abort listener is attached
  overdue,      \* calls whose deadline has passed
  outcome,      \* what each call's promise is or resolved with
  cursor,       \* the cursor it returned
  closed        \* disposed

storeVars == <<actors, generations>>
waitVars  == <<request, afterEvent, pending, timers, listeners, overdue,
               outcome, cursor>>
vars == <<storeVars, waitVars, closed>>

TypeOK ==
  /\ actors \in [SessionId -> ActorRecord \cup {NoActor}]
  /\ generations \in 0 .. MaxGenerations
  /\ request \in [Wait -> Request \cup {NoRequest}]
  /\ afterEvent \in [Wait -> 0 .. MaxEvents]
  /\ pending \subseteq Wait
  /\ timers \subseteq Wait
  /\ listeners \subseteq Wait
  /\ overdue \subseteq Wait
  /\ outcome \in [Wait -> Outcomes]
  /\ cursor \in [Wait -> Cursor \cup {NoCursor}]
  /\ closed \in BOOLEAN

Init ==
  /\ actors = [sid \in SessionId |-> NoActor]
  /\ generations = 0
  /\ request = [w \in Wait |-> NoRequest]
  /\ afterEvent = [w \in Wait |-> 0]
  /\ pending = {}
  /\ timers = {}
  /\ listeners = {}
  /\ overdue = {}
  /\ outcome = [w \in Wait |-> "idle"]
  /\ cursor = [w \in Wait |-> NoCursor]
  /\ closed = FALSE

-----------------------------------------------------------------------------
(* Evaluating a wait *)

\* eventHistory.total - eventHistory.size: how many events were evicted.
Evicted(rec) ==
  IF Len(rec.log) > BufferSize THEN Len(rec.log) - BufferSize ELSE 0

Retained(rec) == Evicted(rec) + 1 .. Len(rec.log)

\* The retained events a wait may match, by sequence number.
Candidates(rec, from, type) ==
  {n \in Retained(rec) : n > from /\ rec.log[n] = type}

Earliest(S) == CHOOSE n \in S : \A m \in S : n <= m

\* Variant of Verdict: retained events are searched although some were evicted.
VerdictIgnoringLoss(rec, q, from) ==
  IF \/ q.kind = "event" /\ Candidates(rec, from, q.want) # {}
     \/ /\ q.kind = "state" /\ rec.snapshot # NoSnapshot
        /\ rec.version > q.newer /\ rec.snapshot \in q.want
    THEN "matched" ELSE "waiting"

\* Variant of Verdict: the snapshot of the cursor itself matches again.
VerdictNotNewer(rec, q, from) ==
  IF q.kind = "event"
    THEN IF from < Evicted(rec) THEN "history_lost"
         ELSE IF Candidates(rec, from, q.want) # {} THEN "matched"
         ELSE "waiting"
    ELSE IF /\ rec.snapshot # NoSnapshot
            /\ rec.version >= q.newer
            /\ rec.snapshot \in q.want THEN "matched"
         ELSE "waiting"

\* evaluate(): "waiting" stands for no match yet.
Verdict(rec, q, from) ==
  IF q.kind = "event"
    THEN IF from < Evicted(rec) THEN "history_lost"
         ELSE IF Candidates(rec, from, q.want) # {} THEN "matched"
         ELSE "waiting"
    ELSE IF /\ rec.snapshot # NoSnapshot
            /\ rec.version > q.newer
            /\ rec.snapshot \in q.want THEN "matched"
         ELSE "waiting"

\* Variant of ResultCursor: the number of the event after the matching one.
ResultCursorPast(rec, q, from, verdict) ==
  [generation |-> rec.generation,
   snapshot   |-> rec.version,
   event      |-> IF verdict = "matched" /\ q.kind = "event"
                    THEN Earliest(Candidates(rec, from, q.want)) + 1
                    ELSE Len(rec.log)]

\* The cursor of a result: the record's counters now, or the matched event.
ResultCursor(rec, q, from, verdict) ==
  [generation |-> rec.generation,
   snapshot   |-> rec.version,
   event      |-> IF verdict = "matched" /\ q.kind = "event"
                    THEN Earliest(Candidates(rec, from, q.want))
                    ELSE Len(rec.log)]

-----------------------------------------------------------------------------
(* Settling *)

\* Variant of Finish: the promise is resolved again when the slot is free.
FinishAgain(ends, verdict, rec) ==
  LET done == ends \cap pending IN
  /\ pending' = pending \ done
  /\ timers' = timers \ done
  /\ listeners' = listeners \ done
  /\ outcome' = [w \in Wait |-> IF w \in ends THEN verdict[w] ELSE outcome[w]]
  /\ cursor' = [w \in Wait |->
       IF w \in done
         THEN ResultCursor(rec[w], request[w], afterEvent[w], verdict[w])
         ELSE cursor[w]]

\* finish(): for each pending wait in "ends" its outcome; rec(w) is the record
\* it captured, with the counters of this moment.
Finish(ends, verdict, rec) ==
  LET done == ends \cap pending IN
  /\ pending' = pending \ done
  /\ timers' = timers \ done
  /\ listeners' = listeners \ done
  /\ outcome' = [w \in Wait |-> IF w \in done THEN verdict[w] ELSE outcome[w]]
  /\ cursor' = [w \in Wait |->
       IF w \in done
         THEN ResultCursor(rec[w], request[w], afterEvent[w], verdict[w])
         ELSE cursor[w]]

\* The record each pending wait captured is the one the store still holds.
Captured == [w \in Wait |-> IF w \in pending THEN actors[request[w].sid] ELSE NoActor]

EndAll(S, why) == Finish(S, [w \in Wait |-> why], Captured)

\* Variant of CheckAll: the event baseline stays where the call began.
CheckAllFromStart(sid, rec) ==
  LET told == {w \in pending : request[w].sid = sid}
      verdict == [w \in Wait |->
        IF w \notin told THEN "waiting"
        ELSE IF w \in overdue THEN "timeout"
        ELSE Verdict(rec, request[w], afterEvent[w])]
  IN
  /\ Finish({w \in told : verdict[w] # "waiting"}, verdict, [w \in Wait |-> rec])
  /\ UNCHANGED afterEvent

\* check() on a change of the same record: an overdue wait ends as a timeout
\* even if this very change matches; a checked event wait moves its baseline.
CheckAll(sid, rec) ==
  LET told == {w \in pending : request[w].sid = sid}
      verdict == [w \in Wait |->
        IF w \notin told THEN "waiting"
        ELSE IF w \in overdue THEN "timeout"
        ELSE Verdict(rec, request[w], afterEvent[w])]
  IN
  /\ Finish({w \in told : verdict[w] # "waiting"}, verdict, [w \in Wait |-> rec])
  /\ afterEvent' = [w \in Wait |->
       IF w \in told /\ w \notin overdue /\ request[w].kind = "event"
         THEN Len(rec.log) ELSE afterEvent[w]]

\* The waits subscribe to the store until they are disposed.
Subscribed == ~closed

-----------------------------------------------------------------------------
(* Store operations *)

\* registerActor: a fresh generation; waits on the record it replaces end.
RegisterActor(sid, snap) ==
  /\ generations < MaxGenerations
  /\ snap = NoSnapshot \/ MaxVersions > 0
  /\ generations' = generations + 1
  /\ actors' = [actors EXCEPT ![sid] =
       [generation |-> generations + 1,
        version    |-> IF snap = NoSnapshot THEN 0 ELSE 1,
        snapshot   |-> snap,
        log        |-> <<>>]]
  /\ EndAll({w \in pending : Subscribed /\ request[w].sid = sid},
            "actor_replaced")
  /\ UNCHANGED <<request, afterEvent, overdue, closed>>

\* Waits hear of a change of a record they captured.
Emit(sid, rec) ==
  IF Subscribed THEN CheckAll(sid, rec)
  ELSE UNCHANGED <<afterEvent, pending, timers, listeners, outcome, cursor>>

\* Variant of UpdateSnapshot: the change is emitted before it is stored.
UpdateSnapshotEmittingFirst(sid, snap) ==
  LET old == actors[sid]
      rec == IF snap = NoSnapshot THEN old
             ELSE [old EXCEPT !.version = @ + 1, !.snapshot = snap]
  IN
  /\ old # NoActor
  /\ snap # NoSnapshot => old.version < MaxVersions
  /\ actors' = [actors EXCEPT ![sid] = rec]
  /\ Emit(sid, old)
  /\ UNCHANGED <<generations, request, overdue, closed>>

\* updateSnapshot: only a snapshot object counts as a new version, but the
\* change is emitted either way.
UpdateSnapshot(sid, snap) ==
  LET old == actors[sid]
      rec == IF snap = NoSnapshot THEN old
             ELSE [old EXCEPT !.version = @ + 1, !.snapshot = snap]
  IN
  /\ old # NoActor
  /\ snap # NoSnapshot => old.version < MaxVersions
  /\ actors' = [actors EXCEPT ![sid] = rec]
  /\ Emit(sid, rec)
  /\ UNCHANGED <<generations, request, overdue, closed>>

\* Variant of AddEvent: the change is emitted before the event is pushed.
AddEventEmittingFirst(sid, type) ==
  LET old == actors[sid]
      rec == [old EXCEPT !.log = Append(@, type)]
  IN
  /\ old # NoActor
  /\ Len(old.log) < MaxEvents
  /\ actors' = [actors EXCEPT ![sid] = rec]
  /\ Emit(sid, old)
  /\ UNCHANGED <<generations, request, overdue, closed>>

\* addEvent: the record gets the next sequence number.
AddEvent(sid, type) ==
  LET old == actors[sid]
      rec == [old EXCEPT !.log = Append(@, type)]
  IN
  /\ old # NoActor
  /\ Len(old.log) < MaxEvents
  /\ actors' = [actors EXCEPT ![sid] = rec]
  /\ Emit(sid, rec)
  /\ UNCHANGED <<generations, request, overdue, closed>>

\* removeActor, by the registry on a disconnect or by a host.
RemoveActor(sid, reason) ==
  /\ actors[sid] # NoActor
  /\ reason \in Removals
  /\ actors' = [actors EXCEPT ![sid] = NoActor]
  /\ EndAll({w \in pending : Subscribed /\ request[w].sid = sid}, reason)
  /\ UNCHANGED <<generations, request, afterEvent, overdue, closed>>

\* clear
ClearStore ==
  /\ actors' = [sid \in SessionId |-> NoActor]
  /\ EndAll({w \in pending : Subscribed}, "cleared")
  /\ UNCHANGED <<generations, request, afterEvent, overdue, closed>>

-----------------------------------------------------------------------------
(* Wait calls *)

\* A call that resolves at once.
Resolve(w, why, result) ==
  /\ outcome' = [outcome EXCEPT ![w] = why]
  /\ cursor' = [cursor EXCEPT ![w] = result]
  /\ UNCHANGED <<storeVars, pending, timers, listeners, overdue, closed>>

Unasked(w) == outcome[w] = "idle"

\* A call the waits can evaluate.
Answerable(w, sid) == Unasked(w) /\ ~closed /\ actors[sid] # NoActor

\* Input the schema refuses, a call after dispose, a signal already aborted and
\* an unknown actor, in the order the code tests them.
RefuseCall(w, sid, valid, aborted) ==
  LET rec == actors[sid]
      now == [generation |-> rec.generation, snapshot |-> rec.version,
              event |-> Len(rec.log)]
      why == IF ~valid THEN "invalid_input"
             ELSE IF closed THEN "shutdown"
             ELSE IF aborted THEN "cancelled"
             ELSE "actor_not_found"
  IN
  /\ Unasked(w)
  /\ ~valid \/ closed \/ aborted \/ rec = NoActor
  /\ Resolve(w, why, IF valid /\ rec # NoActor THEN now ELSE NoCursor)
  /\ UNCHANGED <<request, afterEvent>>

\* A cursor of another registration, or ahead of the record's counters.
BadCursor(rec, after) ==
  /\ after # NoCursor
  /\ \/ after.generation # rec.generation
     \/ after.snapshot > rec.version
     \/ after.event > Len(rec.log)

\* wait(): a call on a known actor. It answers at once when its cursor is bad,
\* when evaluate() has a verdict, when there is no time (timeoutMs 0, or the
\* deadline passed while evaluating) or no slot; otherwise it takes a slot, a
\* timer and an abort listener.
CallWait(w, sid, kind, want, after, zero, late) ==
  LET rec   == actors[sid]
      from  == IF after = NoCursor THEN Len(rec.log) ELSE after.event
      newer == IF after = NoCursor THEN -1 ELSE after.snapshot
      q == [kind |-> kind, sid |-> sid, record |-> rec.generation,
            want |-> want, from |-> from, newer |-> newer]
      verdict ==
        IF BadCursor(rec, after) THEN "invalid_cursor"
        ELSE IF Verdict(rec, q, from) # "waiting" THEN Verdict(rec, q, from)
        ELSE IF zero THEN "timeout"
        ELSE IF Cardinality(pending) >= MaxWaiters THEN "capacity_exceeded"
        ELSE IF late THEN "timeout"
        ELSE "waiting"
  IN
  /\ Answerable(w, sid)
  /\ request' = [request EXCEPT ![w] = q]
  /\ afterEvent' = [afterEvent EXCEPT ![w] =
       IF kind = "event" /\ verdict \notin {"invalid_cursor", "history_lost"}
         THEN Len(rec.log) ELSE from]
  /\ IF verdict = "waiting"
       THEN /\ pending' = pending \cup {w}
            /\ timers' = timers \cup {w}
            /\ listeners' = listeners \cup {w}
            /\ outcome' = [outcome EXCEPT ![w] = "waiting"]
            /\ UNCHANGED <<storeVars, overdue, cursor, closed>>
       ELSE Resolve(w, verdict, ResultCursor(rec, q, from, verdict))

\* The deadline goes by; the timer callback may run later.
DeadlinePasses(w) ==
  /\ w \in pending \ overdue
  /\ overdue' = overdue \cup {w}
  /\ UNCHANGED <<storeVars, request, afterEvent, pending, timers, listeners,
                 outcome, cursor, closed>>

\* Variant of TimerFires: the timer looks for a match and gives up.
TimerChecks(w) ==
  /\ w \in timers \cap overdue
  /\ timers' = timers \ {w}
  /\ UNCHANGED <<storeVars, request, afterEvent, pending, listeners, overdue,
                 outcome, cursor, closed>>

\* The timer callback of an overdue wait.
TimerFires(w) ==
  /\ w \in timers \cap overdue
  /\ EndAll({w}, "timeout")
  /\ UNCHANGED <<storeVars, request, afterEvent, overdue, closed>>

\* The MCP client cancels the request.
Abort(w) ==
  /\ w \in listeners
  /\ EndAll({w}, "cancelled")
  /\ UNCHANGED <<storeVars, request, afterEvent, overdue, closed>>

\* dispose(): the MCP server closes.
Dispose ==
  /\ ~closed
  /\ closed' = TRUE
  /\ EndAll(Wait, "shutdown")
  /\ UNCHANGED <<storeVars, request, afterEvent, overdue>>


-----------------------------------------------------------------------------

StoreStep(sid) ==
  \/ \E snap \in Snapshot \cup {NoSnapshot} :
       RegisterActor(sid, snap) \/ UpdateSnapshot(sid, snap)
  \/ \E type \in EventType : AddEvent(sid, type)
  \/ \E reason \in Removals : RemoveActor(sid, reason)

\* Cursors a caller can hold: any counters of a generation that was registered.
Cursors ==
  {NoCursor} \cup [generation : 1 .. generations, snapshot : 0 .. MaxVersions,
                   event : 0 .. MaxEvents]

CallStep(w, sid) ==
  \/ \E valid, aborted \in BOOLEAN : RefuseCall(w, sid, valid, aborted)
  \/ \E after \in Cursors, zero, late \in BOOLEAN :
       \/ \E type \in EventType :
            CallWait(w, sid, "event", type, after, zero, late)
       \/ \E want \in Predicate :
            CallWait(w, sid, "state", want, after, zero, late)

WaitStep(w) ==
  \/ \E sid \in SessionId : CallStep(w, sid)
  \/ DeadlinePasses(w)
  \/ TimerFires(w)
  \/ Abort(w)

Next ==
  \/ \E sid \in SessionId : StoreStep(sid)
  \/ \E w \in Wait : WaitStep(w)
  \/ ClearStore
  \/ Dispose

\* Clocks advance and the event loop runs expired timers.
Fairness == \A w \in Wait : WF_vars(DeadlinePasses(w)) /\ WF_vars(TimerFires(w))

SafeSpec == Init /\ [][Next]_vars
Spec == SafeSpec /\ Fairness

-----------------------------------------------------------------------------
(* Safety *)

\* A wait holds its slot, its timer and its abort listener from the call to its
\* end, whichever of the nine endings comes first; the slots are bounded, and after
\* dispose no call holds or gets one.
SlotsMatch ==
  /\ timers = pending /\ listeners = pending
  /\ \A w \in Wait : outcome[w] = "waiting" <=> w \in pending
  /\ Cardinality(pending) <= MaxWaiters
  /\ closed => pending = {}

\* No wait listens to a record the store has dropped or replaced.
WaitsOnStoredRecord ==
  \A w \in pending :
    /\ actors[request[w].sid] # NoActor
    /\ actors[request[w].sid].generation = request[w].record

\* No lost wakeup: while a wait is pending, nothing observed since its baseline
\* matches it, not even an event that has been evicted since.
NoMissedMatch ==
  \A w \in pending :
    LET q == request[w]
        rec == actors[q.sid]
    IN IF q.kind = "event"
         THEN \A n \in q.from + 1 .. Len(rec.log) : rec.log[n] # q.want
         ELSE ~(/\ rec.snapshot # NoSnapshot /\ rec.snapshot \in q.want
                /\ rec.version > q.newer)

\* What a pending wait rests on: its slot, timer and listener, a record that is
\* still the store's, and that it has missed nothing of it.
PendingWaits == TypeOK /\ SlotsMatch /\ WaitsOnStoredRecord /\ NoMissedMatch

\* A cursor a call returned stays valid as a baseline of that registration.
CursorsStayUsable ==
  \A w \in Wait, sid \in SessionId :
    /\ cursor[w] # NoCursor
    /\ actors[sid] # NoActor
    /\ actors[sid].generation = cursor[w].generation
    => ~BadCursor(actors[sid], cursor[w])

-----------------------------------------------------------------------------
(* Action properties *)

\* A call is answered once.
SettledOnce ==
  [][\A w \in Wait :
       outcome[w] \notin {"idle", "waiting"} => outcome'[w] = outcome[w]]_vars

Matches(w) == outcome'[w] = "matched" /\ outcome[w] # "matched"

\* A matched event is the first of its type after the baseline in the whole
\* history, retained or not, and the returned cursor points at it.
FirstMatch ==
  [][\A w \in Wait : Matches(w) /\ request'[w].kind = "event" =>
       LET q == request'[w]
           log == actors'[q.sid].log
           n == cursor'[w].event
       IN /\ n \in q.from + 1 .. Len(log) /\ log[n] = q.want
          /\ \A m \in q.from + 1 .. n - 1 : log[m] # q.want]_vars

\* A matched snapshot is the current one, and newer than the caller's cursor.
NewerSnapshotOnly ==
  [][\A w \in Wait : Matches(w) /\ request'[w].kind = "state" =>
       LET q == request'[w]
           rec == actors'[q.sid]
       IN /\ rec.snapshot \in q.want /\ rec.version > q.newer
          /\ cursor'[w].snapshot = rec.version]_vars

\* Eviction can only cost a call its baseline before it starts to wait: a
\* pending wait sees every event before the ring drops it.
PendingLosesNoHistory ==
  [][\A w \in pending : outcome'[w] # "history_lost"]_vars

-----------------------------------------------------------------------------
(* Liveness *)

\* Every wait ends, at the latest by its timeout.
WaitsEnd == \A w \in Wait : outcome[w] = "waiting" ~> outcome[w] # "waiting"

=============================================================================
