------------------------------ MODULE ActorHistory ------------------------------
(***************************************************************************)
(* One actor of the store as its readers see it: the current snapshot, the  *)
(* timeline kept in a ring (transitionHistory) and the MCP notifications    *)
(* that tell a client to read again (actor-store.ts, actor-snapshot.ts,     *)
(* get-state-timeline.ts, mcp-server.ts under src/src).                     *)
(*                                                                          *)
(* Output and error, which are treated alike once an error is sanitized,    *)
(* are one field, "result"; undefined and null are both Null.               *)
(***************************************************************************)
EXTENDS RingBuffer, FiniteSets

CONSTANTS
  Snapshot,  \* snapshots as the adapter sends them: fields present -> values
  Null

VARIABLES
  stored,       \* the actor is in the store; the ring is its transitionHistory
  current,      \* currentSnapshot, Null until there is one
  initial,      \* the snapshot it was registered with
  connected,    \* "no", "yes", or "disposed": the MCP client
  notices,      \* notifications under way, "list" and "snapshot"
  listRead, snapshotRead  \* the client has read what is stored now

ring == <<buffer, head, count, totalAdded>>
client == <<connected, notices, listRead, snapshotRead>>
historyVars == <<ring, client, stored, current, initial>>

Field == {"status", "value", "context", "result"}

HistoryInit ==
  /\ Init
  /\ stored = FALSE /\ current = Null /\ initial = Null
  /\ connected = "no" /\ notices = {} /\ listRead = TRUE /\ snapshotRead = TRUE

-----------------------------------------------------------------------------
(* Snapshots. *)

Of(snapshot, field, default) ==
  IF snapshot # Null /\ field \in DOMAIN snapshot THEN snapshot[field] ELSE default

\* Fields that are missing keep their value; a result belongs to its snapshot.
readSnapshot(incoming, previous) ==
  [field \in Field |->
    CASE field = "status" -> Of(incoming, field, Of(previous, field, "active"))
      [] field = "result" -> Of(incoming, field, Null)
      [] OTHER -> Of(incoming, field, Of(previous, field, Null))]

\* Variant of Changes: a result alone is no change.
ChangesWithoutResult(previous, next) ==
  {f \in Field \ {"result"} : Of(previous, f, Null) # next[f]}

Changes(previous, next) == {f \in Field : Of(previous, f, Null) # next[f]}

Transition(previous, next) ==
  LET changes == Changes(previous, next)
  IN  [type |-> IF "value" \in changes THEN "state"
                ELSE IF changes # {"context"} THEN "lifecycle" ELSE "context",
       changes |-> changes,
       from |-> [f \in {"value", "status"} |-> Of(previous, f, Null)],
       to |-> [f \in {"value", "status", "result"} |-> next[f]]]

\* The values a field can get, and the snapshots a store can hold.
Value(field) ==
  {IF field = "status" THEN "active" ELSE Null}
  \cup {s[field] : s \in {r \in Snapshot : field \in DOMAIN r}}
Whole == {s \in [Field -> UNION {Value(f) : f \in Field}] : \A f \in Field : s[f] \in Value(f)}

\* A status is a string, null is no snapshot, and the ring takes any transition.
ASSUME SnapshotAssumption == Null \notin Value("status") /\ Null \notin Whole \cup Snapshot
ASSUME ItemAssumption ==
  \A p \in Whole \cup {Null}, s \in Snapshot : Transition(p, readSnapshot(s, p)) \in Item

\* What the snapshot resource shows of an actor (its cursor and times aside).
actorSnapshotData ==
  [f \in Field |-> IF f = "status" THEN Of(current, f, "unknown") ELSE Of(current, f, Null)]

-----------------------------------------------------------------------------
(* The store, with the callbacks the MCP server has put on it. *)

\* Variant of Notifies: of stored actors only, so nothing tells of a new one.
NotifiesOfStored == connected = "yes" /\ stored

Notifies == connected = "yes"

Notify(kinds) == notices' = IF Notifies THEN notices \cup kinds ELSE notices

\* The initial snapshot is no transition.
RegisterActor(incoming) ==
  /\ ~stored /\ stored' = TRUE
  /\ current' = IF incoming = Null THEN Null ELSE readSnapshot(incoming, Null)
  /\ initial' = current'
  /\ clear
  /\ Notify({"list", "snapshot"}) /\ listRead' = FALSE /\ snapshotRead' = FALSE
  /\ UNCHANGED connected

\* A snapshot that is no object changes nothing, but is announced all the same.
UpdateSnapshot(incoming) ==
  /\ stored
  /\ IF incoming = Null THEN UNCHANGED <<current, ring>>
     ELSE /\ current' = readSnapshot(incoming, current)
          /\ IF Changes(current, current') = {} THEN UNCHANGED ring
             ELSE push(Transition(current, current'))
  /\ Notify({"snapshot"})
  /\ snapshotRead' = (snapshotRead /\ actorSnapshotData' = actorSnapshotData)
  /\ UNCHANGED <<stored, initial, connected, listRead>>

\* removeActor and clear tell of the list alone.
RemoveActor ==
  /\ stored /\ stored' = FALSE /\ current' = Null /\ initial' = Null
  /\ clear
  /\ Notify({"list"}) /\ listRead' = FALSE
  /\ UNCHANGED <<connected, snapshotRead>>

getRecent(limit) ==
  IF limit >= Len(Array) THEN Array
  ELSE SubSeq(Array, Len(Array) - limit + 1, Len(Array))

getStateTimeline(limit) ==
  [currentState |-> Of(current, "value", Null),
   totalTransitions |-> totalAdded,
   transitions |-> getRecent(limit)]

-----------------------------------------------------------------------------
(* The MCP client: it reads everything when it connects, and again whatever a *)
(* notification is about.                                                     *)

Connect ==
  /\ connected = "no" /\ connected' = "yes"
  /\ listRead' = TRUE /\ snapshotRead' = TRUE
  /\ UNCHANGED <<notices, stored, current, initial, ring>>

Receives(kind) ==
  /\ kind \in notices /\ notices' = notices \ {kind}
  /\ listRead' = (listRead \/ kind = "list")
  /\ snapshotRead' = (snapshotRead \/ kind = "snapshot")
  /\ UNCHANGED <<connected, stored, current, initial, ring>>

\* close() and onclose: the callbacks are removed for good.
Dispose ==
  /\ connected # "disposed" /\ connected' = "disposed" /\ notices' = {}
  /\ UNCHANGED <<listRead, snapshotRead, stored, current, initial, ring>>

HistoryNext ==
  \/ \E incoming \in Snapshot \cup {Null} : RegisterActor(incoming) \/ UpdateSnapshot(incoming)
  \/ RemoveActor \/ Connect \/ Dispose
  \/ \E kind \in {"list", "snapshot"} : Receives(kind)

HistorySpec == HistoryInit /\ [][HistoryNext]_historyVars

-----------------------------------------------------------------------------

\* The timeline tells one story: each entry goes on from where the one before
\* ended, the last ends where the actor is, and the first of a timeline that has
\* lost nothing starts from the registration. Only real changes are entries, and
\* only entries change the actor's state, for every limit a caller asks for.
TimelineChains ==
  \A limit \in 1 .. capacity + 1 :
    LET timeline == getStateTimeline(limit)
        t == timeline.transitions
        n == Len(t)
        now == [f \in {"value", "status", "result"} |-> Of(current, f, Null)]
    IN  /\ n = 0 \/ n = limit \/ n + Evicted = timeline.totalTransitions
        /\ \A i \in 1 .. n :
             /\ \A f \in {"value", "status"} :
                  f \in t[i].changes <=> t[i].from[f] # t[i].to[f]
             /\ t[i].changes # {}
             /\ t[i].type = "state" <=> t[i].from["value"] # t[i].to["value"]
             /\ i < n => \A f \in {"value", "status"} : t[i].to[f] = t[i + 1].from[f]
        /\ IF n > 0 THEN t[n].to = now ELSE current = initial
        /\ timeline.totalTransitions = n /\ n > 0 =>
             \A f \in {"value", "status"} : t[1].from[f] = Of(initial, f, Null)
        /\ timeline.currentState = now["value"]

\* A connected client has read the list and the actor's state as they are, or is
\* being told that it has not.
ClientIsTold ==
  connected = "yes" =>
    /\ listRead \/ "list" \in notices
    /\ stored /\ ~snapshotRead => "snapshot" \in notices

=============================================================================
