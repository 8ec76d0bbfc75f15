--------------------------- MODULE ActorHistoryProofs ---------------------------
(***************************************************************************)
(* Proofs about RingBuffer and ActorHistory for every capacity and any      *)
(* snapshots an adapter may send. A ring is an implementation of            *)
(* RecentHistory; its inductive invariant says where the oldest item is: a  *)
(* ring that is not full has been filled from slot 0 since it was cleared.  *)
(* Every step of an actor is a step of its ring, so that what is shown of a *)
(* ring holds of the timeline; and every entry of the ring is a real change *)
(* that goes on from the entry before it.                                   *)
(***************************************************************************)
EXTENDS ActorHistory, SequenceTheorems, TLAPS

-----------------------------------------------------------------------------
(* Any ring. *)

\* What every step preserves.
RingInv ==
  /\ TypeOK
  /\ count < capacity => head = count /\ totalAdded = count
  /\ count = capacity => totalAdded >= capacity

\* An index of at most two laps wraps by a subtraction.
LEMMA Wrap ==
  \A n \in 0 .. 2 * capacity - 1 :
    Wrapped(n) = IF n < capacity THEN n ELSE n - capacity
BY CapacityAssumption DEF Wrapped

LEMMA RingInit == Init => RingInv
BY CapacityAssumption, BoundAssumption
   DEF CapacityAssumption, BoundAssumption, Init, RingInv, TypeOK, Slot

LEMMA RingNext == RingInv /\ [Next]_vars => RingInv'
<1> SUFFICES ASSUME RingInv, [Next]_vars PROVE RingInv'
  OBVIOUS
<1> USE CapacityAssumption, BoundAssumption
        DEF CapacityAssumption, BoundAssumption, RingInv, TypeOK, Slot
<1>1. CASE clear
  BY <1>1 DEF clear
<1>2. ASSUME NEW item \in Item, push(item) PROVE RingInv'
  <2>1. head' = IF head + 1 < capacity THEN head + 1 ELSE 0
    <3>1. head + 1 \in 0 .. 2 * capacity - 1
      OBVIOUS
    <3>2. Wrapped(head + 1) =
            IF head + 1 < capacity THEN head + 1 ELSE head + 1 - capacity
      BY <3>1, Wrap
    <3> QED  BY <1>2, <3>2 DEF push
  <2>2. buffer' \in [Slot -> Item \cup {Hole}]
    BY <1>2 DEF push
  <2> QED  BY <1>2, <2>1, <2>2 DEF push
<1>3. CASE UNCHANGED vars
  BY <1>3 DEF vars
<1> QED  BY <1>1, <1>2, <1>3 DEF Next

\* The ring's state stays well-formed: the size never exceeds the capacity and
\* the head is always a slot.
THEOREM TypeCorrect == Spec => []TypeOK
<1>1. RingInv => TypeOK
  BY DEF RingInv
<1> QED  BY RingInit, RingNext, <1>1, PTL DEF Spec

LEMMA ArrayLength ==
  RingInv => Array \in Seq(Item \cup {Hole}) /\ Len(Array) = count
<1> SUFFICES ASSUME RingInv
             PROVE  Array \in Seq(Item \cup {Hole}) /\ Len(Array) = count
  OBVIOUS
<1> USE CapacityAssumption DEF CapacityAssumption, RingInv, TypeOK, Slot
<1>1. Start \in Slot
  BY DEF Start
<1>2. ASSUME NEW i \in 1 .. count
      PROVE  buffer[Wrapped(Start + i - 1)] \in Item \cup {Hole}
  <2>1. Start + i - 1 \in 0 .. 2 * capacity - 1
    BY <1>1
  <2>2. Wrapped(Start + i - 1) \in Slot
    BY <2>1, Wrap
  <2> QED  BY <2>2
<1> QED  BY <1>2 DEF Array

\* total - size is the number of evicted items, and toArray returns the rest.
THEOREM EvictedCorrect == Spec => []EvictedCounts
<1>1. RingInv => EvictedCounts
  <2> SUFFICES ASSUME RingInv PROVE EvictedCounts
    OBVIOUS
  <2>1. Len(Array) = count
    BY ArrayLength
  <2> QED  BY <2>1, CapacityAssumption
           DEF CapacityAssumption, RingInv, TypeOK, EvictedCounts, Evicted
<1> QED  BY RingInit, RingNext, <1>1, PTL DEF Spec

\* Until the ring is full its items lie in slots 0 .. count - 1.
LEMMA ArrayWhileFilling ==
  RingInv /\ count < capacity =>
    \A i \in 1 .. count : Array[i] = buffer[i - 1]
<1> SUFFICES ASSUME RingInv, count < capacity, NEW i \in 1 .. count
             PROVE  Array[i] = buffer[i - 1]
  OBVIOUS
<1> USE CapacityAssumption DEF CapacityAssumption, RingInv, TypeOK
<1>1. Wrapped(Start + i - 1) = i - 1
  <2>1. Start + i - 1 = i - 1 /\ i - 1 \in 0 .. 2 * capacity - 1 /\ i - 1 < capacity
    BY DEF Start
  <2> QED  BY <2>1, Wrap
<1> QED  BY <1>1 DEF Array

\* In a full ring they start at the head.
LEMMA ArrayWhenFull ==
  RingInv /\ count = capacity =>
    \A i \in 1 .. capacity :
      Array[i] = buffer[IF head + i - 1 < capacity THEN head + i - 1
                        ELSE head + i - 1 - capacity]
<1> SUFFICES ASSUME RingInv, count = capacity, NEW i \in 1 .. capacity
             PROVE  Array[i] = buffer[IF head + i - 1 < capacity THEN head + i - 1
                                      ELSE head + i - 1 - capacity]
  OBVIOUS
<1> USE CapacityAssumption DEF CapacityAssumption, RingInv, TypeOK, Slot
<1>1. head + i - 1 \in 0 .. 2 * capacity - 1
  OBVIOUS
<1>2. Start = head
  BY DEF Start
<1>3. Wrapped(Start + i - 1) =
        IF head + i - 1 < capacity THEN head + i - 1 ELSE head + i - 1 - capacity
  BY <1>1, <1>2, Wrap
<1> QED  BY <1>3 DEF Array

\* A push maps to an Add of the history.
LEMMA PushAdds ==
  ASSUME RingInv, RingInv', NEW item \in Item, push(item)
  PROVE  Promise!Add(item)
<1>e. /\ (RingInv => Array \in Seq(Item \cup {Hole}) /\ Len(Array) = count)'
      /\ (RingInv /\ count < capacity =>
            \A i \in 1 .. count : Array[i] = buffer[i - 1])'
      /\ (RingInv /\ count = capacity =>
            \A i \in 1 .. capacity :
              Array[i] = buffer[IF head + i - 1 < capacity THEN head + i - 1
                                ELSE head + i - 1 - capacity])'
  BY ArrayLength, ArrayWhileFilling, ArrayWhenFull, PTL
<1>f. RingInv'
  OBVIOUS
<1> USE CapacityAssumption DEF CapacityAssumption, RingInv, TypeOK, Slot
<1>a. Array \in Seq(Item \cup {Hole}) /\ Len(Array) = count
  BY ArrayLength
<1>b. Array' \in Seq(Item \cup {Hole}) /\ Len(Array') = count'
  BY <1>e, <1>f
<1>c. head' = IF head + 1 < capacity THEN head + 1 ELSE 0
  <2>1. head + 1 \in 0 .. 2 * capacity - 1
    OBVIOUS
  <2>2. Wrapped(head + 1) =
          IF head + 1 < capacity THEN head + 1 ELSE head + 1 - capacity
    BY <2>1, Wrap
  <2> QED  BY <2>2 DEF push
<1>d. buffer' = [buffer EXCEPT ![head] = item] /\ totalAdded' = totalAdded + 1
  BY DEF push
<1>1. CASE count < capacity
  <2>1. count' = count + 1 /\ head = count
    BY <1>1 DEF push
  <2>2. ASSUME NEW i \in 1 .. count + 1
        PROVE  Array'[i] = buffer'[i - 1]
    <3>1. CASE count + 1 < capacity
      BY <2>1, <3>1, <1>e, <1>f
    <3>2. CASE count + 1 = capacity
      <4>1. Array'[i] = buffer'[IF head' + i - 1 < capacity THEN head' + i - 1
                                ELSE head' + i - 1 - capacity]
        BY <2>1, <3>2, <1>e, <1>f
      <4>2. head' = 0
        BY <1>c, <2>1, <3>2
      <4> QED  BY <4>1, <4>2, <3>2
    <3> QED  BY <1>1, <3>1, <3>2
  <2>3. ASSUME NEW i \in 1 .. count + 1
        PROVE  Array'[i] = Append(Array, item)[i]
    <3>1. CASE i = count + 1
      <4>1. Array'[i] = item
        BY <1>d, <2>1, <2>2, <3>1
      <4> QED  BY <4>1, <1>a, <3>1
    <3>2. CASE i # count + 1
      <4>1. i \in 1 .. count
        BY <3>2
      <4>2. Array[i] = buffer[i - 1]
        BY <1>1, <4>1, ArrayWhileFilling
      <4>3. buffer'[i - 1] = buffer[i - 1]
        BY <1>d, <2>1, <4>1
      <4>4. Append(Array, item)[i] = Array[i]
        BY <1>a, <4>1
      <4> QED  BY <2>2, <4>2, <4>3, <4>4
    <3> QED  BY <3>1, <3>2
  <2>4. Append(Array, item) \in Seq(Item \cup {Hole})
        /\ Len(Append(Array, item)) = count + 1
    BY <1>a
  <2>5. Array' = Append(Array, item)
    BY <1>b, <2>1, <2>3, <2>4
  <2> QED  BY <1>1, <1>a, <1>d, <2>5 DEF Promise!Add
<1>2. CASE count = capacity
  <2>1. count' = capacity
    BY <1>2 DEF push
  <2>2. ASSUME NEW i \in 1 .. capacity
        PROVE  Array'[i] = Append(Tail(Array), item)[i]
    <3>1. Array'[i] = buffer'[IF head' + i - 1 < capacity THEN head' + i - 1
                              ELSE head' + i - 1 - capacity]
      BY <2>1, <1>e, <1>f
    <3>2. CASE i = capacity
      <4>1. Array'[i] = buffer'[head]
        BY <3>1, <3>2, <1>c
      <4>2. Append(Tail(Array), item)[capacity] = item
        BY <1>a, <1>2
      <4> QED  BY <4>1, <4>2, <3>2, <1>d
    <3>3. CASE i # capacity
      <4>1. i + 1 \in 1 .. capacity
        BY <3>3
      <4>2. Array[i + 1] = buffer[IF head + i < capacity THEN head + i
                                  ELSE head + i - capacity]
        <5>1. Array[i + 1] = buffer[IF head + (i + 1) - 1 < capacity
                                      THEN head + (i + 1) - 1
                                    ELSE head + (i + 1) - 1 - capacity]
          BY <1>2, <4>1, ArrayWhenFull
        <5> QED  BY <5>1
      <4>3. Array'[i] = buffer'[IF head + i < capacity THEN head + i
                                ELSE head + i - capacity]
        BY <3>1, <1>c
      <4>4. (IF head + i < capacity THEN head + i ELSE head + i - capacity)
              \in Slot \ {head}
        BY <4>1
      <4>5. Append(Tail(Array), item)[i] = Array[i + 1]
        BY <1>a, <1>2, <4>1
      <4> QED  BY <4>2, <4>3, <4>4, <4>5, <1>d
    <3> QED  BY <3>2, <3>3
  <2>3. /\ Append(Tail(Array), item) \in Seq(Item \cup {Hole})
        /\ Len(Append(Tail(Array), item)) = capacity
    BY <1>a, <1>2
  <2>4. Array' = Append(Tail(Array), item)
    BY <1>b, <2>1, <2>2, <2>3
  <2> QED  BY <1>2, <1>a, <1>d, <2>4 DEF Promise!Add
<1> QED  BY <1>1, <1>2

\* Readers of the ring see exactly the newest items in the order they were
\* added, whatever the capacity and however often it has wrapped.
THEOREM RingKeepsHistory == Spec => ImplementsHistory
<1>1. Init => Promise!Init
  <2> SUFFICES ASSUME Init PROVE Promise!Init
    OBVIOUS
  <2>1. RingInv
    BY RingInit
  <2>2. Array \in Seq(Item \cup {Hole}) /\ Len(Array) = 0
    BY <2>1, ArrayLength DEF Init
  <2> QED  BY <2>2 DEF Promise!Init, Init
<1>2. RingInv /\ RingInv' /\ [Next]_vars => [Promise!Next]_(Promise!vars)
  <2> SUFFICES ASSUME RingInv, RingInv', [Next]_vars
               PROVE  [Promise!Next]_(Promise!vars)
    OBVIOUS
  <2>1. CASE clear
    <3>1. (RingInv => Array \in Seq(Item \cup {Hole}) /\ Len(Array) = count)'
      BY ArrayLength, PTL
    <3>2. Array' = <<>> /\ totalAdded' = 0
      BY <2>1, <3>1 DEF clear
    <3> QED  BY <3>2 DEF Promise!Next, Promise!Reset
  <2>2. ASSUME NEW item \in Item, push(item) PROVE Promise!Next
    BY <2>2, PushAdds DEF Promise!Next
  <2>3. CASE UNCHANGED vars
    BY <2>3 DEF vars, Promise!vars, Array, Start
  <2> QED  BY <2>1, <2>2, <2>3 DEF Next
<1> QED  BY <1>1, <1>2, RingInit, RingNext, PTL DEF Spec, ImplementsHistory, Promise!History

-----------------------------------------------------------------------------
(* An actor's history. *)

HistoryTypeOK ==
  /\ current \in Whole \cup {Null}
  /\ initial \in Whole \cup {Null}
  /\ listRead \in BOOLEAN /\ snapshotRead \in BOOLEAN

\* What an entry says of itself.
Told(entry) ==
  /\ \A f \in {"value", "status"} : f \in entry.changes <=> entry.from[f] # entry.to[f]
  /\ entry.changes # {}
  /\ entry.type = "state" <=> entry.from["value"] # entry.to["value"]

Follows(entry, next) == \A f \in {"value", "status"} : entry.to[f] = next.from[f]

StartsAt(entry, snapshot) == \A f \in {"value", "status"} : entry.from[f] = Of(snapshot, f, Null)

EndsAt(snapshot) == [f \in {"value", "status", "result"} |-> Of(snapshot, f, Null)]

\* A story that begins at the snapshot "first", unless its beginning is lost,
\* and ends at the snapshot "last".
Story(entries, total, first, last) ==
  LET n == Len(entries)
  IN  /\ \A i \in 1 .. n : Told(entries[i])
      /\ \A i \in 1 .. n - 1 : Follows(entries[i], entries[i + 1])
      /\ n > 0 => entries[n].to = EndsAt(last)
      /\ n = 0 => last = first
      /\ n > 0 /\ total = n => StartsAt(entries[1], first)

\* What every step preserves.
HistoryInv ==
  /\ RingInv
  /\ HistoryTypeOK
  /\ Story(Array, totalAdded, initial, current)
  /\ ClientIsTold

-----------------------------------------------------------------------------
(* Snapshots. *)

\* Reading a snapshot gives one that the store can hold.
LEMMA ReadIsWhole ==
  ASSUME NEW incoming \in Snapshot, NEW previous \in Whole \cup {Null}
  PROVE  readSnapshot(incoming, previous) \in Whole
<1> DEFINE next == readSnapshot(incoming, previous)
<1>1. ASSUME NEW f \in Field PROVE next[f] \in Value(f)
  <2>1. incoming # Null
    BY SnapshotAssumption DEF SnapshotAssumption
  <2>2. f \in DOMAIN incoming => incoming[f] \in Value(f)
    BY DEF Value
  <2>3. previous # Null => f \in DOMAIN previous /\ previous[f] \in Value(f)
    BY DEF Whole
  <2>4. CASE f = "status"
    <3>1. next[f] = Of(incoming, f, Of(previous, f, "active"))
      BY <2>4, Zenon DEF readSnapshot
    <3>2. "active" \in Value(f)
      BY <2>4 DEF Value
    <3> QED  BY <2>1, <2>2, <2>3, <3>1, <3>2 DEF Of
  <2>5. CASE f # "status"
    <3>1. Null \in Value(f)
      BY <2>5 DEF Value
    <3>2. \/ next[f] = Of(incoming, f, Null)
          \/ next[f] = Of(incoming, f, Of(previous, f, Null))
      <4>1. CASE f = "result"
        BY <2>5, <4>1, Zenon DEF readSnapshot
      <4>2. CASE f # "result"
        BY <2>5, <4>2, Zenon DEF readSnapshot
      <4> QED  BY <4>1, <4>2
    <3> QED  BY <2>1, <2>2, <2>3, <3>1, <3>2 DEF Of
  <2> QED  BY <2>4, <2>5
<1>2. next = [f \in Field |-> next[f]]
  BY Zenon DEF readSnapshot
<1> HIDE DEF next
<1>3. next \in [Field -> UNION {Value(f) : f \in Field}]
  BY <1>1, <1>2
<1>4. next \in Whole
  BY <1>1, <1>3 DEF Whole
<1> QED  BY <1>4 DEF next

\* Without a change the store keeps the snapshot it has.
LEMMA NoChange ==
  ASSUME NEW previous \in Whole \cup {Null}, NEW next \in Whole, Changes(previous, next) = {}
  PROVE  next = previous
<1>1. \A f \in Field : Of(previous, f, Null) = next[f]
  BY DEF Changes
<1>2. previous # Null
  <2>1. next["status"] \in Value("status")
    BY DEF Whole, Field
  <2>2. next["status"] # Null
    BY <2>1, SnapshotAssumption DEF SnapshotAssumption
  <2> QED  BY <1>1, <2>2 DEF Of, Field
<1>3. \A f \in Field : previous[f] = next[f]
  BY <1>1, <1>2 DEF Of, Whole
<1> QED  BY <1>2, <1>3 DEF Whole

\* A transition is an entry from one snapshot to the next.
LEMMA TransitionTells ==
  ASSUME NEW previous \in Whole \cup {Null}, NEW next \in Whole, Changes(previous, next) # {}
  PROVE  /\ Told(Transition(previous, next))
         /\ StartsAt(Transition(previous, next), previous)
         /\ Transition(previous, next).to = EndsAt(next)
<1> DEFINE entry == Transition(previous, next)
<1>1. entry.changes = Changes(previous, next)
  BY DEF Transition
<1>2. entry.from = [f \in {"value", "status"} |-> Of(previous, f, Null)]
  BY DEF Transition
<1>3. entry.to = [f \in {"value", "status", "result"} |-> next[f]]
  BY DEF Transition
<1>4. entry.type = "state" <=> "value" \in Changes(previous, next)
  BY DEF Transition
<1>5. next # Null /\ DOMAIN next = Field
  BY SnapshotAssumption DEF SnapshotAssumption, Whole
<1>6. \A f \in Field : Of(next, f, Null) = next[f]
  BY <1>5 DEF Of
<1>7. \A f \in {"value", "status"} : f \in Field /\ (f \in Changes(previous, next) <=> Of(previous, f, Null) # next[f])
  BY DEF Changes, Field
<1> HIDE DEF entry
<1>8. Told(entry)
  BY <1>1, <1>2, <1>3, <1>4, <1>7 DEF Told
<1>9. StartsAt(entry, previous)
  BY <1>2 DEF StartsAt
<1>10. entry.to = EndsAt(next)
  BY <1>3, <1>6 DEF EndsAt, Field
<1> QED  BY <1>8, <1>9, <1>10 DEF entry
-----------------------------------------------------------------------------
(* The ring under the store. *)

\* The ring takes the transitions of an actor whose snapshots are whole.
LEMMA UpdatePushes ==
  ASSUME HistoryTypeOK, NEW incoming \in Snapshot, UpdateSnapshot(incoming)
  PROVE  /\ current' = readSnapshot(incoming, current)
         /\ current' \in Whole
         /\ Transition(current, current') \in Item
         /\ Changes(current, current') = {} => UNCHANGED ring
         /\ Changes(current, current') # {} => push(Transition(current, current'))
<1>1. incoming # Null
  BY SnapshotAssumption DEF SnapshotAssumption
<1>2. current' = readSnapshot(incoming, current)
  BY <1>1, Zenon DEF UpdateSnapshot
<1>3. current' \in Whole
  BY <1>2, ReadIsWhole DEF HistoryTypeOK
<1>4. Transition(current, current') \in Item
  BY <1>2, ItemAssumption DEF HistoryTypeOK, ItemAssumption
<1>5. /\ Changes(current, current') = {} => UNCHANGED ring
      /\ Changes(current, current') # {} => push(Transition(current, current'))
  BY <1>1, Zenon DEF UpdateSnapshot
<1> QED  BY <1>2, <1>3, <1>4, <1>5

\* Every step of the actor is a step of its ring, or leaves it alone.
LEMMA StepOfRing ==
  HistoryTypeOK /\ [HistoryNext]_historyVars => [Next]_vars
<1> SUFFICES ASSUME HistoryTypeOK, [HistoryNext]_historyVars PROVE [Next]_vars
  OBVIOUS
<1>1. ASSUME NEW incoming \in Snapshot \cup {Null}, RegisterActor(incoming) PROVE [Next]_vars
  BY <1>1 DEF RegisterActor, Next
<1>2. ASSUME NEW incoming \in Snapshot \cup {Null}, UpdateSnapshot(incoming) PROVE [Next]_vars
  <2>1. CASE incoming = Null
    <3>1. UNCHANGED ring
      BY <1>2, <2>1, Zenon DEF UpdateSnapshot
    <3> QED  BY <3>1 DEF ring, vars
  <2>2. CASE incoming \in Snapshot
    BY <1>2, <2>2, UpdatePushes DEF ring, vars, Next
  <2> QED  BY <2>1, <2>2
<1>3. CASE RemoveActor
  BY <1>3 DEF RemoveActor, Next
<1>4. CASE Connect
  BY <1>4 DEF Connect, ring, vars
<1>5. CASE Dispose
  BY <1>5 DEF Dispose, ring, vars
<1>6. ASSUME NEW kind, Receives(kind) PROVE [Next]_vars
  BY <1>6 DEF Receives, ring, vars
<1>7. CASE UNCHANGED historyVars
  BY <1>7 DEF historyVars, ring, vars
<1> QED  BY <1>1, <1>2, <1>3, <1>4, <1>5, <1>6, <1>7 DEF HistoryNext

LEMMA HistoryTypeInit == HistoryInit => HistoryTypeOK
BY DEF HistoryInit, HistoryTypeOK

LEMMA HistoryTypeNext == HistoryTypeOK /\ [HistoryNext]_historyVars => HistoryTypeOK'
<1> SUFFICES ASSUME HistoryTypeOK, [HistoryNext]_historyVars PROVE HistoryTypeOK'
  OBVIOUS
<1> USE DEF HistoryTypeOK
<1>1. ASSUME NEW incoming \in Snapshot \cup {Null}, RegisterActor(incoming) PROVE HistoryTypeOK'
  <2>1. incoming = Null => current' = Null
    BY <1>1, Zenon DEF RegisterActor
  <2>2. incoming # Null => current' = readSnapshot(incoming, Null)
    BY <1>1, Zenon DEF RegisterActor
  <2>3. current' \in Whole \cup {Null} /\ initial' = current'
    BY <1>1, <2>1, <2>2, ReadIsWhole DEF RegisterActor
  <2> QED  BY <1>1, <2>3 DEF RegisterActor
<1>2. ASSUME NEW incoming \in Snapshot \cup {Null}, UpdateSnapshot(incoming) PROVE HistoryTypeOK'
  <2>1. current' \in Whole \cup {Null}
    <3>1. CASE incoming = Null
      BY <1>2, <3>1, Zenon DEF UpdateSnapshot
    <3>2. CASE incoming \in Snapshot
      BY <1>2, <3>2, UpdatePushes
    <3> QED  BY <3>1, <3>2
  <2>2. snapshotRead' \in BOOLEAN
    BY <1>2 DEF UpdateSnapshot
  <2>3. initial' = initial /\ listRead' = listRead
    BY <1>2 DEF UpdateSnapshot
  <2> QED  BY <2>1, <2>2, <2>3
<1>3. CASE RemoveActor
  BY <1>3 DEF RemoveActor
<1>4. CASE Connect
  BY <1>4 DEF Connect
<1>5. CASE Dispose
  BY <1>5 DEF Dispose
<1>6. ASSUME NEW kind, Receives(kind) PROVE HistoryTypeOK'
  BY <1>6 DEF Receives
<1>7. CASE UNCHANGED historyVars
  BY <1>7 DEF historyVars, client
<1> QED  BY <1>1, <1>2, <1>3, <1>4, <1>5, <1>6, <1>7 DEF HistoryNext

\* The actor's transition history is a ring that is only pushed to and cleared.
THEOREM HistoryIsARing == HistorySpec => Spec
<1>1. HistoryInit => Init
  BY DEF HistoryInit
<1> QED  BY <1>1, HistoryTypeInit, HistoryTypeNext, StepOfRing, PTL DEF HistorySpec, Spec

\* The timeline keeps the newest transitions in order, however updates,
\* registrations and removals follow one another.
THEOREM TimelineIsHistory == HistorySpec => ImplementsHistory
BY HistoryIsARing, RingKeepsHistory, PTL

\* Transitions are counted when they make room, so a caller knows what is missing.
THEOREM TimelineEvictedCounts == HistorySpec => []EvictedCounts
BY HistoryIsARing, EvictedCorrect, PTL
-----------------------------------------------------------------------------
(* The client. *)

\* Whatever changes what a client has read leaves a notification under way.
LEMMA ToldNext ==
  HistoryTypeOK /\ ClientIsTold /\ [HistoryNext]_historyVars => ClientIsTold'
<1> SUFFICES ASSUME HistoryTypeOK, ClientIsTold, [HistoryNext]_historyVars PROVE ClientIsTold'
  OBVIOUS
<1> USE DEF HistoryTypeOK, ClientIsTold
<1>1. ASSUME NEW incoming \in Snapshot \cup {Null}, RegisterActor(incoming) PROVE ClientIsTold'
  BY <1>1 DEF RegisterActor, Notify, Notifies
<1>2. ASSUME NEW incoming \in Snapshot \cup {Null}, UpdateSnapshot(incoming) PROVE ClientIsTold'
  BY <1>2 DEF UpdateSnapshot, Notify, Notifies
<1>3. CASE RemoveActor
  BY <1>3 DEF RemoveActor, Notify, Notifies
<1>4. CASE Connect
  BY <1>4 DEF Connect
<1>5. CASE Dispose
  BY <1>5 DEF Dispose
<1>6. ASSUME NEW kind, Receives(kind) PROVE ClientIsTold'
  BY <1>6 DEF Receives
<1>7. CASE UNCHANGED historyVars
  BY <1>7 DEF historyVars, client
<1> QED  BY <1>1, <1>2, <1>3, <1>4, <1>5, <1>6, <1>7 DEF HistoryNext

\* A connected client never trusts what is stale unless a notification that
\* tells it to read again is under way.
THEOREM ClientIsToldCorrect == HistorySpec => []ClientIsTold
<1>1. HistoryInit => ClientIsTold
  BY DEF HistoryInit, ClientIsTold
<1> QED  BY <1>1, HistoryTypeInit, HistoryTypeNext, ToldNext, PTL DEF HistorySpec

-----------------------------------------------------------------------------
(* The story the timeline tells. *)

LEMMA EmptyStory ==
  \A total, snapshot : Story(<<>>, total, snapshot, snapshot)
BY DEF Story

\* A real change continues the story, whether or not it costs the oldest entry.
LEMMA StoryGoesOn ==
  ASSUME NEW entries \in Seq(Item \cup {Hole}), NEW total \in Nat, Len(entries) <= total,
         Len(entries) = 0 => total = 0,
         NEW first \in Whole \cup {Null}, NEW last \in Whole \cup {Null}, NEW next \in Whole,
         NEW kept \in Seq(Item \cup {Hole}),
         \/ kept = entries
         \/ entries # <<>> /\ kept = Tail(entries) /\ Len(entries) = capacity,
         Story(entries, total, first, last), Changes(last, next) # {},
         Transition(last, next) \in Item
  PROVE  Story(Append(kept, Transition(last, next)), total + 1, first, next)
<1> DEFINE entry == Transition(last, next)
           n == Len(kept)
           told == Append(kept, entry)
<1>1. Told(entry) /\ StartsAt(entry, last) /\ entry.to = EndsAt(next)
  BY TransitionTells
<1>2. entry \in Item
  OBVIOUS
<1> HIDE DEF entry
<1>3. /\ n \in Nat /\ Len(told) = n + 1 /\ told[n + 1] = entry
      /\ \A i \in 1 .. n : told[i] = kept[i]
  BY <1>2
<1>4. /\ \A i \in 1 .. n : Told(kept[i])
      /\ \A i \in 1 .. n - 1 : Follows(kept[i], kept[i + 1])
      /\ n > 0 => kept[n].to = EndsAt(last)
      /\ kept = entries \/ n < total
  <2>1. CASE kept = entries
    BY <2>1 DEF Story
  <2>2. CASE entries # <<>> /\ kept = Tail(entries)
    <3>1. Len(entries) \in Nat /\ n = Len(entries) - 1 /\ \A i \in 1 .. n : kept[i] = entries[i + 1]
      BY <2>2
    <3>2. \A i \in 1 .. n : i + 1 \in 1 .. Len(entries) /\ Told(entries[i + 1])
      BY <3>1 DEF Story
    <3>3. ASSUME NEW i \in 1 .. n - 1 PROVE Follows(kept[i], kept[i + 1])
      <4>1. /\ i \in 1 .. n /\ i + 1 \in 1 .. n /\ i + 1 \in 1 .. Len(entries) - 1
        BY <3>1
      <4>2. Follows(entries[i + 1], entries[(i + 1) + 1])
        BY <4>1 DEF Story
      <4> QED  BY <3>1, <4>1, <4>2
    <3>4. n > 0 => kept[n] = entries[Len(entries)]
      BY <3>1
    <3>5. n > 0 => kept[n].to = EndsAt(last)
      BY <3>1, <3>4 DEF Story
    <3>6. \A i \in 1 .. n : Told(kept[i])
      BY <3>1, <3>2
    <3> QED  BY <3>1, <3>3, <3>5, <3>6
  <2> QED  BY <2>1, <2>2
<1>5. n > 0 => Follows(kept[n], entry)
  BY <1>1, <1>4 DEF Follows, StartsAt, EndsAt
<1>6. \A i \in 1 .. n + 1 : Told(told[i])
  BY <1>1, <1>3, <1>4
<1>7. ASSUME NEW i \in 1 .. n PROVE Follows(told[i], told[i + 1])
  <2>1. CASE i = n
    BY <1>3, <1>5, <2>1
  <2>2. CASE i # n
    <3>1. i \in 1 .. n - 1 /\ i + 1 \in 1 .. n
      BY <1>3, <2>2
    <3> QED  BY <1>3, <1>4, <3>1
  <2> QED  BY <2>1, <2>2
<1>8. ASSUME total + 1 = n + 1 PROVE StartsAt(told[1], first)
  <2>1. kept = entries /\ total = n
    BY <1>3, <1>4, <1>8
  <2>2. CASE n = 0
    <3>1. last = first /\ told[1] = entry
      BY <1>3, <2>1, <2>2 DEF Story
    <3> QED  BY <1>1, <3>1
  <2>3. CASE n # 0
    <3>1. told[1] = entries[1] /\ StartsAt(entries[1], first)
      BY <1>3, <2>1, <2>3 DEF Story
    <3> QED  BY <3>1
  <2> QED  BY <2>2, <2>3
<1> HIDE DEF told
<1>9. Story(told, total + 1, first, next)
  <2>1. told[n + 1].to = EndsAt(next)
    BY <1>1, <1>3
  <2>2. Len(told) = n + 1 /\ n + 1 > 0
    BY <1>3
  <2>3. \A i \in 1 .. (n + 1) - 1 : Follows(told[i], told[i + 1])
    BY <1>3, <1>7
  <2> QED  BY <1>3, <1>6, <1>8, <2>1, <2>2, <2>3 DEF Story
<1> QED  BY <1>9 DEF told, entry

\* What is in the ring once it has been cleared.
LEMMA ClearIsEmpty ==
  ASSUME RingInv, RingInv', clear
  PROVE  Array' = <<>>
<1>1. (RingInv => Array \in Seq(Item \cup {Hole}) /\ Len(Array) = count)'
  BY ArrayLength, PTL
<1> QED  BY <1>1 DEF clear

\* The timeline's story holds across every step.
LEMMA StoryNext ==
  ASSUME RingInv, RingInv', HistoryTypeOK, HistoryTypeOK', [HistoryNext]_historyVars,
         Story(Array, totalAdded, initial, current)
  PROVE  Story(Array, totalAdded, initial, current)'
<1>1. ASSUME NEW incoming \in Snapshot \cup {Null}, RegisterActor(incoming)
      PROVE  Story(Array, totalAdded, initial, current)'
  <2>1. Array' = <<>> /\ initial' = current'
    BY <1>1, ClearIsEmpty DEF RegisterActor
  <2> QED  BY <2>1, EmptyStory
<1>2. ASSUME NEW incoming \in Snapshot \cup {Null}, UpdateSnapshot(incoming)
      PROVE  Story(Array, totalAdded, initial, current)'
  <2>1. initial' = initial
    BY <1>2 DEF UpdateSnapshot
  <2>2. CASE incoming = Null
    <3>1. current' = current /\ UNCHANGED ring
      BY <1>2, <2>2, Zenon DEF UpdateSnapshot
    <3>2. Array' = Array /\ totalAdded' = totalAdded
      BY <3>1 DEF ring, Array, Start
    <3> QED  BY <2>1, <3>1, <3>2
  <2>3. CASE incoming \in Snapshot /\ Changes(current, current') = {}
    <3>1. current' \in Whole /\ UNCHANGED ring
      BY <1>2, <2>3, UpdatePushes
    <3>2. current' = current
      BY <2>3, <3>1, NoChange DEF HistoryTypeOK
    <3>3. Array' = Array /\ totalAdded' = totalAdded
      BY <3>1 DEF ring, Array, Start
    <3> QED  BY <2>1, <3>2, <3>3
  <2>4. CASE incoming \in Snapshot /\ Changes(current, current') # {}
    <3> DEFINE entry == Transition(current, current')
    <3>1. current' \in Whole /\ entry \in Item /\ push(entry)
      BY <1>2, <2>4, UpdatePushes
    <3> HIDE DEF entry
    <3>2. Promise!Add(entry)
      BY <3>1, PushAdds
    <3>3. Array \in Seq(Item \cup {Hole}) /\ Len(Array) = count
      BY ArrayLength
    <3>4. /\ totalAdded' = totalAdded + 1
          /\ Array' = IF Len(Array) < capacity THEN Append(Array, entry)
                      ELSE Append(Tail(Array), entry)
      BY <3>2 DEF Promise!Add
    <3>5. /\ totalAdded \in Nat /\ Len(Array) <= totalAdded
          /\ Len(Array) = 0 => totalAdded = 0
      BY <3>3, CapacityAssumption DEF CapacityAssumption, RingInv, TypeOK
    <3>6. PICK kept \in Seq(Item \cup {Hole}) :
            /\ \/ kept = Array
               \/ Array # <<>> /\ kept = Tail(Array) /\ Len(Array) = capacity
            /\ Array' = Append(kept, entry)
      <4>1. CASE Len(Array) < capacity
        BY <3>3, <3>4, <4>1
      <4>2. CASE ~(Len(Array) < capacity)
        <5>1. Len(Array) = capacity /\ Array # <<>>
          BY <3>3, <4>2, CapacityAssumption DEF CapacityAssumption, RingInv, TypeOK
        <5>2. Tail(Array) \in Seq(Item \cup {Hole})
          BY <3>3, <5>1
        <5> QED  BY <3>4, <4>2, <5>1, <5>2
      <4> QED  BY <4>1, <4>2
    <3>7. Story(Append(kept, entry), totalAdded + 1, initial, current')
      BY <2>4, <3>1, <3>3, <3>5, <3>6, StoryGoesOn DEF entry, HistoryTypeOK
    <3> QED  BY <2>1, <3>4, <3>6, <3>7
  <2> QED  BY <2>2, <2>3, <2>4
<1>3. CASE RemoveActor
  <2>1. Array' = <<>> /\ initial' = current'
    BY <1>3, ClearIsEmpty DEF RemoveActor
  <2> QED  BY <2>1, EmptyStory
<1>4. ASSUME UNCHANGED <<stored, current, initial, ring>>
      PROVE  Story(Array, totalAdded, initial, current)'
  <2>1. Array' = Array /\ totalAdded' = totalAdded
    BY <1>4 DEF ring, Array, Start
  <2> QED  BY <1>4, <2>1
<1>5. Connect => UNCHANGED <<stored, current, initial, ring>>
  BY DEF Connect
<1>6. Dispose => UNCHANGED <<stored, current, initial, ring>>
  BY DEF Dispose
<1>7. \A kind : Receives(kind) => UNCHANGED <<stored, current, initial, ring>>
  BY DEF Receives
<1>8. UNCHANGED historyVars => UNCHANGED <<stored, current, initial, ring>>
  BY DEF historyVars
<1> QED  BY <1>1, <1>2, <1>3, <1>4, <1>5, <1>6, <1>7, <1>8 DEF HistoryNext

-----------------------------------------------------------------------------

LEMMA HistoryInvInit == HistoryInit => HistoryInv
<1> SUFFICES ASSUME HistoryInit PROVE HistoryInv
  OBVIOUS
<1>1. RingInv /\ HistoryTypeOK
  BY RingInit, HistoryTypeInit DEF HistoryInit
<1>2. Array = <<>>
  BY <1>1, ArrayLength DEF HistoryInit, Init
<1>3. Story(Array, totalAdded, initial, current)
  BY <1>2, EmptyStory DEF HistoryInit
<1> QED  BY <1>1, <1>3 DEF HistoryInv, HistoryInit, ClientIsTold

LEMMA HistoryInvNext == HistoryInv /\ [HistoryNext]_historyVars => HistoryInv'
<1> SUFFICES ASSUME HistoryInv, [HistoryNext]_historyVars PROVE HistoryInv'
  OBVIOUS
<1>1. HistoryTypeOK' /\ RingInv'
  BY HistoryTypeNext, StepOfRing, RingNext DEF HistoryInv
<1>2. ClientIsTold'
  BY ToldNext DEF HistoryInv
<1>3. Story(Array, totalAdded, initial, current)'
  BY <1>1, StoryNext DEF HistoryInv
<1> QED  BY <1>1, <1>2, <1>3 DEF HistoryInv

\* The newest entries that a caller's limit leaves.
LEMMA RecentEntries ==
  ASSUME RingInv, NEW limit \in 1 .. capacity + 1
  PROVE  LET t == getRecent(limit)
         IN  \/ t = Array
             \/ /\ limit < count /\ Len(t) = limit
                /\ \A i \in 1 .. limit : t[i] = Array[count - limit + i]
<1>1. Array \in Seq(Item \cup {Hole}) /\ Len(Array) = count /\ count \in Nat
  BY ArrayLength DEF RingInv, TypeOK
<1>2. limit \in Nat /\ limit > 0
  BY CapacityAssumption DEF CapacityAssumption
<1>3. CASE limit >= count
  BY <1>1, <1>3 DEF getRecent
<1>4. CASE limit < count
  <2>1. getRecent(limit) = SubSeq(Array, count - limit + 1, count)
    BY <1>1, <1>2, <1>4 DEF getRecent
  <2> DEFINE t == SubSeq(Array, count - limit + 1, count)
  <2>2. t = [i \in 1 .. limit |-> Array[count - limit + i]]
    <3>1. Len(t) = limit /\ t \in Seq(Item \cup {Hole})
      BY <1>1, <1>2, <1>4, SubSeqProperties
    <3>2. \A i \in 1 .. limit : t[i] = Array[(count - limit + 1) + i - 1]
      BY <1>1, <1>2, <1>4, SubSeqProperties
    <3>3. \A i \in 1 .. limit : t[i] = Array[count - limit + i]
      BY <1>1, <1>2, <3>2
    <3> HIDE DEF t
    <3> QED  BY <3>1, <3>3
  <2>3. Len(t) = limit
    BY <1>1, <1>2, <1>4, SubSeqProperties
  <2> HIDE DEF t
  <2> QED  BY <1>2, <1>4, <2>1, <2>2, <2>3 DEF t
<1> QED  BY <1>1, <1>2, <1>3, <1>4

\* For every limit a caller asks for, the timeline is one story of real changes
\* that ends where the actor is now.
THEOREM TimelineChainsCorrect == HistorySpec => []TimelineChains
<1>1. HistoryInv => TimelineChains
  <2> SUFFICES ASSUME HistoryInv, NEW limit \in 1 .. capacity + 1
               PROVE  LET t == getRecent(limit)
                          n == Len(t)
                      IN  /\ n = 0 \/ n = limit \/ n + Evicted = totalAdded
                          /\ \A i \in 1 .. n : Told(t[i]) /\ (i < n => Follows(t[i], t[i + 1]))
                          /\ IF n > 0 THEN t[n].to = EndsAt(current) ELSE current = initial
                          /\ totalAdded = n /\ n > 0 => StartsAt(t[1], initial)
    BY DEF TimelineChains, getStateTimeline, Told, Follows, StartsAt, EndsAt
  <2> DEFINE t == getRecent(limit)
             n == Len(t)
  <2>1. Len(Array) = count /\ count \in Nat /\ totalAdded \in Nat /\ count <= totalAdded
    BY ArrayLength, CapacityAssumption DEF CapacityAssumption, HistoryInv, RingInv, TypeOK
  <2>2. limit \in Nat /\ limit > 0
    BY CapacityAssumption DEF CapacityAssumption
  <2>3. /\ \A i \in 1 .. count : Told(Array[i])
        /\ \A i \in 1 .. count - 1 : Follows(Array[i], Array[i + 1])
        /\ count > 0 => Array[count].to = EndsAt(current)
        /\ count = 0 => current = initial
        /\ count > 0 /\ totalAdded = count => StartsAt(Array[1], initial)
    BY <2>1 DEF HistoryInv, Story
  <2>4. CASE t = Array
    <3>1. n = count
      BY <2>1, <2>4
    <3>2. \A i \in 1 .. n : Told(t[i]) /\ (i < n => Follows(t[i], t[i + 1]))
      BY <2>1, <2>3, <2>4, <3>1
    <3>3. n + Evicted = totalAdded
      BY <2>1, <3>1 DEF Evicted
    <3>4. /\ n > 0 => t[n].to = EndsAt(current)
          /\ ~(n > 0) => current = initial
          /\ totalAdded = n /\ n > 0 => StartsAt(t[1], initial)
      BY <2>1, <2>3, <2>4, <3>1
    <3> HIDE DEF t, n
    <3> QED  BY <3>2, <3>3, <3>4 DEF n, t
  <2>5. CASE /\ limit < count /\ n = limit
             /\ \A i \in 1 .. limit : t[i] = Array[count - limit + i]
    <3>1. ASSUME NEW i \in 1 .. n
          PROVE  Told(t[i]) /\ (i < n => Follows(t[i], t[i + 1]))
      <4>1. count - limit + i \in 1 .. count /\ Told(t[i])
        BY <2>1, <2>2, <2>3, <2>5
      <4>2. ASSUME i < n PROVE Follows(t[i], t[i + 1])
        <5>1. /\ i + 1 \in 1 .. limit /\ count - limit + i \in 1 .. count - 1
              /\ (count - limit + i) + 1 = count - limit + (i + 1)
          BY <2>1, <2>2, <2>5, <4>2
        <5>2. Follows(Array[count - limit + i], Array[(count - limit + i) + 1])
          BY <2>3, <5>1
        <5>3. t[i] = Array[count - limit + i] /\ t[i + 1] = Array[count - limit + (i + 1)]
          BY <2>5, <5>1
        <5> QED  BY <5>1, <5>2, <5>3
      <4> QED  BY <4>1, <4>2
    <3>2. n > 0 /\ totalAdded # n
      BY <2>1, <2>2, <2>5
    <3>3. t[n].to = EndsAt(current)
      <4>1. t[n] = Array[count] /\ count > 0
        BY <2>1, <2>2, <2>5
      <4> QED  BY <2>3, <4>1
    <3>4. n = limit
      BY <2>5
    <3> HIDE DEF t, n
    <3> QED  BY <3>1, <3>2, <3>3, <3>4 DEF n, t
  <2> QED  BY <2>1, <2>4, <2>5, RecentEntries DEF HistoryInv
<1> QED  BY <1>1, HistoryInvInit, HistoryInvNext, PTL DEF HistorySpec

===============================================================================
