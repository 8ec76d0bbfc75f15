------------------------------ MODULE RingBuffer ------------------------------
(***************************************************************************)
(* The ring that holds an actor's events and transitions (class RingBuffer  *)
(* in src/src/types.ts), and what its readers compute from it: toArray      *)
(* and the number of evicted events that waits derive as total - size.      *)
(***************************************************************************)
EXTENDS Integers, Sequences

CONSTANTS
  Item,
  capacity,
  MaxAdded,     \* bound: pushes
  Hole          \* undefined: a slot never written

ASSUME CapacityAssumption == capacity \in Nat \ {0}
ASSUME HoleAssumption == Hole \notin Item
ASSUME BoundAssumption == MaxAdded \in Nat

VARIABLES buffer, head, count, totalAdded

vars == <<buffer, head, count, totalAdded>>

Slot == 0 .. capacity - 1

Wrapped(i) == i % capacity

TypeOK ==
  /\ buffer \in [Slot -> Item \cup {Hole}]
  /\ head \in Slot
  /\ count \in 0 .. capacity
  /\ totalAdded \in 0 .. MaxAdded

Init ==
  /\ buffer = [i \in Slot |-> Hole]
  /\ head = 0
  /\ count = 0
  /\ totalAdded = 0

push(item) ==
  /\ totalAdded < MaxAdded
  /\ buffer' = [buffer EXCEPT ![head] = item]
  /\ head' = Wrapped(head + 1)
  /\ count' = IF count < capacity THEN count + 1 ELSE count
  /\ totalAdded' = totalAdded + 1

\* Variant of clear: the number of pushes is not reset.
ClearKeepingTotal ==
  /\ buffer' = [i \in Slot |-> Hole]
  /\ head' = 0 /\ count' = 0 /\ UNCHANGED totalAdded

clear ==
  /\ buffer' = [i \in Slot |-> Hole]
  /\ head' = 0 /\ count' = 0 /\ totalAdded' = 0

\* The index of the oldest item. Variant: always the slot after the newest.
StartAtHead == head
Start == IF count < capacity THEN 0 ELSE head

\* toArray()
Array == [i \in 1 .. count |-> buffer[Wrapped(Start + i - 1)]]

\* The size and total getters, as the waits use them.
Evicted == totalAdded - count

Next == clear \/ \E item \in Item : push(item)

Spec == Init /\ [][Next]_vars

-----------------------------------------------------------------------------

\* Sequence numbers evicted + 1 .. total number the entries toArray holds, which
\* is how wait_for_event detects lost history (ActorWaits takes it for granted).
EvictedCounts ==
  /\ Evicted = IF totalAdded > capacity THEN totalAdded - capacity ELSE 0
  /\ Len(Array) = totalAdded - Evicted

\* The ring implements the history its readers rely on.
Promise == INSTANCE RecentHistory WITH recent <- Array, total <- totalAdded
ImplementsHistory == Promise!History

=============================================================================
