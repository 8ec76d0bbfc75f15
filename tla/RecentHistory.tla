---------------------------- MODULE RecentHistory ----------------------------
(***************************************************************************)
(* What an actor's history promises its readers: the newest "capacity"      *)
(* items in the order they were added, and how many were ever added.        *)
(***************************************************************************)
EXTENDS Integers, Sequences

CONSTANTS Item, capacity

VARIABLES recent, total

vars == <<recent, total>>

Init == recent = <<>> /\ total = 0

\* The oldest item makes room.
Add(item) ==
  /\ total' = total + 1
  /\ recent' = IF Len(recent) < capacity THEN Append(recent, item)
               ELSE Append(Tail(recent), item)

Reset == recent' = <<>> /\ total' = 0

Next == Reset \/ \E item \in Item : Add(item)

History == Init /\ [][Next]_vars
=============================================================================
