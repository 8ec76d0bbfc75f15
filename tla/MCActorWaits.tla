---------------------------- MODULE MCActorWaits ----------------------------
(* TLC instances of ActorWaits. *)
EXTENDS ActorWaits, TLC

Symmetry == Permutations(Wait) \cup Permutations(SessionId)
              \cup Permutations(EventType) \cup Permutations(Snapshot)

\* Each snapshot alone, and any snapshot (a status shared by all of them).
EachAndAny == {{s} : s \in Snapshot} \cup {Snapshot}
=============================================================================
