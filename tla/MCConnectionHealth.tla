------------------------- MODULE MCConnectionHealth -------------------------
(* TLC instances of ConnectionHealth. *)
EXTENDS ConnectionHealth, TLC

Symmetry == Permutations(Socket) \cup Permutations(Hello) \cup Permutations(LocalId)

\* Every frame handleMessage tells apart.
EveryFrame == Frames

\* Registrations only.
ActorFrames == [type : {"actor"}, actor : LocalId]

=============================================================================
