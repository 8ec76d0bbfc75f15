-------------------------- MODULE MCClientRegistry --------------------------
(* TLC instances of ClientRegistry and its refinement of CommandContract.   *)
EXTENDS ClientRegistryContract, TLC

Symmetry == Permutations(Socket) \cup Permutations(ConnId)
              \cup Permutations(LocalId) \cup Permutations(Command)
=============================================================================
