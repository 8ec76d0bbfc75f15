----------------------- MODULE ClientRegistryContract -----------------------
(***************************************************************************)
(* ClientRegistry seen through CommandContract: which registry state is     *)
(* which state of the contract.                                             *)
(***************************************************************************)
EXTENDS ClientRegistry

\* What a caller can tell of the outcome of a call.
Phase(o) ==
  IF o \in {"idle", "waiting", "refused"} THEN o
  ELSE IF o \in Answers THEN "answered"
  ELSE "failed"

\* The connection whose actor a call was sent to.
RouteOf(r) == IF sent[r] = NoSession THEN NoConn ELSE sent[r].id[1]

Promise == INSTANCE CommandContract WITH
  phase   <- [r \in Command |-> Phase(outcome[r])],
  route   <- [r \in Command |-> RouteOf(r)],
  live    <- LiveConns,
  used    <- minted,
  stopped <- closed

\* The registry implements the contract: every step of it is a step of the
\* contract or none, and no caller waits forever.
ImplementsContract == Promise!FairContract
=============================================================================
