--------------------------- MODULE CommandContract ---------------------------
(***************************************************************************)
(* What a caller of send_event is promised, without sockets, sessions,      *)
(* timers or maps: a command is refused at once or routed to one live       *)
(* connection; a routed command ends exactly once, answered by that         *)
(* connection while it lives or failed by the server; a lost connection     *)
(* fails the commands routed to it and no others; a connection id never     *)
(* comes back; after close nothing is routed.                               *)
(* The promises are those of src/docs/application-sessions.md ("Ownership   *)
(* and lifetime"); the module is an abstraction of ClientRegistry.          *)
(***************************************************************************)
CONSTANTS Command, ConnId, NoConn

VARIABLES
  phase,   \* idle, refused, waiting, answered or failed
  route,   \* the connection a command was routed to
  live,    \* connections that exist
  used,    \* connections that ever existed
  stopped  \* the server takes no more commands

contractVars == <<phase, route, live, used, stopped>>

ContractInit ==
  /\ phase = [r \in Command |-> "idle"]
  /\ route = [r \in Command |-> NoConn]
  /\ live = {}
  /\ used = {}
  /\ stopped = FALSE

WaitingOn(c) == {r \in Command : phase[r] = "waiting" /\ route[r] = c}

FailAll(S) == phase' = [r \in Command |-> IF r \in S THEN "failed" ELSE phase[r]]

Connect(c) ==
  /\ c \notin used
  /\ used' = used \cup {c}
  /\ live' = live \cup {c}
  /\ UNCHANGED <<phase, route, stopped>>

Disconnect(c) ==
  /\ c \in live
  /\ live' = live \ {c}
  /\ FailAll(WaitingOn(c))
  /\ UNCHANGED <<route, used, stopped>>

Refuse(r) ==
  /\ phase[r] = "idle"
  /\ phase' = [phase EXCEPT ![r] = "refused"]
  /\ UNCHANGED <<route, live, used, stopped>>

RouteTo(r, c) ==
  /\ ~stopped
  /\ phase[r] = "idle"
  /\ c \in live
  /\ phase' = [phase EXCEPT ![r] = "waiting"]
  /\ route' = [route EXCEPT ![r] = c]
  /\ UNCHANGED <<live, used, stopped>>

Answer(r) ==
  /\ phase[r] = "waiting"
  /\ route[r] \in live
  /\ phase' = [phase EXCEPT ![r] = "answered"]
  /\ UNCHANGED <<route, live, used, stopped>>

\* A timeout or a send error fails one command; clearing fails all of them.
Fail(r) ==
  /\ phase[r] = "waiting"
  /\ FailAll({r})
  /\ UNCHANGED <<route, live, used, stopped>>

FailEverything ==
  /\ FailAll({r \in Command : phase[r] = "waiting"})
  /\ UNCHANGED <<route, live, used, stopped>>

Stop ==
  /\ ~stopped
  /\ stopped' = TRUE
  /\ FailAll({r \in Command : phase[r] = "waiting"})
  /\ UNCHANGED <<route, live, used>>

ContractNext ==
  \/ \E c \in ConnId : Connect(c) \/ Disconnect(c)
  \/ \E r \in Command : Refuse(r) \/ Answer(r) \/ Fail(r)
  \/ \E r \in Command, c \in ConnId : RouteTo(r, c)
  \/ FailEverything
  \/ Stop

Contract == ContractInit /\ [][ContractNext]_contractVars

\* Under the contract no caller waits forever.
Ending(r) == Answer(r) \/ Fail(r)
FairContract == Contract /\ \A r \in Command : WF_contractVars(Ending(r))
=============================================================================
