------------------------- MODULE MCInspectionServer -------------------------
(* TLC instances of InspectionServer, within a process that hosts it. *)
EXTENDS CommandLine, TLC

=============================================================================
