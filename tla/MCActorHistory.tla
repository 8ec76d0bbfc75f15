----------------------------- MODULE MCActorHistory -----------------------------
\* Partial snapshots that set a field, clear it or leave it out, and every
\* transition they can make.
EXTENDS ActorHistory, TLC

Snapshots ==
  {"value" :> "s", "value" :> Null, "context" :> "c", "result" :> "r",
   "status" :> "done" @@ "result" :> "r", "status" :> "active",
   "context" :> Null @@ "value" :> Null, "status" :> "done" @@ "value" :> "s"}

Held == [status: {"active", "done"}, value: {Null, "s"}, context: {Null, "c"}, result: {Null, "r"}]
Transitions ==
  {Transition(p, readSnapshot(s, p)) : p \in Held \cup {Null}, s \in Snapshots}

=============================================================================
