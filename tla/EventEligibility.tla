---------------------------- MODULE EventEligibility ----------------------------
(***************************************************************************)
(* The can_handle_event tool (src/src/tools/can-handle-event.ts and         *)
(* src/src/event-eligibility.ts): whether an actor can handle an event,     *)
(* from the definition and the snapshot its adapter reported, either of     *)
(* which may have lost a piece. StateChart says what the actor would do.    *)
(***************************************************************************)
EXTENDS StateChart, Functions

CONSTANTS
  Machine,          \* the machines an application may run
  Event,            \* the event types a caller may ask about
  DEPTH_LIMIT,      \* 128 in the code
  VISIT_LIMIT,      \* 4096 in the code
  NoDefinition, NoSnapshot, NoValue, NoAnswer,
  Absent,           \* a property the definition does not have
  Malformed         \* a value of no kind the analysis knows

ASSUME LimitAssumption == DEPTH_LIMIT \in Nat /\ VISIT_LIMIT \in Nat
ASSUME MachineAssumption == \A m \in Machine : IsMachine(m)
ASSUME EventAssumption == Event \subseteq Seq(STRING)

\* A list of handlers whose first transition cannot be read.
Unread(on, x) == [on EXCEPT ![x][1] = Malformed]

ASSUME SentinelAssumption ==
  /\ Absent # Malformed
  /\ {Absent, Malformed} \cap (Kind \cup Transition \cup {"record", "keys"}) = {}
  /\ \A m \in Machine : \A n \in DOMAIN m :
       /\ m[n].on \notin {Absent, Malformed}
       /\ \A x \in DOMAIN m[n].on : m[n].on[x] # <<>> => Unread(m[n].on, x) # Absent

VARIABLES
  machine, configuration,     \* what the application runs
  definition, snapshot,       \* what the store holds of it
  answer                      \* of the last call

vars == <<machine, configuration, definition, snapshot, answer>>

-----------------------------------------------------------------------------
\* What adapters report.

\* A serialized machine: every node has its type, states and on; the root has
\* transitions.
Compiled(m) ==
  [compiled |-> TRUE,
   nodes |-> [n \in DOMAIN m |-> [type |-> m[n].kind, states |-> "record", on |-> m[n].on]]]

\* A configuration object: only what its author had to write.
Raw(m) ==
  [compiled |-> FALSE,
   nodes |-> [n \in DOMAIN m |->
     [type   |-> IF m[n].kind \in {"atomic", "compound"} THEN Absent ELSE m[n].kind,
      states |-> IF ChildrenIn(n, DOMAIN m) = {} THEN Absent ELSE "record",
      on     |-> IF DOMAIN m[n].on = {} THEN Absent ELSE m[n].on]]]

Pruned(d, lost) == [d EXCEPT !.nodes = Restrict(@, DOMAIN @ \ lost)]

\* One node of the definition has lost a piece that can be missed: a raw `on` or
\* a transition that is gone without a trace cannot.
Damaged(d) ==
  LET nodes == d.nodes
      N     == DOMAIN nodes
      below(n) == Inside(n, N)
  IN  {Pruned(d, {n} \cup below(n)) : n \in N \ {0}}
      \cup {[d EXCEPT !.nodes[n].type = t] : n \in N, t \in {Absent, Malformed}}
      \cup {[Pruned(d, below(n)) EXCEPT !.nodes[n].states = s] : n \in N, s \in {Absent, Malformed}}
      \cup {[d EXCEPT !.nodes[n].on = o] :
              n \in N, o \in IF d.compiled THEN {Absent, Malformed} ELSE {Malformed}}
      \cup UNION {{[d EXCEPT !.nodes[n].on = Unread(@, x)] :
                     x \in {y \in DOMAIN nodes[n].on : nodes[n].on[y] # <<>>}} :
                   n \in {k \in N : nodes[k].on # Absent}}

\* The state value maps each active state to the shape of what lies under it.
Value(S) == [n \in S |-> "keys"]

PartialValues(S) ==
  {Value(S \ ({n} \cup Inside(n, S))) : n \in S \ {0}}
  \cup {[Value(S \ Inside(n, S)) EXCEPT ![n] = Malformed] : n \in S}
  \cup {NoValue}

ASSUME ReportAssumption ==
  \A m \in Machine :
    /\ NoDefinition \notin {Compiled(m), Raw(m)}
    /\ \A S \in Configurations(m) :
         NoValue # Value(S) /\ NoSnapshot # [status |-> "active", value |-> Value(S)]

Snapshots(values) == [status: {"active"}, value: values]

WholeReport ==
  /\ definition \in {Compiled(machine), Raw(machine)}
  /\ snapshot = [status |-> "active", value |-> Value(configuration)]

\* A piece of the definition or of the snapshot is missing, not of both.
Init ==
  /\ machine \in Machine
  /\ configuration \in Configurations(machine)
  /\ \/ WholeReport
     \/ /\ definition \in {NoDefinition} \cup Damaged(Compiled(machine)) \cup Damaged(Raw(machine))
        /\ snapshot = [status |-> "active", value |-> Value(configuration)]
     \/ /\ definition \in {Compiled(machine), Raw(machine)}
        /\ snapshot \in {NoSnapshot} \cup Snapshots(PartialValues(configuration))
                        \cup [status: {"done", "paused"}, value: {Value(configuration)}]
  /\ answer = NoAnswer

-----------------------------------------------------------------------------
\* The analysis.

Unavailable(reason) ==
  [canHandle |-> "unknown", reason |-> reason, matched |-> {}, blocked |-> {}]
None == [Unavailable("no_transition") EXCEPT !.canHandle = "no"]

IsUnknown(result) == result.canHandle = "unknown"
Selected(result) == result.matched \cup result.blocked # {}

\* A trailing wildcard covers the bare prefix too; no other wildcard counts.
Matches(event, descriptor) ==
  \/ descriptor = event
  \/ descriptor = <<"*">>
  \/ LET prefix == SubSeq(descriptor, 1, Len(descriptor) - 1)
     IN  /\ Len(descriptor) > 1 /\ descriptor[Len(descriptor)] = "*"
         /\ "*" \notin Range(prefix)
         /\ Len(prefix) <= Len(event) /\ prefix = SubSeq(event, 1, Len(prefix))

\* The transitions of one node by themselves. The first candidate of the
\* longest descriptor with any decides: it is malformed, guarded, or taken.
Local(n, event) ==
  LET on    == definition.nodes[n].on
      wild  == {d \in DOMAIN on \ {event} : Matches(event, d)}
      tried == {d \in IF event \in DOMAIN on THEN {event} ELSE wild : on[d] # <<>>}
      first == CHOOSE d \in tried : \A x \in tried : Len(d) >= Len(x)
      site  == {<<n, first>>}
  IN  IF on = Absent THEN None
      ELSE IF event \in DOMAIN on /\ on[event] = <<>> /\ wild # {}
           THEN Unavailable("version_dependent")
      ELSE IF tried = {} THEN None
      ELSE CASE on[first][1] = Malformed -> Unavailable("definition_incomplete")
             [] on[first][1] = "guarded" ->
                  [Unavailable("guard_not_evaluated") EXCEPT !.matched = site]
             [] on[first][1] = "acts" ->
                  [canHandle |-> "yes", reason |-> "transition_found", matched |-> site, blocked |-> {}]
             [] on[first][1] = "forbidden" ->
                  [canHandle |-> "no", reason |-> "forbidden_transition", matched |-> {}, blocked |-> site]

\* Variant of Children: history states count.
ChildrenWithHistory(n) == ChildrenIn(n, DOMAIN definition.nodes)
Children(n) == {c \in ChildrenIn(n, DOMAIN definition.nodes) : definition.nodes[c].type # "history"}

Keys(n) == ChildrenIn(n, DOMAIN snapshot.value)

\* The nodes visit() comes to, in document order, and how deep they lie.
Reached == DOMAIN snapshot.value \cap DOMAIN definition.nodes
Excessive(n) ==
  \/ Cardinality({m \in Reached : m <= n}) > VISIT_LIMIT
  \/ Cardinality({m \in Reached : n \in Inside(m, Reached)}) > DEPTH_LIMIT

Incomplete(n) ==
  LET node == definition.nodes[n]
  IN  \/ definition.compiled /\ (node.on \in {Absent, Malformed} \/ node.states # "record")
      \/ node.states = Malformed
      \/ node.on = Malformed
      \/ node.type \notin {Absent, "atomic", "compound", "parallel", "final"}

\* The node's type and its children, or the value's keys, do not fit.
Contradictory(n) ==
  IF Children(n) # {}
  THEN definition.nodes[n].type \in {"atomic", "final"}
  ELSE Keys(n) # {} \/ definition.nodes[n].type = "compound"

\* The value does not say which of the children are active.
Partial(n) ==
  /\ Children(n) # {}
  /\ IF definition.nodes[n].type = "parallel"
     THEN Keys(n) = {} \/ Cardinality(Keys(n)) # Cardinality(Children(n)) \/ ~(Children(n) \subseteq Keys(n))
     ELSE Cardinality(Keys(n)) # 1

Fault(n) ==
  IF Excessive(n) \/ Incomplete(n) THEN "definition_incomplete"
  ELSE IF snapshot.value[n] = Malformed THEN "snapshot_unavailable"
  ELSE IF Contradictory(n) THEN "definition_incomplete"
  ELSE IF Partial(n) THEN "snapshot_unavailable"
  ELSE IF ~(Keys(n) \subseteq Children(n)) THEN "definition_incomplete"
  ELSE "none"

Merge(results) ==
  LET handles == \E r \in results : r.canHandle = "yes"
  IN  [canHandle |-> IF handles THEN "yes" ELSE "no",
       reason    |-> IF handles THEN "transition_found" ELSE "forbidden_transition",
       matched   |-> UNION {r.matched : r \in results},
       blocked   |-> UNION {r.blocked : r \in results}]

\* Variant of Decide: an unknown child counts as one that selects nothing.
DecideFallingBack(n, results, event) ==
  LET chosen == {r \in Range(results) : Selected(r) /\ ~IsUnknown(r)}
  IN  IF chosen # {} THEN Merge(chosen) ELSE Local(n, event)

\* From the results of the active children: the first unknown one, else what
\* they select, else the node's own transitions.
Decide(n, results, event) ==
  LET unknown == {c \in DOMAIN results : IsUnknown(results[c])}
      chosen  == {r \in Range(results) : Selected(r)}
  IN  IF unknown # {} THEN results[CHOOSE c \in unknown : \A x \in unknown : c <= x]
      ELSE IF chosen # {} THEN Merge(chosen)
      ELSE Local(n, event)

Visit(event) ==
  LET visit[n \in Reached] ==
        IF Fault(n) # "none" THEN Unavailable(Fault(n))
        ELSE Decide(n, [c \in Keys(n) |-> visit[c]], event)
  IN  visit[0]

Bare(node) == node.states = Absent /\ node.on = Absent /\ node.type = Absent

Internal(event) == Len(event) > 1 /\ event[1] = "xstate"

analyzeEventEligibility(event) ==
  IF definition = NoDefinition THEN Unavailable("definition_unavailable")
  ELSE IF Bare(definition.nodes[0]) THEN Unavailable("definition_incomplete")
  ELSE IF event = <<>> THEN Unavailable("unsupported_event")
  ELSE IF snapshot.value = NoValue THEN Unavailable("snapshot_unavailable")
  ELSE IF Internal(event) /\ ~definition.compiled THEN Unavailable("unsupported_event")
  ELSE Visit(event)

eligibility(event) ==
  IF snapshot = NoSnapshot THEN Unavailable("snapshot_unavailable")
  ELSE IF snapshot.status \in {"done", "stopped", "error"}
       THEN [Unavailable("actor_inactive") EXCEPT !.canHandle = "no"]
  ELSE IF snapshot.status = "active" THEN analyzeEventEligibility(event)
  ELSE Unavailable("snapshot_unavailable")

canHandleEvent(event) ==
  /\ answer' = [event |-> event, result |-> eligibility(event)]
  /\ UNCHANGED <<machine, configuration, definition, snapshot>>

Next == \E event \in Event : canHandleEvent(event)

Spec == Init /\ [][Next]_vars

-----------------------------------------------------------------------------

\* A definite answer, taken from evidence that may have lost a piece, names
\* exactly the transitions the running actor selects, whatever its guards
\* decide and whichever release it runs (docs/event-eligibility.md).
DefiniteIsRight ==
  answer # NoAnswer /\ ~IsUnknown(answer.result) =>
    LET r == answer.result
    IN  IF snapshot.status # "active" THEN r.canHandle = "no"
        ELSE /\ r.canHandle = "yes" <=> r.matched # {}
             /\ \A v \in Versions, passing \in SUBSET Guards(machine, configuration, answer.event) :
                  LET sel == Selection(machine, configuration, answer.event, v, passing)
                  IN  r.matched = Sites(machine, sel, FALSE) /\ r.blocked = Sites(machine, sel, TRUE)

\* An adapter that reports everything, of a machine within the limits, is told
\* "unknown" only for a guard the actor may really come to, or for a list the
\* releases treat differently.
UnknownIsJustified ==
  LET Sees(v) == Sites(machine, Selection(machine, configuration, answer.event, v,
                                          Guards(machine, configuration, answer.event)), FALSE)
  IN  /\ answer # NoAnswer /\ IsUnknown(answer.result)
      /\ WholeReport /\ ~Bare(definition.nodes[0])
      /\ answer.event # <<>> /\ (Internal(answer.event) => definition.compiled)
      /\ \A n \in configuration : ~Excessive(n)
      => \/ /\ answer.result.reason = "guard_not_evaluated"
            /\ \E v \in Versions : answer.result.matched # {} /\ answer.result.matched \subseteq Sees(v)
         \/ /\ answer.result.reason = "version_dependent"
            /\ \E n \in configuration :
                 /\ answer.event \in DOMAIN machine[n].on
                 /\ machine[n].on[answer.event] = <<>>

=============================================================================
