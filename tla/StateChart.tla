------------------------------ MODULE StateChart ------------------------------
(***************************************************************************)
(* What a running XState v5 actor does with an event: the measure for the   *)
(* static analysis of EventEligibility. XState is a development dependency  *)
(* of the repository; the rules are those its regression matrix runs real   *)
(* actors for (src/tests/tools/event-eligibility-semantics.test.ts).        *)
(*                                                                         *)
(* A machine maps each of its states to a kind and its handlers. The root   *)
(* is 0 and states are numbered in document order. Event types and          *)
(* descriptors are sequences of their dot-separated segments, of which only *)
(* the segment "*" holds an asterisk.                                       *)
(***************************************************************************)
EXTENDS Integers, Sequences, FiniteSets

CONSTANTS
  Node,         \* the states a machine may have
  Parent        \* their tree

ASSUME NodeAssumption == 0 \in Node /\ Node \subseteq Nat
ASSUME ParentAssumption ==
  /\ Parent \in [Node \ {0} -> Node]
  /\ \A n \in Node \ {0} : Parent[n] < n

Kind == {"atomic", "compound", "parallel", "final", "history"}

\* A transition acts (a target or actions), is forbidden, or acts if its guard
\* passes.
Transition == {"acts", "forbidden", "guarded"}

Versions == {"5.28", "5.32"}

\* The states strictly inside n, by following parents.
Inside(n, S) ==
  LET within[m \in Node] == m # 0 /\ (Parent[m] = n \/ within[Parent[m]])
  IN  {m \in S : within[m]}

ChildrenIn(n, S) == {m \in S \ {0} : Parent[m] = n}

Regions(machine, n) == {c \in ChildrenIn(n, DOMAIN machine) : machine[c].kind # "history"}

\* A finite tree of states. Only compound and parallel states contain others, and
\* a compound state does.
IsMachine(machine) ==
  LET S == DOMAIN machine
  IN  /\ IsFiniteSet(S) /\ S \subseteq Node /\ 0 \in S /\ machine[0].kind # "history"
      /\ \A n \in S \ {0} : Parent[n] \in S
      /\ \A n \in S :
           /\ machine[n].kind \in Kind
           /\ machine[n].kind = "compound" => ChildrenIn(n, S) # {}
           /\ machine[n].kind \notin {"compound", "parallel"} => ChildrenIn(n, S) = {}
           /\ DOMAIN machine[n].on \subseteq Seq(STRING)
           /\ \A d \in DOMAIN machine[n].on : machine[n].on[d] \in Seq(Transition)

\* One child of an active compound state is active, and every region of an
\* active parallel state.
Configurations(machine) ==
  {S \in SUBSET DOMAIN machine :
     /\ 0 \in S
     /\ \A n \in S \ {0} : Parent[n] \in S /\ machine[n].kind # "history"
     /\ \A n \in S :
          CASE machine[n].kind = "compound" -> Cardinality(ChildrenIn(n, S)) = 1
            [] machine[n].kind = "parallel" -> ChildrenIn(n, S) = Regions(machine, n)
            [] OTHER -> ChildrenIn(n, S) = {}}

-----------------------------------------------------------------------------

\* A descriptor names the event, or covers it with a trailing wildcard, its only one.
Describes(descriptor, event) ==
  \/ descriptor = event
  \/ \E i \in 1 .. Len(descriptor) :
       /\ descriptor[i] = "*" /\ i = Len(descriptor)
       /\ i - 1 <= Len(event)
       /\ \A j \in 1 .. i - 1 : descriptor[j] = event[j] /\ descriptor[j] # "*"

\* The transitions of one state for an event, each with its guard's outcome:
\* passing is the set of <<state, descriptor, index>> whose guard passes. An
\* exact list comes alone, unless it is empty and the release tries wildcards.
Candidates(machine, n, event, version) ==
  LET on    == machine[n].on
      alone == event \in DOMAIN on /\ (version = "5.28" \/ on[event] # <<>>)
  IN  UNION {{<<n, d, i>> : i \in DOMAIN on[d]} :
               d \in {x \in DOMAIN on : IF alone THEN x = event ELSE Describes(x, event)}}

\* Longer descriptors first, then the order of declaration.
Before(s, t) == Len(s[2]) > Len(t[2]) \/ (s[2] = t[2] /\ s[3] < t[3])

TransitionAt(machine, site) == machine[site[1]].on[site[2]][site[3]]

\* The transition a state takes by itself: none or one.
OwnChoice(machine, n, event, version, passing) ==
  LET open == {s \in Candidates(machine, n, event, version) :
                 TransitionAt(machine, s) = "guarded" => s \in passing}
  IN  {s \in open : \A t \in open \ {s} : Before(s, t)}

\* The transitions a configuration takes: a state's own, unless a state inside
\* it takes one.
Selection(machine, configuration, event, version, passing) ==
  LET own == [n \in configuration |-> OwnChoice(machine, n, event, version, passing)]
  IN  UNION {own[n] : n \in {m \in configuration :
                               \A d \in Inside(m, configuration) : own[d] = {}}}

Guards(machine, configuration, event) ==
  {s \in UNION {Candidates(machine, n, event, v) : n \in configuration, v \in Versions} :
     TransitionAt(machine, s) = "guarded"}

Sites(machine, selection, forbidden) ==
  {<<s[1], s[2]>> : s \in {t \in selection : (TransitionAt(machine, t) = "forbidden") = forbidden}}

=============================================================================
