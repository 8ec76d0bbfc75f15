---------------------------- MODULE InspectionPolicy ----------------------------
(***************************************************************************)
(* The write policy, the redactor and the guard of                          *)
(* src/src/inspection-policy.ts, which the adapter and the bridge both use. *)
(*                                                                          *)
(* A JavaScript value is a tree [kind, keys, parts]: a "record" or "list"   *)
(* with its keys (a list's are its indices) and parts, a "text" or          *)
(* "scalar", a "json" string that holds parts[1], a "getter" (an accessor   *)
(* property), or "unsafe": a function, symbol, instance of a class, or a    *)
(* reference to an ancestor. Non-finite numbers, bigints and undefined,     *)
(* which lose their form but hide nothing, are scalars.                     *)
(*                                                                          *)
(* What to redact is a set of rules [keys, paths]: normalized keys, the     *)
(* default and the configured ones, and suffix paths with "*" for any one   *)
(* segment. The adapter's guard and the bridge's store are each configured  *)
(* with their own.                                                          *)
(***************************************************************************)
EXTENDS Integers, Sequences, FiniteSets, SequencesExt

CONSTANTS
  normalizeKey,  \* spelling of a key -> the key without case, "-" and "_"
  Budget,        \* 10_000: values visited in one call
  MaxDepth       \* 64

Key == DOMAIN normalizeKey

\* The key of a path without segments.
NoKey == ""

ASSUME PolicyAssumption ==
  /\ {"snapshot", NoKey} \subseteq Key
  /\ Budget \in Nat /\ MaxDepth \in Nat

\* A configured path has segments; a configured key may be normalized to "".
IsRules(rules) == rules.paths \subseteq Seq(Key \cup {"*"}) \ {<<>>}

Leaf(kind) == [kind |-> kind, keys |-> <<>>, parts |-> <<>>]
Record(keys, parts) == [kind |-> "record", keys |-> keys, parts |-> parts]
Redacted == Leaf("redacted")
Omitted == Leaf("omitted")
Containers == {"record", "list"}

\* What has parts under keys is a container; no key comes twice.
IsValue(v) ==
  /\ v = [kind |-> v.kind, keys |-> v.keys, parts |-> v.parts]
  /\ v.keys \in Seq(Key)
  /\ \A i, j \in DOMAIN v.keys : v.keys[i] = v.keys[j] => i = j
  /\ v.kind \notin Containers => v.keys = <<>>

\* Strings: what redaction leaves is one as well.
Texts == {"text", "json", "redacted", "omitted"}

Field(v, key) ==
  IF v.kind = "record" /\ Contains(v.keys, key)
  THEN v.parts[CHOOSE i \in DOMAIN v.keys : v.keys[i] = key]
  ELSE Leaf("scalar")

-----------------------------------------------------------------------------
(* Redaction. *)

Suffix(rule, path) ==
  /\ Len(rule) <= Len(path)
  /\ \A i \in DOMAIN rule : rule[i] \in {"*", path[Len(path) - Len(rule) + i]}

\* The root has no key: path.at(-1) ?? "".
LastKey(path) == IF path = <<>> THEN NoKey ELSE Last(path)

Secret(rules, path) ==
  normalizeKey[LastKey(path)] \in rules.keys \/ \E rule \in rules.paths : Suffix(rule, path)

\* Machine definitions may come as text, and are read before they are shown.
Parsed(v, path) ==
  IF path # <<>> /\ Last(path) = "definition" /\ v.kind \in Texts
  THEN IF v.kind = "json" /\ v.parts[1].kind \in Containers THEN v.parts[1] ELSE Omitted
  ELSE v

\* Variant of Unfit: the depth is one less.
UnfitEarly(value, path, remaining) ==
  Len(path) >= MaxDepth \/ value.kind = "unsafe" \/ Len(value.keys) > remaining

\* What is not copied, when remaining is left: too deep, not plain, or a container
\* that the budget cannot finish.
Unfit(value, path, remaining) ==
  Len(path) > MaxDepth \/ value.kind = "unsafe" \/ Len(value.keys) > remaining

\* The values inside another, each with its path: <<path, value>>.
Children(node) ==
  LET value == Parsed(node[2], node[1])
  IN  {<<Append(node[1], value.keys[i]), value.parts[i]>> : i \in DOMAIN value.keys}

\* The values that a visit of v can reach.
Reached(v) ==
  LET level[n \in 0 .. MaxDepth + 1] ==
        IF n = 0 THEN {<<<<>>, v>>} ELSE UNION {Children(node) : node \in level[n - 1]}
  IN  UNION {level[n] : n \in 0 .. MaxDepth + 1}

\* The copies of the first n parts of value and what is left of the budget then.
\* visits[<<node, remaining>>] is the same for one value; no accessor is called.
Copied(visits, path, value, remaining) ==
  LET part(i, left) ==
        IF value.parts[i].kind = "getter" THEN <<Omitted, left>>
        ELSE visits[<<<<Append(path, value.keys[i]), value.parts[i]>>, left>>]
      copied[n \in 0 .. Len(value.keys)] ==
        IF n = 0 THEN <<<<>>, remaining>>
        ELSE LET before == copied[n - 1]
                 next == part(n, before[2])
             IN  <<Append(before[1], next[1]), next[2]>>
  IN  copied

visit(rules, visits, v, path, remaining) ==
  LET value == Parsed(v, path)
      copy == Copied(visits, path, value, remaining - 1)[Len(value.keys)]
  IN  IF Secret(rules, path) THEN <<Redacted, remaining>>
      ELSE IF remaining = 0 THEN <<Omitted, 0>>
      ELSE IF Unfit(value, path, remaining - 1) THEN <<Omitted, remaining - 1>>
      ELSE IF value.kind \in Containers THEN <<[value EXCEPT !.parts = copy[1]], copy[2]>>
      ELSE <<value, remaining - 1>>

Visits(rules, root) ==
  LET visits[s \in Reached(root) \X (0 .. Budget)] == visit(rules, visits, s[1][2], s[1][1], s[2])
  IN  visits

redact(rules, v) == Visits(rules, v)[<<<<<<>>, v>>, Budget>>][1]

\* Variant of redactField: without the name, which configured paths may start with.
redactFieldUnnamed(rules, field, v) == redact(rules, v)

\* ActorStore: one payload under its canonical name.
redactField(rules, field, v) ==
  LET result == redact(rules, Record(<<field>>, <<v>>))
  IN  IF result.kind = "record" THEN result.parts[1] ELSE Omitted

\* What goes on the wire, "nothing" for null. (The type is abstracted to a text.)
serializeInspection(rules, enabled, v) ==
  LET sanitized == redact(rules, v)
  IN  IF /\ enabled /\ sanitized.kind = "record"
         /\ Field(sanitized, "type").kind = "text" /\ Field(sanitized, "sessionId").kind = "text"
      THEN sanitized ELSE Leaf("nothing")

-----------------------------------------------------------------------------
(* Writing. *)

\* Variant of Allowed: actor and event may come from different rules.
AllowedUnpaired(rules, sessionId, eventType) ==
  /\ \E rule \in rules : rule.actor \in {<<"*">>, sessionId}
  /\ \E rule \in rules : rule.events \cap {"*", eventType} # {}

Allowed(rules, sessionId, eventType) ==
  \E rule \in rules : /\ rule.actor \in {<<"*">>, sessionId}
                      /\ rule.events \cap {"*", eventType} # {}

\* A policy is [readOnly, rules], an id a sequence of words, <<"*">> any id; the
\* event type "" stands for an invalid one.
createWritePolicy(policy, sessionId, eventType) ==
  CASE policy.readOnly -> "read_only"
    [] ~policy.readOnly /\ eventType = "" -> "invalid_event"
    [] OTHER -> IF Allowed(policy.rules, sessionId, eventType) THEN "success"
                ELSE "write_not_allowed"

\* A command is [valid, sessionId, type]; actor is the id of the adapter's actor,
\* <<>> for undefined, and throws whether its send does.
dispatch(enabled, policy, actor, command, throws) ==
  IF ~enabled THEN "instrumentation_disabled"
  ELSE IF ~command.valid THEN "invalid_command"
  ELSE IF actor = <<>> \/ actor # command.sessionId THEN "actor_not_found"
  ELSE LET result == createWritePolicy(policy, actor, command.type)
       IN  IF result = "success" /\ throws THEN "dispatch_failed" ELSE result

=============================================================================
