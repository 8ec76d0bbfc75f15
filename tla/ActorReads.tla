-------------------------------- MODULE ActorReads --------------------------------
(***************************************************************************)
(* What the bridge answers from its store, and what passes through the      *)
(* policies on both sides: the tools list_actors, get_actor_tree,           *)
(* get_connection_health and send_event (src/src/tools, with the pages of   *)
(* connection-health.ts), the MCP resources and completions of              *)
(* mcp-server.ts, and an inspection envelope on its way from the            *)
(* application, through the adapter's guard if it has one, to the store.    *)
(* None of it changes state: a question is put to a store and answered in   *)
(* one step.                                                                *)
(*                                                                          *)
(* A store is the sequence of its actors in the order of registration, each *)
(* [id, connection, local, name, parent, status, defined]. Ids and names    *)
(* are sequences of words; an id starts with its connection.                *)
(***************************************************************************)
EXTENDS InspectionPolicy

CONSTANTS
  Question,   \* the questions put, by kind: see answer
  NoAnswer,
  NoId        \* null

\* An id is an actor's alone; ids and names are not empty.
IsStore(store) ==
  /\ store \in Seq(ToSet(store))
  /\ \A i, j \in DOMAIN store : store[i].id = store[j].id => i = j
  /\ \A a \in ToSet(store) : {a.id, a.local, a.name} \subseteq Seq(STRING) \ {<<>>}

ASSUME KindAssumption == \A q \in Question : q.kind \in {"send", "read", "page", "inspect"}
ASSUME SendAssumption ==
  \A q \in Question : q.kind = "send" =>
    /\ IsStore(q.store)
    /\ {q.server.readOnly, q.adapter.readOnly, q.adapter.enabled, q.adapter.throws} \subseteq BOOLEAN
ASSUME ReadAssumption ==  \* an id names its connection; a parent is one of the child's
  \A q \in Question : q.kind = "read" =>
    /\ IsStore(q.store)
    /\ \A a, b \in ToSet(q.store) :
         NoId # b.id /\ (a.parent = b.id => a.connection = b.connection)
ASSUME PageAssumption ==
  /\ NoId \notin Nat
  /\ \A q \in Question : q.kind = "page" =>
       /\ q.connections \in Seq(ToSet(q.connections))
       /\ q.limit \in Nat \ {0} /\ q.offset \in Nat
ASSUME EnvelopeAssumption ==  \* the guard's rules, if there is one, and the store's
  \A q \in Question : q.kind = "inspect" =>
    /\ q.guarded \in BOOLEAN /\ IsRules(q.guard) /\ IsRules(q.filter)
    /\ q.envelope.kind # "getter"
    /\ \A node \in Reached(q.envelope) : IsValue(Parsed(node[2], node[1]))

VARIABLES question, reply

vars == <<question, reply>>

Init == question \in Question /\ reply = NoAnswer

-----------------------------------------------------------------------------
(* The store's lists. "any" stands for a filter that was not given. *)

Ids(store) == {store[i].id : i \in DOMAIN store}

\* Array.filter: the members of s that are in K, in their order.
filter(s, K) ==
  LET kept[n \in 0 .. Len(s)] ==
        IF n = 0 THEN <<>>
        ELSE IF s[n] \in K THEN Append(kept[n - 1], s[n]) ELSE kept[n - 1]
  IN  kept[Len(s)]

listActors(store, status, connection) ==
  filter(store, {a \in ToSet(store) : /\ status \in {"any", a.status}
                                      /\ connection \in {"any", a.connection}})

getChildCount(store, id) == Cardinality({i \in DOMAIN store : store[i].parent = id})

\* The ids of the resources xstate://actor/{sessionId}/snapshot and /definition.
snapshotResources(store) == [i \in DOMAIN store |-> store[i].id]
definitionResources(store) ==
  snapshotResources(filter(store, {a \in ToSet(store) : a.defined}))

\* Completions of either template: ids by a prefix of the id or of the name.
complete(store, value) ==
  snapshotResources(filter(store, {a \in ToSet(store) : IsPrefix(value, a.id) \/ IsPrefix(value, a.name)}))

-----------------------------------------------------------------------------
(* get_actor_tree. *)

ChildrenOf(actors, id) == filter(actors, {a \in ToSet(actors) : a.parent = id})

\* Variant of Roots: only actors without a parent are roots.
RootsWithoutParent(actors) == filter(actors, {a \in ToSet(actors) : a.parent = NoId})

Roots(actors) ==
  filter(actors, {a \in ToSet(actors) : a.parent = NoId \/ a.parent \notin Ids(actors)})

\* The nodes of the first n actors of a list and the ids visited by then, where
\* node[<<a, visited>>] is the same for one of them.
Built(node, list, visited) ==
  LET built[n \in 0 .. Len(list)] ==
        IF n = 0 THEN <<<<>>, visited>>
        ELSE LET before == built[n - 1]
                 next == node[<<list[n], before[2] \cup {list[n].id}>>]
             IN  <<Append(before[1], next[1]), next[2]>>
  IN  built

\* Children are filtered before the first of them is built.
buildNode(node, actors, a, visited) ==
  LET unvisited == filter(ChildrenOf(actors, a.id), {c \in ToSet(actors) : c.id \notin visited})
      built == Built(node, unvisited, visited)[Len(unvisited)]
  IN  <<[id |-> a.id, children |-> built[1]], built[2]>>

getActorTree(store, connection) ==
  LET actors == listActors(store, "any", connection)
      roots  == Roots(actors)
      node[s \in ToSet(actors) \X SUBSET Ids(actors)] == buildNode(node, actors, s[1], s[2])
  IN  [tree |-> Built(node, roots, Ids(roots))[Len(roots)][1], totalActors |-> Len(actors)]

-----------------------------------------------------------------------------
(* get_connection_health: a page of the connections, each [id, actors, stale]. *)

Matching(connections, connectionId) ==
  filter(connections, {c \in ToSet(connections) : connectionId \in {"any", c.id}})

\* Variant of OnPage: a page holds one connection more.
OnPageOneMore(matching, offset, limit) == {i \in DOMAIN matching : offset < i /\ i <= offset + limit + 1}

OnPage(matching, offset, limit) == {i \in DOMAIN matching : offset < i /\ i <= offset + limit}

\* The totals count every connection, whatever the page and the filter.
healthSnapshot(connections, limit, connectionId, offset) ==
  LET matching == Matching(connections, connectionId)
      shown    == Cardinality(OnPage(matching, offset, limit))
  IN  [connections |-> [i \in 1 .. shown |-> matching[offset + i].id],
       omittedConnections |-> Len(matching) - shown,
       nextOffset |-> IF offset + shown < Len(matching) THEN offset + shown ELSE NoId,
       totals |-> [connectedClients |-> Len(connections),
                   clientsWithActors |-> Cardinality({i \in DOMAIN connections : connections[i].actors > 0}),
                   staleClients |-> Cardinality({i \in DOMAIN connections : connections[i].stale}),
                   registeredSessions |-> FoldLeft(LAMBDA n, c : n + c.actors, 0, connections)]]

-----------------------------------------------------------------------------
(* send_event, from the tool through the bridge's policy to the adapter's. *)

Resolve(store, target) ==
  LET matches == filter(store, {a \in ToSet(store) : a.name = target})
  IN  IF target \in Ids(store) THEN [code |-> "resolved", id |-> target]
      ELSE CASE Len(matches) = 1 -> [code |-> "resolved", id |-> matches[1].id]
             [] Len(matches) > 1 -> [code |-> "ambiguous"]
             [] OTHER -> [code |-> "not_found"]

\* A routable command as the adapter gets it: its actor is looked up by local id.
sendEvent(store, target, type, server, adapter) ==
  LET resolved == Resolve(store, target)
      actor == CHOOSE a \in ToSet(store) : a.id = resolved.id
      verdict == createWritePolicy(server, resolved.id, type)
  IN  IF resolved.code # "resolved" THEN resolved
      ELSE IF verdict # "success" THEN [code |-> verdict]
      ELSE LET local == actor.local
               result == dispatch(adapter.enabled, adapter, local,
                                  [valid |-> TRUE, sessionId |-> local, type |-> type],
                                  adapter.throws)
           IN  [code |-> result, taker |-> IF result \in {"success", "dispatch_failed"}
                                          THEN actor.id ELSE NoId]

-----------------------------------------------------------------------------
(* An envelope from the application to the store. *)

\* What is sent: without a guard, the envelope as it is. (JSON off a socket has lost its
\* accessors and functions; what a host hands to the store itself has not.)
sent(q) == IF q.guarded THEN serializeInspection(q.guard, q.enabled, q.envelope) ELSE q.envelope

\* The bridge takes no other snapshot than a record. (The record of marks that the
\* store puts for a snapshot it does not show is abstracted to a mark.)
inspect(q) ==
  LET snapshot == Field(sent(q), "snapshot")
  IN  [wire |-> sent(q),
       stored |-> IF snapshot.kind = "record" THEN redactField(q.filter, "snapshot", snapshot)
                  ELSE Leaf("nothing")]

answer(q) ==
  CASE q.kind = "send" -> sendEvent(q.store, q.target, q.type, q.server, q.adapter)
    [] q.kind = "read" -> getActorTree(q.store, q.connection)
    [] q.kind = "page" -> healthSnapshot(q.connections, q.limit, q.connectionId, q.offset)
    [] q.kind = "inspect" -> inspect(q)

Answer == reply = NoAnswer /\ reply' = answer(question) /\ UNCHANGED question

Spec == Init /\ [][Answer]_vars

-----------------------------------------------------------------------------
(* Properties. *)

Answered(kind) == reply # NoAnswer /\ question.kind = kind

\* What v shows at which path: either mark hides what was there.
Shown(kind) == IF kind \in {"redacted", "omitted"} THEN "mark" ELSE kind
At(v, path) ==
  LET level[n \in 0 .. MaxDepth + 2] ==
        IF n = 0 THEN {<<path, v>>}
        ELSE UNION {{<<Append(node[1], node[2].keys[i]), node[2].parts[i]>> : i \in DOMAIN node[2].keys} :
                      node \in level[n - 1]}
  IN  {<<node[1], Shown(node[2].kind)>> : node \in UNION {level[n] : n \in 0 .. MaxDepth + 2}}

\* Secret by a key, however it is spelled, or by the last segments of the path; the
\* whole by a key that is nothing but separators.
Hidden(rules, path) ==
  \/ path = <<>> /\ normalizeKey[NoKey] \in rules.keys
  \/ \E k \in DOMAIN path :
       LET end == SubSeq(path, k, Len(path))
       IN  \/ Len(end) = 1 /\ normalizeKey[end[1]] \in rules.keys
           \/ \E rule \in rules.paths :
                Len(rule) = Len(end) /\ \A i \in DOMAIN end : rule[i] # "*" => rule[i] = end[i]

\* No accessor is called, no definition stays text, nothing lies deeper than the limit.
Plain(shown) ==
  /\ shown[2] \notin {"getter", "unsafe"}
  /\ shown[1] # <<>> /\ Last(shown[1]) = "definition" => shown[2] \notin {"text", "json"}
  /\ Len(shown[1]) <= MaxDepth + 1

\* A value the guard's rules call secret is neither sent nor kept, and one the store's
\* rules call secret is not kept, whatever the other end's rules are and whether the
\* adapter has a guard or not, however values nest and wherever the budget and the
\* depth run out.
SecretsStay ==
  Answered("inspect") =>
    LET Stays(rules, shown) == Hidden(rules, shown[1]) => shown[2] \in {"mark", "nothing"}
        wire   == At(reply.wire, <<>>)
        stored == At(reply.stored, <<"snapshot">>)
    IN  /\ question.guarded =>
             /\ \A shown \in wire : Stays(question.guard, shown) /\ Plain(shown)
             /\ \A shown \in stored : Stays(question.guard, shown)
        /\ \A shown \in stored : Stays(question.filter, shown) /\ Plain(shown)
        /\ Hidden(question.filter, <<>>) => Shown(reply.stored.kind) \in {"mark", "nothing"}

\* What v should show with no budget: a secret or what is no plain value is marked
\* and hides what is inside.
Expected(rules, v) ==
  LET Inside(node) == IF Hidden(rules, node[1]) THEN {} ELSE Children(node)
      level[n \in 0 .. MaxDepth + 1] ==
        IF n = 0 THEN {<<<<>>, v>>} ELSE UNION {Inside(node) : node \in level[n - 1]}
      Mark(node) == LET kind == Parsed(node[2], node[1]).kind
                    IN  IF Hidden(rules, node[1]) \/ kind \in {"getter", "unsafe"} THEN "mark"
                        ELSE Shown(kind)
  IN  {<<node[1], Mark(node)>> : node \in UNION {level[n] : n \in 0 .. MaxDepth + 1}}

\* A record with a budget for all it should show and, but for marks, no value too deep.
Fits(expected) ==
  /\ Cardinality(expected) <= Budget /\ <<<<>>, "record">> \in expected
  /\ \A node \in expected : Len(node[1]) <= MaxDepth \/ node[2] = "mark"

\* What fits loses nothing but secrets: the wire shows all of an envelope that the
\* guard's rules leave, and the store all of a snapshot it is sent, by a guard or
\* without one, that its own rules leave.
OnlySecretsLost ==
  Answered("inspect") =>
    LET leaves == Expected(question.guard, question.envelope)
        snapshot == Field(reply.wire, "snapshot")
        keeps  == Expected(question.filter, Record(<<"snapshot">>, <<snapshot>>))
    IN  /\ /\ question.guarded /\ question.enabled /\ Fits(leaves)
           /\ \A f \in {"type", "sessionId"} : <<<<f>>, "text">> \in leaves
           => At(reply.wire, <<>>) = leaves
        /\ snapshot.kind = "record" /\ Fits(keeps) =>
             At(reply.stored, <<"snapshot">>) = {node \in keeps : node[1] # <<>>}

\* An application's actor takes an event when the caller named it, by its id or by
\* a name that is its alone and nobody's id, and one rule of the bridge and one
\* of the adapter pair the actor with the event. Completions offer what resolves.
EventReachesItsActor ==
  Answered("send") =>
    LET store == question.store
        Named(a) == \/ a.id = question.target
                    \/ /\ question.target \notin Ids(store)
                       /\ \A b \in ToSet(store) : b.name = question.target <=> b = a
        Pairs(policy) == IF policy.readOnly THEN {}
                         ELSE UNION {{r.actor} \X r.events : r \in policy.rules}
        Permits(policy, id) ==
          \E p \in Pairs(policy) : p[1] \in {<<"*">>, id} /\ p[2] \in {"*", question.type}
        takers == {a \in ToSet(store) :
                     /\ Named(a) /\ question.type # ""
                     /\ Permits(question.server, a.id)
                     /\ question.adapter.enabled /\ Permits(question.adapter, a.local)}
        taken == reply.code \in {"success", "dispatch_failed"}
    IN  /\ takers = {a \in ToSet(store) : taken /\ reply.taker = a.id}
        /\ taken => Contains(complete(store, question.target), reply.taker)

\* The nodes of a tree of at most depth + 1 levels, each with its place in it.
Nodes(tree, depth) ==
  LET level[n \in 0 .. depth] ==
        IF n = 0 THEN {<<<<i>>, tree[i]>> : i \in DOMAIN tree}
        ELSE UNION {{<<Append(placed[1], i), placed[2].children[i]>> : i \in DOMAIN placed[2].children} :
                      placed \in level[n - 1]}
  IN  UNION {level[n] : n \in 0 .. depth}

\* The tree shows each actor at most once and under its parent, with as many
\* children as list_actors counts, and leaves out those alone that no chain of
\* parents connects to a root, i.e. cycles of parents and what hangs from them.
TreeShowsEveryChain ==
  Answered("read") =>
    LET actors == ToSet(listActors(question.store, "any", question.connection))
        placed == Nodes(reply.tree, Len(question.store))
        nodes  == {p[2] : p \in placed}
        shown  == {n.id : n \in nodes}
        rooted == {a.id : a \in {b \in actors : b.parent = NoId \/ b.parent \notin Ids(question.store)}}
        closed == {S \in SUBSET {a.id : a \in actors} :
                     rooted \subseteq S /\ \A a \in actors : a.parent \in S => a.id \in S}
    IN  /\ Cardinality(placed) = Cardinality(shown)
        /\ shown = {id \in {a.id : a \in actors} : \A S \in closed : id \in S}
        /\ \A n \in nodes :
             /\ Len(n.children) = getChildCount(question.store, n.id)
             /\ \A i \in DOMAIN n.children :
                  \E a \in actors : a.id = n.children[i].id /\ a.parent = n.id
        /\ ToSet(definitionResources(question.store))
             = {a.id : a \in {b \in ToSet(question.store) : b.defined}}

\* A caller who follows nextOffset to its end sees every matching connection
\* once, in the order they came, whatever the limit; what a page omits is what the
\* other pages show, and no page changes the totals.
PagesCover ==
  Answered("page") =>
    LET Page(offset) == healthSnapshot(question.connections, question.limit,
                                       question.connectionId, offset)
        next[offset \in 0 .. Len(question.connections)] ==
          LET page == Page(offset)
          IN  page.connections \o IF page.nextOffset = NoId THEN <<>> ELSE next[page.nextOffset]
        matching == Matching(question.connections, question.connectionId)
        ids == [i \in DOMAIN matching |-> matching[i].id]
    IN  /\ next[0] = ids
        /\ Len(reply.connections) <= question.limit
        /\ Len(reply.connections) + reply.omittedConnections = Len(ids)
        /\ reply.nextOffset # NoId => reply.connections # <<>> /\ question.offset < reply.nextOffset
        /\ reply.totals = Page(0).totals

=============================================================================
