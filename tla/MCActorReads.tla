------------------------------ MODULE MCActorReads ------------------------------
\* Stores of five actors on two connections with any parents; commands to
\* three actors with colliding names; pages of up to five connections; envelopes
\* with nested and odd payloads.
EXTENDS ActorReads, TLC

Normal == [k \in {"", "token", "To-Ken", "pin", "definition", "snapshot", "type", "sessionId", "a", "0", "1"} |->
             IF k = "To-Ken" THEN "token" ELSE k]

Actor(c, l, name, parent, defined) ==
  [id |-> <<c, l>>, connection |-> c, local |-> <<l>>, name |-> name, parent |-> parent,
   status |-> "active", defined |-> defined]

\* c1 has four actors and c2 one; ids of parents are scoped.
Parents == {NoId, <<"c1", "x">>, <<"c1", "y">>, <<"c1", "z">>, <<"c1", "gone">>}
Reads ==
  {[kind |-> "read", connection |-> c,
    store |-> <<Actor("c1", "x", <<"m">>, p, TRUE), Actor("c2", "x", <<"m">>, NoId, FALSE),
                Actor("c1", "y", <<"m">>, q, FALSE), Actor("c1", "z", <<"n">>, r, TRUE),
                Actor("c1", "w", <<"n">>, s, TRUE)>>] :
     c \in {"any", "c1", "c2"}, p \in Parents, q \in Parents, r \in Parents, s \in Parents}

\* The last actor's name is its own, another's name, or another's id.
Rules == {[actor |-> a, events |-> E] :
            a \in {<<"*">>, <<"c1", "x">>}, E \in {{"go"}, {"stop"}, {"*"}}}
LocalRules == {[actor |-> a, events |-> E] : a \in {<<"*">>, <<"x">>}, E \in {{"go"}, {"stop"}}}
UpToTwo(rules) == {R \in SUBSET rules : Cardinality(R) <= 2}
Sends ==
  {[kind |-> "send", type |-> e, target |-> t,
    store |-> <<Actor("c1", "x", <<"m">>, NoId, TRUE), Actor("c2", "x", <<"k">>, NoId, TRUE),
                Actor("c1", "y", n, NoId, TRUE)>>,
    server |-> [readOnly |-> ro, rules |-> R],
    adapter |-> [enabled |-> on, readOnly |-> FALSE, rules |-> L, throws |-> e = "stop"]] :
     e \in {"go", "stop", ""}, t \in {<<"c1", "x">>, <<"m">>, <<"k">>, <<"none">>},
     n \in {<<"n">>, <<"m">>, <<"c1", "x">>},
     ro \in BOOLEAN, R \in UpToTwo(Rules), L \in UpToTwo(LocalRules), on \in BOOLEAN}

Connection(i, actors, stale) == [id |-> ToString(i), actors |-> actors, stale |-> stale]
Pages ==
  {[kind |-> "page", limit |-> l, connectionId |-> id, offset |-> o,
    connections |-> [i \in 1 .. n |-> Connection(i, i % 3, i % 2 = 0)]] :
     n \in 0 .. 5, l \in 1 .. 6, o \in 0 .. 6, id \in {"any", "2", "gone"}}

Keys == {"To-Ken", "pin", "definition", "a"}
Leaves == {Leaf("text"), Leaf("unsafe"), Leaf("getter"),
           [Leaf("json") EXCEPT !.parts = <<Record(<<"token">>, <<Leaf("text")>>)>>]}
One(K, V) == {Record(<<k>>, <<v>>) : k \in K, v \in V}
Two(K, V, W) == {Record(<<k, l>>, <<v, w>>) : k \in K, l \in K, v \in V, w \in W}
Plainly(S) == {v \in S : v.kind # "getter"}
Distinct(S) == {v \in S : Len(v.keys) < 2 \/ v.keys[1] # v.keys[2]}
Flat == Leaves \cup One(Keys, Leaves) \cup Distinct(Two(Keys, Leaves, Leaves))
        \cup {[kind |-> "list", keys |-> <<"0", "1">>, parts |-> <<v, w>>] : v \in Leaves, w \in Leaves}
Nested == Flat \cup One(Keys, Flat) \cup Distinct(Two(Keys, Flat, Leaves))
          \cup One({"a"}, One({"a"}, One({"a"}, Plainly(Leaves))))
Envelope(id, v) == Record(<<"type", "sessionId", "snapshot">>, <<Leaf("text"), id, v>>)
Inspect(guarded, atGuard, atStore, on, id, v) ==
  [kind |-> "inspect", guarded |-> guarded, guard |-> atGuard, filter |-> atStore, enabled |-> on,
   envelope |-> Envelope(id, v)]

\* One set of rules at both ends, others at either end, and a key of separators alone.
Default == [keys |-> {"token"}, paths |-> {<<"snapshot", "*", "pin">>}]
Other   == [keys |-> {"token", "a"}, paths |-> {<<"snapshot", "definition">>}]
Nothing == [keys |-> {""}, paths |-> {}]
Envelopes ==
  {Inspect(TRUE, Default, Default, TRUE, Leaf("text"), v) : v \in Plainly(Nested)}
  \cup {Inspect(g, atGuard, atStore, TRUE, Leaf("text"), v) :
          g \in BOOLEAN, atGuard \in {Default, Nothing}, atStore \in {Default, Other, Nothing}, v \in Plainly(Flat)}
  \cup {Inspect(TRUE, Default, Other, on, id, v) :
          on \in BOOLEAN, id \in {Leaf("text"), Leaf("unsafe")}, v \in Plainly(Flat)}

Questions == Envelopes \cup Sends \cup Pages \cup Reads

=============================================================================
