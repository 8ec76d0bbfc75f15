--------------------------- MODULE MCEventEligibility ---------------------------
\* Single states with every handler list of up to two transitions, and trees of
\* nested and parallel states with a few handlers each.
EXTENDS EventEligibility, TLC

Go == <<"go", "now">>
Events == {<<>>, Go, <<"go">>, <<"xstate", "init">>}

\* 0 (1 (2 (6) 3) 4 5)
Tree == (1 :> 0) @@ (2 :> 1) @@ (3 :> 1) @@ (4 :> 0) @@ (5 :> 0) @@ (6 :> 2)

Lists == UNION {[1 .. k -> Transition] : k \in 0 .. 2}
Handlers == {<<"*", "*">> :> <<"acts">>}
            \cup UNION {[D -> Lists] : D \in SUBSET {Go, <<"go", "*">>, <<"*">>}}
Single == {0 :> [kind |-> "atomic", on |-> h] : h \in Handlers}

None0 == [d \in {} |-> <<>>]
Few == {None0, Go :> <<"acts">>, <<"*">> :> <<"forbidden">>, Go :> <<"guarded", "acts">>,
        (Go :> <<>>) @@ (<<"go", "now", "*">> :> <<"acts">>)}

State(k, h) == [kind |-> k, on |-> h]
Trees ==
  {[n \in 0 .. 5 |->
      CASE n = 0 -> State(k0, h0) [] n = 1 -> State(k1, h1) [] n = 2 -> State("atomic", h2)
        [] n = 3 -> State("final", None0) [] n = 4 -> State("atomic", h4)
        [] n = 5 -> State("history", None0)] :
     k0 \in {"compound", "parallel"}, k1 \in {"compound", "parallel"},
     h0 \in {None0, <<"go", "*">> :> <<"acts">>}, h1 \in Few, h2 \in Few,
     h4 \in {None0, <<"*">> :> <<"forbidden">>, Go :> <<"guarded", "acts">>}}

\* A chain that is one level deeper than the limit.
Deep ==
  {[n \in {0, 1, 2, 6} |->
      IF n = 6 THEN State("atomic", h) ELSE State("compound", Go :> <<"acts">>)] : h \in Few}

Machines == Single \cup Trees \cup Deep

=============================================================================
