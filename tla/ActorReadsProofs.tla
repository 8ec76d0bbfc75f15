----------------------------- MODULE ActorReadsProofs -----------------------------
(***************************************************************************)
(* Proofs about ActorReads and InspectionPolicy for any stores, policies,   *)
(* pages and payloads. A recursive definition is first shown to have a      *)
(* solution, which makes the function that CHOOSE picks one of them; what   *)
(* it computes then follows by induction over the set of naturals for which *)
(* it does.                                                                 *)
(***************************************************************************)
EXTENDS ActorReads, SequenceTheorems, FiniteSetTheorems, WellFoundedInduction, TLAPS

\* Induction over a set of naturals.
LEMMA Inductive ==
  ASSUME NEW X, 0 \in X, \A n \in Nat : n \in X => n + 1 \in X
  PROVE  \A n \in Nat : n \in X
<1> DEFINE R == {ss \in Nat \X Nat : ss[1] < ss[2]}
           bad == {n \in Nat : n \notin X}
<1>1. IsWellFoundedOn(R, Nat)
  BY NatLessThanWellFounded DEF OpToRel
<1>2. bad = {}
  <2> SUFFICES ASSUME bad # {} PROVE FALSE
    OBVIOUS
  <2>1. bad \subseteq Nat
    OBVIOUS
  <2>2. PICK n \in bad : \A m \in bad : <<m, n>> \notin R
    <3> HIDE DEF R, bad
    <3> QED  BY <1>1, <2>1, WFMin
  <2>3. n \in Nat /\ n \notin X /\ n # 0
    OBVIOUS
  <2>4. n - 1 \in Nat /\ n - 1 \in X
    <3>1. n - 1 \in Nat /\ n - 1 < n
      BY <2>3
    <3>2. <<n - 1, n>> \in R
      BY <2>3, <3>1
    <3> QED  BY <2>2, <3>1, <3>2
  <2> QED  BY <2>3, <2>4
<1> QED  BY <1>2

\* step[n] takes the values V[n - 1] of the level before to values in V[n], and
\* g is what it makes of base along 0 .. m.
Steps(m, V, base, step) ==
  /\ base \in V[0]
  /\ \A n \in 1 .. m : step[n] \in [V[n - 1] -> V[n]]
Runs(g, m, V, base, step) ==
  /\ g = [n \in 0 .. m |-> g[n]]
  /\ g[0] = base
  /\ \A n \in 1 .. m : g[n] = step[n][g[n - 1]]
  /\ \A n \in 0 .. m : g[n] \in V[n]

\* A recursion along 0 .. m has a solution.
LEMMA Recursion ==
  ASSUME NEW m \in Nat, NEW V, NEW base, NEW step, Steps(m, V, base, step)
  PROVE  \E g : Runs(g, m, V, base, step)
<1> USE DEF Steps, Runs
<1> DEFINE Solves(g, k) == /\ g = [n \in 0 .. k |-> g[n]]
                           /\ g[0] = base
                           /\ \A n \in 1 .. k : g[n] = step[n][g[n - 1]]
                           /\ \A n \in 0 .. k : g[n] \in V[n]
           X == {k \in Nat : k <= m => \E g : Solves(g, k)}
<1>1. 0 \in X
  <2>1. Solves([n \in 0 .. 0 |-> base], 0)
    OBVIOUS
  <2> QED  BY <2>1
<1>2. ASSUME NEW k \in Nat, k \in X PROVE k + 1 \in X
  <2> SUFFICES ASSUME k + 1 <= m PROVE \E h : Solves(h, k + 1)
    OBVIOUS
  <2>1. PICK g : Solves(g, k)
    <3>1. k <= m
      OBVIOUS
    <3> HIDE DEF Solves
    <3> QED  BY <1>2, <3>1
  <2> DEFINE last == step[k + 1][g[k]]
             h == [n \in 0 .. k + 1 |-> IF n = k + 1 THEN last ELSE g[n]]
  <2>2. last \in V[k + 1]
    <3>1. k + 1 \in 1 .. m /\ (k + 1) - 1 = k
      OBVIOUS
    <3>2. g[k] \in V[k]
      BY <2>1
    <3>3. step[k + 1] \in [V[k] -> V[k + 1]]
      BY <3>1
    <3> QED  BY <3>2, <3>3
  <2>3. h[k + 1] = last /\ \A n \in 0 .. k : h[n] = g[n]
    OBVIOUS
  <2>4. h = [n \in 0 .. k + 1 |-> h[n]]
    OBVIOUS
  <2>5. \A n \in 1 .. k + 1 : h[n] = step[n][h[n - 1]]
    <3> HIDE DEF h
    <3> TAKE n \in 1 .. k + 1
    <3>1. CASE n = k + 1
      <4>1. n - 1 = k /\ k \in 0 .. k
        BY <3>1
      <4> QED  BY <2>3, <3>1, <4>1
    <3>2. CASE n # k + 1
      <4>1. n \in 1 .. k /\ n \in 0 .. k /\ n - 1 \in 0 .. k
        BY <3>2
      <4>2. g[n] = step[n][g[n - 1]]
        BY <2>1, <4>1
      <4> QED  BY <2>3, <4>1, <4>2
    <3> QED  BY <3>1, <3>2
  <2>6. \A n \in 0 .. k + 1 : h[n] \in V[n]
    <3> HIDE DEF h
    <3> TAKE n \in 0 .. k + 1
    <3>1. n = k + 1 \/ n \in 0 .. k
      OBVIOUS
    <3> QED  BY <2>1, <2>2, <2>3, <3>1
  <2>7. h[0] = base
    <3>1. 0 \in 0 .. k
      OBVIOUS
    <3> HIDE DEF h
    <3> QED  BY <2>1, <2>3, <3>1
  <2> HIDE DEF h
  <2> QED  BY <2>4, <2>5, <2>6, <2>7
<1>3. m \in X
  <2> HIDE DEF X
  <2> QED  BY <1>1, <1>2, Inductive
<1>4. PICK g : Solves(g, m)
  BY <1>3
<1> QED  BY <1>4

\* What each step along 0 .. m keeps holds at its end.
LEMMA Followed ==
  ASSUME NEW m \in Nat, NEW V, NEW f, f[0] \in V[0],
         \A n \in 1 .. m : f[n - 1] \in V[n - 1] => f[n] \in V[n]
  PROVE  \A n \in 0 .. m : f[n] \in V[n]
<1> DEFINE X == {n \in Nat : n <= m => f[n] \in V[n]}
<1>1. 0 \in X
  OBVIOUS
<1>2. ASSUME NEW n \in Nat, n \in X PROVE n + 1 \in X
  <2> SUFFICES ASSUME n + 1 <= m PROVE f[n + 1] \in V[n + 1]
    OBVIOUS
  <2>1. n + 1 \in 1 .. m /\ (n + 1) - 1 = n /\ f[n] \in V[n]
    BY <1>2
  <2>2. f[(n + 1) - 1] \in V[(n + 1) - 1] => f[n + 1] \in V[n + 1]
    BY <2>1
  <2> QED  BY <2>1, <2>2
<1>3. \A n \in Nat : n \in X
  <2> HIDE DEF X
  <2> QED  BY <1>1, <1>2, Inductive
<1> QED  BY <1>3

-----------------------------------------------------------------------------
(* Array.filter. *)

LEMMA ToSetOf ==
  ASSUME NEW S, NEW s \in Seq(S)
  PROVE  \A x : x \in ToSet(s) <=> \E i \in 1 .. Len(s) : x = s[i]
BY DEF ToSet

LEMMA ToSetAppend ==
  ASSUME NEW S, NEW s \in Seq(S), NEW e \in S
  PROVE  ToSet(Append(s, e)) = ToSet(s) \cup {e}
<1>1. Append(s, e) \in Seq(S) /\ Len(Append(s, e)) = Len(s) + 1 /\ Len(s) \in Nat
  OBVIOUS
<1>2. \A i \in 1 .. Len(s) + 1 : Append(s, e)[i] = IF i = Len(s) + 1 THEN e ELSE s[i]
  OBVIOUS
<1>3. ASSUME NEW x PROVE x \in ToSet(Append(s, e)) <=> x \in ToSet(s) \/ x = e
  <2>1. x \in ToSet(Append(s, e)) <=> \E i \in 1 .. Len(s) + 1 : x = Append(s, e)[i]
    BY <1>1, ToSetOf
  <2>2. x \in ToSet(s) <=> \E i \in 1 .. Len(s) : x = s[i]
    BY ToSetOf
  <2>3. Len(s) + 1 \in 1 .. Len(s) + 1
    BY <1>1
  <2>4. \A i \in 1 .. Len(s) : i \in 1 .. Len(s) + 1 /\ i # Len(s) + 1
    BY <1>1
  <2>5. \A i \in 1 .. Len(s) + 1 : i = Len(s) + 1 \/ i \in 1 .. Len(s)
    BY <1>1
  <2> QED  BY <1>2, <2>1, <2>2, <2>3, <2>4, <2>5
<1> QED  BY <1>3

Distinct(s) == \A i, j \in 1 .. Len(s) : s[i] = s[j] => i = j

\* filter keeps exactly the members of K, as often as they occur.
LEMMA Filtered ==
  ASSUME NEW S, NEW s \in Seq(S), NEW K
  PROVE  /\ filter(s, K) \in Seq(S)
         /\ Len(filter(s, K)) = Cardinality({i \in 1 .. Len(s) : s[i] \in K})
         /\ ToSet(filter(s, K)) = ToSet(s) \cap K
         /\ Distinct(s) => Distinct(filter(s, K))
<1> DEFINE At1(n) == {i \in 1 .. n : s[i] \in K}
           Good(n) == {q \in Seq(S) : /\ Len(q) = Cardinality(At1(n))
                                      /\ ToSet(q) = {s[i] : i \in At1(n)}
                                      /\ Distinct(s) => Distinct(q)}
           V == [n \in Nat |-> Good(n)]
           next(n, q) == IF s[n] \in K THEN Append(q, s[n]) ELSE q
           step == [n \in 1 .. Len(s) |-> [q \in V[n - 1] |-> next(n, q)]]
           Solves(g) == g = [n \in 0 .. Len(s) |->
                               IF n = 0 THEN <<>>
                               ELSE IF s[n] \in K THEN Append(g[n - 1], s[n]) ELSE g[n - 1]]
           kept == CHOOSE g : Solves(g)
<1>1. Len(s) \in Nat /\ \A i \in 1 .. Len(s) : s[i] \in S
  OBVIOUS
<1>2. <<>> \in V[0]
  <2>1. At1(0) = {} /\ Cardinality({}) = 0
    BY FS_EmptySet
  <2>2. {s[i] : i \in At1(0)} = {} /\ ToSet(<<>>) = {} /\ Len(<<>>) = 0
    BY <2>1 DEF ToSet
  <2>3. Distinct(<<>>)
    BY DEF Distinct
  <2> QED  BY <2>1, <2>2, <2>3
<1>3. ASSUME NEW n \in 1 .. Len(s), NEW q \in V[n - 1] PROVE next(n, q) \in V[n]
  <2>1. n \in Nat /\ n - 1 \in Nat /\ s[n] \in S
    BY <1>1
  <2>2. /\ q \in Seq(S) /\ Len(q) = Cardinality(At1(n - 1))
        /\ ToSet(q) = {s[i] : i \in At1(n - 1)}
        /\ Distinct(s) => Distinct(q)
    BY <2>1
  <2>3. CASE s[n] \in K
    <3>1. At1(n) = At1(n - 1) \cup {n} /\ n \notin At1(n - 1)
      BY <2>1, <2>3
    <3>2. IsFiniteSet(At1(n - 1))
      <4>1. At1(n - 1) \subseteq 1 .. n - 1
        OBVIOUS
      <4>2. IsFiniteSet(1 .. n - 1)
        BY <2>1, FS_Interval
      <4> HIDE DEF At1
      <4> QED  BY <4>1, <4>2, FS_Subset
    <3>3. Cardinality(At1(n)) = Cardinality(At1(n - 1)) + 1
      <4> HIDE DEF At1
      <4> QED  BY <3>1, <3>2, FS_AddElement
    <3>4. next(n, q) = Append(q, s[n])
      BY <2>3
    <3>5. Append(q, s[n]) \in Seq(S) /\ Len(Append(q, s[n])) = Len(q) + 1
      BY <2>1, <2>2
    <3>6. ToSet(Append(q, s[n])) = ToSet(q) \cup {s[n]}
      BY <2>1, <2>2, ToSetAppend
    <3>7. {s[i] : i \in At1(n)} = {s[i] : i \in At1(n - 1)} \cup {s[n]}
      <4> HIDE DEF At1
      <4> QED  BY <3>1
    <3>8. ASSUME Distinct(s) PROVE Distinct(Append(q, s[n]))
      <4>1. s[n] \notin ToSet(q)
        BY <1>1, <2>1, <2>2, <3>8 DEF Distinct
      <4>2. \A i \in 1 .. Len(q) : q[i] # s[n]
        BY <2>2, <4>1, ToSetOf
      <4>3. Distinct(q)
        BY <2>2, <3>8
      <4> QED  BY <2>1, <2>2, <4>2, <4>3 DEF Distinct
    <3> HIDE DEF At1
    <3> QED  BY <2>1, <2>2, <3>3, <3>4, <3>5, <3>6, <3>7, <3>8
  <2>4. CASE s[n] \notin K
    <3>1. At1(n) = At1(n - 1)
      BY <2>1, <2>4
    <3>2. next(n, q) = q
      BY <2>4
    <3> HIDE DEF At1
    <3> QED  BY <2>1, <2>2, <3>1, <3>2
  <2> HIDE DEF V, next
  <2> QED  BY <2>3, <2>4
<1>4. PICK g : Runs(g, Len(s), V, <<>>, step)
  <2>1. Steps(Len(s), V, <<>>, step)
    <3> HIDE DEF V, next
    <3> QED  BY <1>2, <1>3 DEF Steps
  <2> HIDE DEF step, V
  <2> QED  BY <1>1, <2>1, Recursion
<1>5. Solves(g)
  <2> HIDE DEF V
  <2>1. \A n \in 0 .. Len(s) : g[n] = IF n = 0 THEN <<>> ELSE next(n, g[n - 1])
    <3> TAKE n \in 0 .. Len(s)
    <3>1. CASE n = 0
      BY <1>4, <3>1 DEF Runs
    <3>2. CASE n # 0
      <4>1. n \in 1 .. Len(s) /\ n - 1 \in 0 .. Len(s)
        BY <1>1, <3>2
      <4>2. g[n] = step[n][g[n - 1]] /\ g[n - 1] \in V[n - 1]
        BY <1>4, <4>1 DEF Runs
      <4> HIDE DEF next
      <4> QED  BY <3>2, <4>1, <4>2
    <3> QED  BY <3>1, <3>2
  <2> HIDE DEF step
  <2>2. g = [n \in 0 .. Len(s) |-> IF n = 0 THEN <<>> ELSE next(n, g[n - 1])]
    <3> HIDE DEF next
    <3> QED  BY <1>4, <2>1 DEF Runs
  <2> QED  BY <2>2
<1>6. Solves(kept)
  <2> HIDE DEF Solves
  <2> QED  BY <1>5
<1>7. filter(s, K) = kept[Len(s)]
  BY DEF filter
<1>8. kept[Len(s)] \in V[Len(s)]
  <2>1. kept[0] \in V[0]
    <3>1. kept[0] = <<>>
      <4> HIDE DEF kept
      <4> QED  BY <1>1, <1>6
    <3> HIDE DEF kept, V
    <3> QED  BY <1>2, <3>1
  <2>2. \A n \in 1 .. Len(s) : kept[n - 1] \in V[n - 1] => kept[n] \in V[n]
    <3> TAKE n \in 1 .. Len(s)
    <3>1. kept[n] = next(n, kept[n - 1])
      <4>1. n \in 0 .. Len(s) /\ n # 0
        BY <1>1
      <4> HIDE DEF kept
      <4> QED  BY <1>6, <4>1
    <3> HIDE DEF kept, V, next
    <3> QED  BY <1>3, <3>1
  <2>3. \A n \in 0 .. Len(s) : kept[n] \in V[n]
    <3> HIDE DEF kept, V
    <3> QED  BY <1>1, <2>1, <2>2, Followed
  <2> HIDE DEF kept, V
  <2> QED  BY <1>1, <2>3
<1>9. {s[i] : i \in At1(Len(s))} = ToSet(s) \cap K
  BY DEF ToSet
<1>10. V[Len(s)] = Good(Len(s))
  <2> HIDE DEF Good
  <2> QED  BY <1>1
<1>11. filter(s, K) \in Good(Len(s))
  <2> HIDE DEF kept, V, Good
  <2> QED  BY <1>7, <1>8, <1>10
<1> HIDE DEF kept, V
<1> QED  BY <1>9, <1>11

-----------------------------------------------------------------------------
(* What is answered, for any question. *)

ReadInv == question \in Question /\ reply \in {NoAnswer, answer(question)}

\* The reply is none, or the answer to the question put.
LEMMA AnswersOnly == Spec => []ReadInv
<1>1. Init => ReadInv
  BY DEF Init, ReadInv
<1>2. ReadInv /\ [Answer]_vars => ReadInv'
  <2> SUFFICES ASSUME ReadInv, [Answer]_vars PROVE ReadInv'
    OBVIOUS
  <2>1. CASE Answer
    BY <2>1 DEF ReadInv, Answer
  <2>2. CASE UNCHANGED vars
    BY <2>2 DEF ReadInv, vars
  <2> QED  BY <2>1, <2>2
<1> QED  BY <1>1, <1>2, PTL DEF Spec

-----------------------------------------------------------------------------
(* send_event. *)

\* The caller named a: by its id, or by a name that is its alone and nobody's id.
NamedBy(store, target, a) ==
  \/ a.id = target
  \/ /\ target \notin Ids(store)
     /\ \A b \in ToSet(store) : b.name = target <=> b = a

\* The tool resolves a target to the one actor it names, and to none if there is
\* no such actor.
LEMMA ResolvesTheNamed ==
  ASSUME NEW store, IsStore(store), NEW target
  PROVE  LET resolved == Resolve(store, target) IN
         \/ /\ resolved.code = "resolved"
            /\ \E a \in ToSet(store) :
                 /\ a.id = resolved.id
                 /\ a.id = target \/ a.name = target
                 /\ \A b \in ToSet(store) : NamedBy(store, target, b) <=> b = a
         \/ /\ resolved.code \in {"ambiguous", "not_found"}
            /\ \A b \in ToSet(store) : ~ NamedBy(store, target, b)
<1> DEFINE named == {a \in ToSet(store) : a.name = target}
           matches == filter(store, named)
           S == ToSet(store)
<1>1. store \in Seq(S) /\ \A i, j \in DOMAIN store : store[i].id = store[j].id => i = j
  BY DEF IsStore
<1>2. Distinct(store)
  BY <1>1 DEF Distinct
<1>3. /\ matches \in Seq(S) /\ Distinct(matches) /\ ToSet(matches) = named
      /\ Len(matches) \in Nat
  <2> HIDE DEF named, S
  <2>1. matches \in Seq(S) /\ Distinct(matches) /\ ToSet(matches) = ToSet(store) \cap named
    BY <1>1, <1>2, Filtered
  <2> QED  BY <2>1 DEF named, S
<1>31. Len(matches) \in Nat
  BY <1>3
<1>4. \A x : x \in named <=> \E i \in 1 .. Len(matches) : x = matches[i]
  <2> HIDE DEF matches
  <2> QED  BY <1>3, ToSetOf
<1>5. \A a, b \in S : a.id = b.id => a = b
  <2>1. \A x \in S : \E i \in DOMAIN store : x = store[i]
    BY <1>1 DEF ToSet
  <2> QED  BY <1>1, <2>1
<1>6. \A x : x \in Ids(store) <=> \E a \in S : x = a.id
  <2>1. \A x : x \in S <=> \E i \in DOMAIN store : x = store[i]
    BY <1>1 DEF ToSet
  <2> QED  BY <2>1 DEF Ids
<1>7. CASE target \in Ids(store)
  <2>1. PICK a \in S : a.id = target
    BY <1>6, <1>7
  <2>2. Resolve(store, target) = [code |-> "resolved", id |-> target]
    BY <1>7 DEF Resolve
  <2>3. \A b \in S : NamedBy(store, target, b) <=> b = a
    BY <1>5, <1>7, <2>1 DEF NamedBy
  <2> QED  BY <2>1, <2>2, <2>3
<1>8. CASE target \notin Ids(store)
  <2>1. \A b \in S : NamedBy(store, target, b) <=> named = {b}
    <3> SUFFICES ASSUME NEW b \in S PROVE NamedBy(store, target, b) <=> named = {b}
      OBVIOUS
    <3>1. b.id # target
      BY <1>6, <1>8
    <3> QED  BY <1>8, <3>1 DEF NamedBy
  <2>2. CASE Len(matches) = 1
    <3>1. named = {matches[1]} /\ matches[1] \in S /\ matches[1].name = target
      <4>1. 1 .. Len(matches) = {1}
        <5> HIDE DEF matches
        <5> QED  BY <2>2
      <4> HIDE DEF matches, named
      <4>2. named = {matches[1]}
        BY <1>4, <4>1
      <4> QED  BY <4>2 DEF named
    <3>2. Resolve(store, target) = [code |-> "resolved", id |-> matches[1].id]
      <4>1. ~ (Len(matches) > 1)
        BY <2>2
      <4> QED  BY <1>8, <2>2, <4>1, Zenon DEF Resolve
    <3> HIDE DEF matches, named
    <3> QED  BY <2>1, <3>1, <3>2
  <2>3. CASE Len(matches) > 1
    <3>1. 1 \in 1 .. Len(matches) /\ 2 \in 1 .. Len(matches)
      BY <1>3, <2>3
    <3>2. matches[1] # matches[2]
      BY <1>3, <3>1 DEF Distinct
    <3>3. \A b : named # {b}
      <4> HIDE DEF matches, named
      <4> QED  BY <1>4, <3>1, <3>2
    <3>4. Resolve(store, target) = [code |-> "ambiguous"]
      <4>1. Len(matches) # 1
        <5>1. \A n \in Nat : n > 1 => n # 1
          OBVIOUS
        <5> HIDE DEF matches
        <5> QED  BY <1>31, <2>3, <5>1
      <4> HIDE DEF matches
      <4> QED  BY <1>8, <2>3, <4>1, Zenon DEF Resolve, matches
    <3> HIDE DEF matches, named
    <3> QED  BY <2>1, <3>3, <3>4
  <2>4. CASE Len(matches) = 0
    <3>1. named = {}
      <4> HIDE DEF matches, named
      <4> QED  BY <1>4, <2>4
    <3>2. Resolve(store, target) = [code |-> "not_found"]
      <4>1. Len(matches) # 1 /\ ~ (Len(matches) > 1)
        BY <2>4
      <4> QED  BY <1>8, <4>1, Zenon DEF Resolve
    <3> HIDE DEF named
    <3> QED  BY <2>1, <3>1, <3>2
  <2>5. Len(matches) = 0 \/ Len(matches) = 1 \/ Len(matches) > 1
    <3> HIDE DEF matches
    <3> QED  BY <1>31
  <2> HIDE DEF matches, named, S
  <2> QED  BY <2>2, <2>3, <2>4, <2>5
<1> QED  BY <1>7, <1>8

\* A policy lets a pair of actor and event through when it is not read-only, the
\* event is valid and one rule pairs the two.
Permits(policy, id, type) ==
  ~ policy.readOnly /\ type # "" /\ Allowed(policy.rules, id, type)

\* The code tells which: of the bridge's policy, and of the adapter's dispatch.
LEMMA Verdicts ==
  ASSUME NEW policy, policy.readOnly \in BOOLEAN, NEW id, NEW type
  PROVE  /\ createWritePolicy(policy, id, type) = "success" <=> Permits(policy, id, type)
         /\ createWritePolicy(policy, id, type)
              \in {"success", "read_only", "invalid_event", "write_not_allowed"}
<1>1. CASE policy.readOnly
  <2>1. createWritePolicy(policy, id, type) = "read_only"
    BY <1>1, Zenon DEF createWritePolicy
  <2> QED  BY <1>1, <2>1 DEF Permits
<1>2. CASE ~ policy.readOnly /\ type = ""
  <2>1. createWritePolicy(policy, id, type) = "invalid_event"
    BY <1>2, Zenon DEF createWritePolicy
  <2> QED  BY <1>2, <2>1 DEF Permits
<1>3. CASE ~ policy.readOnly /\ type # ""
  <2>1. createWritePolicy(policy, id, type)
          = IF Allowed(policy.rules, id, type) THEN "success" ELSE "write_not_allowed"
    BY <1>3, Zenon DEF createWritePolicy
  <2> QED  BY <1>3, <2>1 DEF Permits
<1> QED  BY <1>1, <1>2, <1>3

LEMMA Dispatched ==
  ASSUME NEW policy, policy.readOnly \in BOOLEAN, NEW enabled \in BOOLEAN, NEW throws \in BOOLEAN,
         NEW id, id # <<>>, NEW type
  PROVE  dispatch(enabled, policy, id, [valid |-> TRUE, sessionId |-> id, type |-> type], throws)
           \in {"success", "dispatch_failed"}
           <=> enabled /\ Permits(policy, id, type)
<1> DEFINE command == [valid |-> TRUE, sessionId |-> id, type |-> type]
           verdict == createWritePolicy(policy, id, type)
<1>1. command.valid /\ command.sessionId = id /\ command.type = type
  OBVIOUS
<1>2. CASE ~ enabled
  <2>1. dispatch(enabled, policy, id, command, throws) = "instrumentation_disabled"
    BY <1>2 DEF dispatch
  <2> QED  BY <1>2, <2>1
<1>3. CASE enabled
  <2> HIDE DEF command
  <2>1. dispatch(enabled, policy, id, command, throws)
          = IF verdict = "success" /\ throws THEN "dispatch_failed" ELSE verdict
    BY <1>1, <1>3 DEF dispatch
  <2>2. /\ verdict = "success" <=> Permits(policy, id, type)
        /\ verdict \in {"success", "read_only", "invalid_event", "write_not_allowed"}
    BY Verdicts
  <2> QED  BY <1>3, <2>1, <2>2 DEF command
<1> QED  BY <1>2, <1>3

\* What the property calls a permit is what the policies let through.
Paired(policy, id, type) ==
  \E p \in IF policy.readOnly THEN {} ELSE UNION {{r.actor} \X r.events : r \in policy.rules} :
    p[1] \in {<<"*">>, id} /\ p[2] \in {"*", type}

LEMMA PairsPermit ==
  ASSUME NEW policy, NEW id, NEW type
  PROVE  Paired(policy, id, type) <=> ~ policy.readOnly /\ Allowed(policy.rules, id, type)
<1> DEFINE pairs == IF policy.readOnly THEN {}
                    ELSE UNION {{r.actor} \X r.events : r \in policy.rules}
           paired == \E p \in pairs : p[1] \in {<<"*">>, id} /\ p[2] \in {"*", type}
<1>0. Paired(policy, id, type) <=> paired
  BY DEF Paired
<1>1. CASE policy.readOnly
  BY <1>0, <1>1
<1>2. CASE ~ policy.readOnly
  <2>1. ASSUME paired PROVE Allowed(policy.rules, id, type)
    <3>1. PICK p \in pairs : p[1] \in {<<"*">>, id} /\ p[2] \in {"*", type}
      BY <2>1
    <3>2. PICK r \in policy.rules : p \in {r.actor} \X r.events
      BY <1>2
    <3>3. p[1] = r.actor /\ p[2] \in r.events
      BY <3>2
    <3> QED  BY <3>1, <3>3 DEF Allowed
  <2>2. ASSUME Allowed(policy.rules, id, type) PROVE paired
    <3>1. PICK r \in policy.rules : r.actor \in {<<"*">>, id} /\ r.events \cap {"*", type} # {}
      BY <2>2 DEF Allowed
    <3>2. PICK e \in r.events : e \in {"*", type}
      BY <3>1
    <3>3. <<r.actor, e>> \in pairs
      BY <1>2, <3>2
    <3> QED  BY <3>1, <3>2, <3>3
  <2> HIDE DEF paired
  <2> QED  BY <1>0, <1>2, <2>1, <2>2
<1> QED  BY <1>1, <1>2

\* Completions offer an actor whose id or name the value begins, itself included.
LEMMA CompletesWhatItNames ==
  ASSUME NEW store, IsStore(store), NEW a \in ToSet(store), NEW target,
         a.id = target \/ a.name = target
  PROVE  Contains(complete(store, target), a.id)
<1> DEFINE S == ToSet(store)
           offered == {b \in S : IsPrefix(target, b.id) \/ IsPrefix(target, b.name)}
           list == filter(store, offered)
<1>1. a.id \in Seq(STRING) /\ a.name \in Seq(STRING)
  BY DEF IsStore
<1>2. IsPrefix(target, target)
  BY <1>1 DEF IsPrefix
<1>3. a \in offered
  BY <1>2
<1>4. list \in Seq(S) /\ ToSet(list) = offered
  <2> HIDE DEF offered, S
  <2>1. store \in Seq(S)
    BY DEF IsStore, S
  <2>2. list \in Seq(S) /\ ToSet(list) = S \cap offered
    BY <2>1, Filtered DEF S
  <2> QED  BY <2>2 DEF offered
<1>5. PICK i \in 1 .. Len(list) : a = list[i]
  <2> HIDE DEF list, offered, S
  <2> QED  BY <1>3, <1>4, ToSetOf
<1>6. complete(store, target) = [j \in 1 .. Len(list) |-> list[j].id]
  <2>1. complete(store, target) = [j \in DOMAIN list |-> list[j].id]
    BY DEF complete, snapshotResources
  <2>2. DOMAIN list = 1 .. Len(list)
    <3> HIDE DEF list, S
    <3> QED  BY <1>4
  <2> HIDE DEF list
  <2> QED  BY <2>1, <2>2
<1>7. Len(complete(store, target)) = Len(list)
  <2> HIDE DEF list, S
  <2>1. Len(list) \in Nat
    BY <1>4
  <2> QED  BY <1>6, <2>1
<1> HIDE DEF list
<1> QED  BY <1>5, <1>6, <1>7 DEF Contains

\* The actor that takes an event is the one the caller named and both policies let
\* through: EventReachesItsActor, for any store, rules and command.
LEMMA SendReaches ==
  ASSUME question \in Question, question.kind = "send", reply = answer(question)
  PROVE  EventReachesItsActor
<1> DEFINE store == question.store
           target == question.target
           type == question.type
           server == question.server
           adapter == question.adapter
           resolved == Resolve(store, target)
           actor == CHOOSE a \in ToSet(store) : a.id = resolved.id
           verdict == createWritePolicy(server, resolved.id, type)
           result == dispatch(adapter.enabled, adapter, actor.local,
                              [valid |-> TRUE, sessionId |-> actor.local, type |-> type],
                              adapter.throws)
           taken == reply.code \in {"success", "dispatch_failed"}
           takers == {a \in ToSet(store) :
                        /\ NamedBy(store, target, a)
                        /\ Permits(server, a.id, type)
                        /\ adapter.enabled /\ Permits(adapter, a.local, type)}
<1>1. /\ IsStore(store)
      /\ server.readOnly \in BOOLEAN /\ adapter.readOnly \in BOOLEAN
      /\ adapter.enabled \in BOOLEAN /\ adapter.throws \in BOOLEAN
  BY SendAssumption
<1>2. reply = IF resolved.code # "resolved" THEN resolved
              ELSE IF verdict # "success" THEN [code |-> verdict]
              ELSE [code |-> result, taker |-> IF result \in {"success", "dispatch_failed"}
                                               THEN actor.id ELSE NoId]
  <2>1. answer(question) = sendEvent(store, target, type, server, adapter)
    BY Zenon DEF answer
  <2> QED  BY <2>1, Zenon DEF sendEvent
<1>3. takers = {a \in ToSet(store) : taken /\ reply.taker = a.id}
      /\ (taken => Contains(complete(store, target), reply.taker))
  <2>1. CASE resolved.code # "resolved"
    <3>1. resolved.code \in {"ambiguous", "not_found"} /\ \A b \in ToSet(store) : ~ NamedBy(store, target, b)
      <4> HIDE DEF store, target
      <4> QED  BY <1>1, <2>1, ResolvesTheNamed DEF resolved
    <3>2. ~ taken
      <4> HIDE DEF resolved
      <4> QED  BY <1>2, <2>1, <3>1
    <3> HIDE DEF taken
    <3> QED  BY <3>1, <3>2
  <2>2. CASE resolved.code = "resolved"
    <3>1. PICK a \in ToSet(store) : /\ a.id = resolved.id
                                    /\ a.id = target \/ a.name = target
                                    /\ \A b \in ToSet(store) : NamedBy(store, target, b) <=> b = a
      <4> HIDE DEF store, target
      <4> QED  BY <1>1, <2>2, ResolvesTheNamed DEF resolved
    <3>2. \A b \in ToSet(store) : b.id = a.id => b = a
      <4>1. \A b \in ToSet(store) : \E i \in DOMAIN store : b = store[i]
        BY DEF ToSet
      <4> HIDE DEF store
      <4> QED  BY <1>1, <4>1 DEF IsStore
    <3>3. actor = a
      <4> HIDE DEF resolved, store
      <4> QED  BY <3>1, <3>2
    <3>4. takers = IF Permits(server, a.id, type) /\ adapter.enabled /\ Permits(adapter, a.local, type)
                   THEN {a} ELSE {}
      <4> HIDE DEF store, target, server, adapter, type
      <4> QED  BY <3>1
    <3>5. verdict = "success" <=> Permits(server, a.id, type)
      <4> HIDE DEF server, type, resolved
      <4> QED  BY <1>1, <3>1, Verdicts
    <3>6. verdict \notin {"success", "dispatch_failed"} \/ verdict = "success"
      <4> HIDE DEF server, type, resolved
      <4> QED  BY <1>1, Verdicts
    <3>7. result \in {"success", "dispatch_failed"} <=> adapter.enabled /\ Permits(adapter, a.local, type)
      <4>1. a.local # <<>>
        <5> HIDE DEF store
        <5> QED  BY <1>1 DEF IsStore
      <4> HIDE DEF adapter, type, actor, store
      <4> QED  BY <1>1, <3>3, <4>1, Dispatched
    <3>8. Contains(complete(store, target), a.id)
      <4> HIDE DEF store, target
      <4> QED  BY <1>1, <3>1, CompletesWhatItNames
    <3>9. CASE verdict # "success"
      <4>1. reply = [code |-> verdict]
        <5> HIDE DEF resolved, verdict, result, actor
        <5> QED  BY <1>2, <2>2, <3>9
      <4>2. ~ taken
        <5> HIDE DEF verdict
        <5> QED  BY <3>6, <3>9, <4>1
      <4> HIDE DEF takers, taken, verdict
      <4> QED  BY <3>4, <3>5, <3>9, <4>2
    <3>10. CASE verdict = "success"
      <4>1. reply = [code |-> result, taker |-> IF result \in {"success", "dispatch_failed"}
                                               THEN a.id ELSE NoId]
        <5> HIDE DEF resolved, verdict, result, actor
        <5> QED  BY <1>2, <2>2, <3>3, <3>10
      <4>2. reply.code = result /\ (taken => reply.taker = a.id)
        <5> HIDE DEF result
        <5> QED  BY <4>1
      <4>3. takers = IF taken THEN {a} ELSE {}
        <5> HIDE DEF takers, verdict, result
        <5> QED  BY <3>4, <3>5, <3>7, <3>10, <4>2
      <4>4. \A b \in ToSet(store) : reply.taker = b.id /\ taken <=> b = a /\ taken
        <5> HIDE DEF taken, store
        <5> QED  BY <3>2, <4>2
      <4> HIDE DEF takers, taken, store
      <4> QED  BY <3>8, <4>2, <4>3, <4>4
    <3> QED  BY <3>9, <3>10
  <2> QED  BY <2>1, <2>2
<1>4. takers = {a \in ToSet(store) :
                  /\ \/ a.id = target
                     \/ /\ target \notin Ids(store)
                        /\ \A b \in ToSet(store) : b.name = target <=> b = a
                  /\ type # ""
                  /\ Paired(server, a.id, type)
                  /\ adapter.enabled /\ Paired(adapter, a.local, type)}
  <2> HIDE DEF store, target, server, adapter, type
  <2>1. \A id : Paired(server, id, type) <=> ~ server.readOnly /\ Allowed(server.rules, id, type)
    BY PairsPermit
  <2>2. \A id : Paired(adapter, id, type) <=> ~ adapter.readOnly /\ Allowed(adapter.rules, id, type)
    BY PairsPermit
  <2> QED  BY <2>1, <2>2 DEF NamedBy, Permits
<1> HIDE DEF takers
<1> QED  BY <1>3, <1>4 DEF EventReachesItsActor, Answered, Paired

\* An event reaches the actor the caller named and both policies let through, or
\* none.
THEOREM EventReachesItsActorHolds == Spec => []EventReachesItsActor
<1>1. ReadInv => EventReachesItsActor
  <2> SUFFICES ASSUME ReadInv, Answered("send") PROVE EventReachesItsActor
    BY DEF EventReachesItsActor
  <2> QED  BY SendReaches DEF ReadInv, Answered
<1> QED  BY <1>1, AnswersOnly, PTL

-----------------------------------------------------------------------------
(* get_connection_health: the pages. *)

\* How many connections of n a page shows from an offset.
Showing(n, offset, limit) ==
  IF n <= offset THEN 0 ELSE IF offset + limit <= n THEN limit ELSE n - offset

LEMMA OnPageCounts ==
  ASSUME NEW S, NEW matching \in Seq(S), NEW offset \in Nat, NEW limit \in Nat
  PROVE  /\ Cardinality(OnPage(matching, offset, limit)) = Showing(Len(matching), offset, limit)
         /\ Showing(Len(matching), offset, limit) \in Nat
<1> DEFINE n == Len(matching)
           page == OnPage(matching, offset, limit)
<1>1. n \in Nat /\ page = {i \in 1 .. n : offset < i /\ i <= offset + limit}
  BY DEF OnPage
<1>2. CASE n <= offset
  <2>1. page = {}
    BY <1>1, <1>2
  <2> QED  BY <1>2, <2>1, FS_EmptySet DEF Showing
<1>3. CASE n > offset /\ offset + limit <= n
  <2>1. page = offset + 1 .. offset + limit
    BY <1>1, <1>3
  <2>2. Cardinality(offset + 1 .. offset + limit) = limit
    <3>1. offset + 1 \in Int /\ offset + limit \in Int
      OBVIOUS
    <3>2. Cardinality(offset + 1 .. offset + limit)
            = IF offset + 1 > offset + limit THEN 0 ELSE (offset + limit) - (offset + 1) + 1
      BY <3>1, FS_Interval
    <3> QED  BY <3>2
  <2>3. ~ (n <= offset)
    BY <1>1, <1>3
  <2> QED  BY <1>3, <2>1, <2>2, <2>3 DEF Showing
<1>4. CASE n > offset /\ ~ (offset + limit <= n)
  <2>1. page = offset + 1 .. n
    BY <1>1, <1>4
  <2>2. Cardinality(offset + 1 .. n) = n - offset
    <3>1. offset + 1 \in Int /\ n \in Int
      BY <1>1
    <3>2. Cardinality(offset + 1 .. n) = IF offset + 1 > n THEN 0 ELSE n - (offset + 1) + 1
      BY <3>1, FS_Interval
    <3> HIDE DEF n
    <3> QED  BY <1>1, <1>4, <3>2
  <2>3. ~ (n <= offset) /\ n - offset \in Nat
    BY <1>1, <1>4
  <2> QED  BY <1>4, <2>1, <2>2, <2>3 DEF Showing
<1>5. n <= offset \/ (n > offset /\ offset + limit <= n) \/ (n > offset /\ ~ (offset + limit <= n))
  <2> HIDE DEF n
  <2> QED  BY <1>1
<1> QED  BY <1>2, <1>3, <1>4, <1>5

\* Two neighbouring stretches of f are one.
LEMMA Joined ==
  ASSUME NEW f, NEW a \in Nat, NEW p \in Nat, NEW q \in Nat
  PROVE  [i \in 1 .. p |-> f[a + i]] \o [i \in 1 .. q |-> f[(a + p) + i]]
           = [i \in 1 .. p + q |-> f[a + i]]
<1> DEFINE left == [i \in 1 .. p |-> f[a + i]]
           right == [i \in 1 .. q |-> f[(a + p) + i]]
           S == {f[a + i] : i \in 1 .. p + q}
<1>1. \A i \in 1 .. p : i \in 1 .. p + q
  OBVIOUS
<1>2. \A i \in 1 .. q : p + i \in 1 .. p + q /\ a + (p + i) = (a + p) + i
  OBVIOUS
<1>3. left \in Seq(S) /\ Len(left) = p
  <2>1. \A i \in 1 .. p : f[a + i] \in S
    BY <1>1
  <2> HIDE DEF S
  <2> QED  BY <2>1
<1>4. right \in Seq(S) /\ Len(right) = q
  <2>1. \A i \in 1 .. q : f[(a + p) + i] \in S
    BY <1>2
  <2> HIDE DEF S
  <2> QED  BY <2>1
<1>5. /\ left \o right \in Seq(S) /\ Len(left \o right) = p + q
      /\ \A i \in 1 .. p + q : (left \o right)[i] = IF i <= p THEN left[i] ELSE right[i - p]
  <2> HIDE DEF left, right, S
  <2> QED  BY <1>3, <1>4
<1>6. \A i \in 1 .. p + q : (left \o right)[i] = f[a + i]
  <2> TAKE i \in 1 .. p + q
  <2>1. CASE i <= p
    <3>1. i \in 1 .. p
      BY <2>1
    <3>2. left[i] = f[a + i]
      BY <3>1
    <3> HIDE DEF left, right
    <3> QED  BY <1>5, <2>1, <3>2
  <2>2. CASE ~ (i <= p)
    <3>1. i - p \in 1 .. q /\ (a + p) + (i - p) = a + i
      BY <2>2
    <3>2. right[i - p] = f[a + i]
      BY <3>1
    <3> HIDE DEF left, right
    <3> QED  BY <1>5, <2>2, <3>2
  <2> QED  BY <2>1, <2>2
<1>7. left \o right = [i \in 1 .. p + q |-> (left \o right)[i]]
  <2> DEFINE whole == left \o right
  <2>1. whole \in Seq(S) /\ Len(whole) = p + q
    BY <1>5
  <2> HIDE DEF whole, S
  <2>2. whole = [i \in 1 .. Len(whole) |-> whole[i]]
    BY <2>1
  <2> QED  BY <2>1, <2>2 DEF whole
<1> HIDE DEF left, right
<1> QED  BY <1>6, <1>7 DEF left, right

LEMMA MatchingIsSeq ==
  ASSUME NEW connections, connections \in Seq(ToSet(connections)), NEW connectionId
  PROVE  LET matching == Matching(connections, connectionId)
         IN  /\ matching \in Seq(ToSet(connections))
             /\ Len(matching) \in Nat /\ Len(connections) \in Nat
             /\ Len(matching) <= Len(connections)
<1> DEFINE S == ToSet(connections)
           K == {c \in S : connectionId \in {"any", c.id}}
           matching == filter(connections, K)
           kept == {i \in 1 .. Len(connections) : connections[i] \in K}
<1>1. connections \in Seq(S) /\ Len(connections) \in Nat
  BY DEF S
<1>2. matching \in Seq(S) /\ Len(matching) = Cardinality(kept)
  <2> HIDE DEF S, K
  <2> QED  BY <1>1, Filtered DEF kept
<1>3. Len(matching) \in Nat
  <2> HIDE DEF matching, S
  <2> QED  BY <1>2
<1>4. Cardinality(kept) <= Len(connections)
  <2>1. IsFiniteSet(1 .. Len(connections)) /\ Cardinality(1 .. Len(connections)) = Len(connections)
    <3>1. 1 \in Int /\ Len(connections) \in Int
      BY <1>1
    <3>2. /\ IsFiniteSet(1 .. Len(connections))
          /\ Cardinality(1 .. Len(connections))
               = IF 1 > Len(connections) THEN 0 ELSE Len(connections) - 1 + 1
      BY <3>1, FS_Interval
    <3> QED  BY <1>1, <3>2
  <2>2. kept \subseteq 1 .. Len(connections)
    OBVIOUS
  <2> HIDE DEF kept
  <2> QED  BY <2>1, <2>2, FS_Subset
<1>5. Matching(connections, connectionId) = matching
  BY DEF Matching
<1> HIDE DEF matching, kept
<1> QED  BY <1>1, <1>2, <1>3, <1>4, <1>5 DEF S

\* What one page says, with the ids of the matching connections it starts at offset.
LEMMA PageSays ==
  ASSUME NEW connections, connections \in Seq(ToSet(connections)), NEW connectionId,
         NEW offset \in Nat, NEW limit \in Nat \ {0}
  PROVE  LET page == healthSnapshot(connections, limit, connectionId, offset)
             matching == Matching(connections, connectionId)
             shown == Showing(Len(matching), offset, limit)
         IN  /\ page.connections = [i \in 1 .. shown |-> matching[offset + i].id]
             /\ page.omittedConnections = Len(matching) - shown
             /\ page.nextOffset = IF offset + shown < Len(matching) THEN offset + shown ELSE NoId
             /\ page.totals = healthSnapshot(connections, limit, connectionId, 0).totals
             /\ shown \in Nat /\ shown <= limit
             /\ offset + shown < Len(matching) => shown = limit
<1> DEFINE matching == Matching(connections, connectionId)
           count(o) == Cardinality(OnPage(matching, o, limit))
           S == ToSet(connections)
           shown == Showing(Len(matching), offset, limit)
<1>1. matching \in Seq(S) /\ Len(matching) \in Nat
  BY MatchingIsSeq
<1>2. count(offset) = shown /\ shown \in Nat
  <2> HIDE DEF matching, S
  <2> QED  BY <1>1, OnPageCounts
<1>3. shown <= limit /\ (offset + shown < Len(matching) => shown = limit)
  <2> HIDE DEF matching, S
  <2> QED  BY <1>1 DEF Showing
<1>4. LET page == healthSnapshot(connections, limit, connectionId, offset)
      IN  /\ page.connections = [i \in 1 .. count(offset) |-> matching[offset + i].id]
          /\ page.omittedConnections = Len(matching) - count(offset)
          /\ page.nextOffset = IF offset + count(offset) < Len(matching)
                               THEN offset + count(offset) ELSE NoId
          /\ page.totals = healthSnapshot(connections, limit, connectionId, 0).totals
  BY DEF healthSnapshot
<1> HIDE DEF matching, shown
<1> QED  BY <1>2, <1>3, <1>4 DEF matching, shown

\* Following the pages gives every matching connection once, in order: PagesCover,
\* for any connections, limit and filter.
LEMMA PagesFollowed ==
  ASSUME question \in Question, question.kind = "page", reply = answer(question)
  PROVE  PagesCover
<1> DEFINE connections == question.connections
           limit == question.limit
           connectionId == question.connectionId
           C == Len(connections)
           matching == Matching(connections, connectionId)
           M == Len(matching)
           ids == [i \in DOMAIN matching |-> matching[i].id]
           Page(offset) == healthSnapshot(connections, limit, connectionId, offset)
           shown(offset) == Showing(M, offset, limit)
           rest(offset) == IF offset < M THEN M - offset ELSE 0
           Solves(f) == f = [offset \in 0 .. C |->
                               Page(offset).connections \o
                                 IF Page(offset).nextOffset = NoId THEN <<>>
                                 ELSE f[Page(offset).nextOffset]]
           sol == [offset \in 0 .. C |-> [i \in 1 .. rest(offset) |-> ids[offset + i]]]
           next == CHOOSE f : Solves(f)
<1>1. /\ connections \in Seq(ToSet(connections)) /\ C \in Nat
      /\ limit \in Nat /\ limit # 0 /\ question.offset \in Nat /\ NoId \notin Nat
  BY PageAssumption
<1>2. matching \in Seq(ToSet(connections)) /\ M \in Nat /\ M <= C
  <2> HIDE DEF connections, connectionId
  <2> QED  BY <1>1, MatchingIsSeq DEF C
<1>3. ids = [i \in 1 .. M |-> matching[i].id] /\ Len(ids) = M
  <2>1. DOMAIN matching = 1 .. M
    <3> HIDE DEF matching, connections
    <3> QED  BY <1>2
  <2> HIDE DEF matching
  <2>2. ids = [i \in 1 .. M |-> matching[i].id]
    BY <2>1
  <2> HIDE DEF M, ids
  <2> QED  BY <1>2, <2>2
<1>4. ASSUME NEW offset \in Nat
      PROVE  /\ Page(offset).connections = [i \in 1 .. shown(offset) |-> matching[offset + i].id]
             /\ Page(offset).omittedConnections = M - shown(offset)
             /\ Page(offset).nextOffset = IF offset + shown(offset) < M THEN offset + shown(offset) ELSE NoId
             /\ Page(offset).totals = Page(0).totals
             /\ shown(offset) \in Nat /\ shown(offset) <= limit
             /\ offset + shown(offset) < M => shown(offset) = limit
  <2> HIDE DEF connections, connectionId, limit
  <2>1. limit \in Nat \ {0}
    BY <1>1
  <2> QED  BY <1>1, <2>1, PageSays DEF M, matching
<1>5. ASSUME NEW offset \in Nat
      PROVE  /\ shown(offset) \in 0 .. rest(offset)
             /\ ~ (offset + shown(offset) < M) => shown(offset) = rest(offset)
             /\ offset + shown(offset) < M =>
                  rest(offset) = shown(offset) + rest(offset + shown(offset)) /\ shown(offset) = limit
             /\ rest(offset) \in Nat /\ offset + rest(offset) \in Nat
  <2> HIDE DEF M, limit
  <2> QED  BY <1>1, <1>2 DEF Showing
<1> HIDE DEF Page, shown, ids
<1>6. ASSUME NEW offset \in Nat
      PROVE  Page(offset).connections = [i \in 1 .. shown(offset) |-> ids[offset + i]]
  <2>1. \A i \in 1 .. shown(offset) : offset + i \in 1 .. M
    <3>1. shown(offset) \in 0 .. rest(offset)
      BY <1>5
    <3> HIDE DEF M
    <3> QED  BY <1>2, <3>1
  <2> HIDE DEF matching, M
  <2> QED  BY <1>3, <1>4, <2>1
<1>7. \A offset \in 0 .. C : sol[offset] = [i \in 1 .. rest(offset) |-> ids[offset + i]]
  <2> HIDE DEF rest
  <2> QED  OBVIOUS
<1>8. ASSUME NEW offset \in 0 .. C
      PROVE  sol[offset] = Page(offset).connections \o
                             IF Page(offset).nextOffset = NoId THEN <<>> ELSE sol[Page(offset).nextOffset]
  <2> DEFINE after == offset + shown(offset)
             T(o) == [i \in 1 .. rest(o) |-> ids[o + i]]
             P == [i \in 1 .. shown(offset) |-> ids[offset + i]]
  <2>00. offset \in Nat
    <3> HIDE DEF C
    <3> QED  BY <1>1
  <2>0. shown(offset) \in Nat /\ rest(offset) \in Nat /\ Page(offset).connections = P
    <3> HIDE DEF rest, M, limit
    <3> QED  BY <1>4, <1>5, <1>6, <2>00
  <2>1. CASE ~ (after < M)
    <3>1. Page(offset).nextOffset = NoId /\ shown(offset) = rest(offset)
      <4> HIDE DEF rest, M, limit
      <4> QED  BY <1>4, <1>5, <2>00, <2>1
    <3>2. P \o <<>> = P
      <4>1. P \in Seq({ids[offset + i] : i \in 1 .. shown(offset)})
        BY <2>0
      <4> HIDE DEF P
      <4> QED  BY <4>1
    <3> HIDE DEF sol, rest
    <3> QED  BY <1>7, <2>0, <3>1, <3>2
  <2>2. CASE after < M
    <3>1. /\ Page(offset).nextOffset = after /\ after \in Nat /\ after # NoId /\ after \in 0 .. C
          /\ rest(offset) = shown(offset) + rest(after) /\ rest(after) \in Nat
      <4>1. /\ Page(offset).nextOffset = after /\ after \in Nat
            /\ rest(offset) = shown(offset) + rest(after)
        <5>1. Page(offset).nextOffset = after /\ shown(offset) = limit /\ after \in Nat
          <6>1. after \in Nat
            BY <2>00, <2>0
          <6> HIDE DEF rest, M, limit
          <6>2. /\ Page(offset).nextOffset = IF offset + shown(offset) < M THEN offset + shown(offset) ELSE NoId
                /\ offset + shown(offset) < M => shown(offset) = limit
            BY <1>4, <2>00
          <6> QED  BY <2>2, <6>1, <6>2
        <5>2. rest(offset) = shown(offset) + rest(after)
          <6> HIDE DEF rest, M, limit
          <6> QED  BY <1>5, <2>00, <2>2
        <5> QED  BY <5>1, <5>2
      <4>2. rest(after) \in Nat
        BY <1>5, <4>1
      <4> HIDE DEF after, M, rest, C
      <4> QED  BY <1>1, <1>2, <2>2, <4>1, <4>2
    <3>2. P \o T(after) = T(offset)
      <4>1. after = offset + shown(offset)
        OBVIOUS
      <4> HIDE DEF rest, M, ids, after
      <4>2. P \o [i \in 1 .. rest(after) |-> ids[(offset + shown(offset)) + i]]
              = [i \in 1 .. shown(offset) + rest(after) |-> ids[offset + i]]
        <5> DEFINE p == shown(offset)
                   q == rest(after)
        <5>1. p \in Nat /\ q \in Nat
          BY <2>0, <3>1
        <5> HIDE DEF p, q, shown, P
        <5>2. [i \in 1 .. p |-> ids[offset + i]] \o [i \in 1 .. q |-> ids[(offset + p) + i]]
                = [i \in 1 .. p + q |-> ids[offset + i]]
          BY <2>00, <5>1, Joined
        <5> QED  BY <5>2 DEF p, q, P
      <4> QED  BY <3>1, <4>1, <4>2
    <3>3. sol[after] = T(after) /\ sol[offset] = T(offset)
      <4> HIDE DEF sol, after, rest
      <4> QED  BY <1>7, <3>1
    <3> HIDE DEF sol, rest, P, T, after
    <3> QED  BY <2>0, <3>1, <3>2, <3>3
  <2> QED  BY <2>1, <2>2
<1>9. Solves(sol)
  <2>1. sol = [offset \in 0 .. C |-> sol[offset]]
    <3> HIDE DEF rest
    <3> QED  OBVIOUS
  <2> HIDE DEF sol, C
  <2> QED  BY <1>8, <2>1
<1>10. Solves(next)
  <2> HIDE DEF Solves, sol
  <2> QED  BY <1>9
<1>11. next[0] = sol[0]
  <2> DEFINE X == {n \in Nat : \A offset \in 0 .. C : C - offset <= n => next[offset] = sol[offset]}
  <2> HIDE DEF next, sol, rest
  <2>1. ASSUME NEW offset \in 0 .. C,
               \A o \in 0 .. C : o > offset => next[o] = sol[o]
        PROVE  next[offset] = sol[offset]
    <3>1. next[offset] = Page(offset).connections \o
                           IF Page(offset).nextOffset = NoId THEN <<>> ELSE next[Page(offset).nextOffset]
      BY <1>10
    <3>0. offset \in Nat
      <4> HIDE DEF C
      <4> QED  BY <1>1
    <3>2. CASE offset + shown(offset) < M
      <4>1. Page(offset).nextOffset = offset + shown(offset) /\ shown(offset) = limit
        <5> HIDE DEF M, limit
        <5> QED  BY <1>4, <3>0, <3>2
      <4>2. offset + shown(offset) \in 0 .. C /\ offset + shown(offset) > offset
        <5> HIDE DEF limit, C, M
        <5> QED  BY <1>1, <1>2, <3>2, <4>1
      <4>3. next[Page(offset).nextOffset] = sol[Page(offset).nextOffset]
        BY <2>1, <4>1, <4>2
      <4> HIDE DEF C
      <4> QED  BY <1>8, <3>1, <4>3
    <3>3. CASE ~ (offset + shown(offset) < M)
      <4>1. Page(offset).nextOffset = NoId
        <5> HIDE DEF M, limit
        <5> QED  BY <1>4, <3>0, <3>3
      <4> HIDE DEF C
      <4> QED  BY <1>8, <3>1, <4>1
    <3> QED  BY <3>2, <3>3
  <2> HIDE DEF C, M
  <2>2. 0 \in X
    <3> SUFFICES ASSUME NEW offset \in 0 .. C, C - offset <= 0 PROVE next[offset] = sol[offset]
      OBVIOUS
    <3>1. \A o \in 0 .. C : ~ (o > offset)
      BY <1>1
    <3> QED  BY <2>1, <3>1
  <2>3. ASSUME NEW n \in Nat, n \in X PROVE n + 1 \in X
    <3> SUFFICES ASSUME NEW offset \in 0 .. C, C - offset <= n + 1 PROVE next[offset] = sol[offset]
      OBVIOUS
    <3>1. \A o \in 0 .. C : o > offset => C - o <= n
      BY <1>1
    <3> QED  BY <2>1, <2>3, <3>1
  <2>4. C \in X
    <3> HIDE DEF X
    <3> QED  BY <1>1, <2>2, <2>3, Inductive
  <2> QED  BY <1>1, <2>4
<1>12. next[0] = ids
  <2>1. 0 \in 0 .. C /\ rest(0) = M
    <3> HIDE DEF C, M
    <3> QED  BY <1>1, <1>2
  <2>2. sol[0] = [i \in 1 .. M |-> ids[0 + i]]
    <3> HIDE DEF sol, rest, C
    <3> QED  BY <1>7, <2>1
  <2>3. ids = [i \in 1 .. M |-> ids[i]]
    <3> HIDE DEF M
    <3> QED  BY <1>3
  <2>4. \A i \in 1 .. M : 0 + i = i
    <3> HIDE DEF M
    <3> QED  BY <1>2
  <2> HIDE DEF next, sol, M
  <2> QED  BY <1>11, <2>2, <2>3, <2>4
<1>13. reply = Page(question.offset)
  BY Zenon DEF answer, Page
<1>14. /\ Len(reply.connections) <= limit
       /\ Len(reply.connections) + reply.omittedConnections = Len(ids)
       /\ reply.nextOffset # NoId => reply.connections # <<>> /\ question.offset < reply.nextOffset
       /\ reply.totals = Page(0).totals
  <2> DEFINE o == question.offset
  <2>1. o \in Nat
    BY <1>1
  <2>2. /\ reply.connections = [i \in 1 .. shown(o) |-> ids[o + i]]
        /\ reply.omittedConnections = M - shown(o)
        /\ reply.nextOffset = IF o + shown(o) < M THEN o + shown(o) ELSE NoId
        /\ reply.totals = Page(0).totals
        /\ shown(o) \in Nat /\ shown(o) <= limit
        /\ o + shown(o) < M => shown(o) = limit
    <3>1. reply = Page(o)
      BY <1>13
    <3> HIDE DEF o, M, limit
    <3> QED  BY <1>4, <1>6, <2>1, <3>1
  <2>3. Len(reply.connections) = shown(o)
    <3> HIDE DEF o
    <3> QED  BY <2>2
  <2>4. reply.connections = <<>> => shown(o) = 0
    BY <2>3
  <2> HIDE DEF o, M, limit
  <2> QED  BY <1>1, <1>2, <1>3, <2>1, <2>2, <2>3, <2>4 DEF o
<1> HIDE DEF next
<1> QED  BY <1>12, <1>14 DEF PagesCover, next, Page, ids

\* A caller who follows nextOffset sees every matching connection once.
THEOREM PagesCoverHolds == Spec => []PagesCover
<1>1. ReadInv => PagesCover
  <2> SUFFICES ASSUME ReadInv, Answered("page") PROVE PagesCover
    BY DEF PagesCover
  <2> QED  BY PagesFollowed DEF ReadInv, Answered
<1> QED  BY <1>1, AnswersOnly, PTL

-----------------------------------------------------------------------------
(* The redactor: what a visit reaches, and that visits are defined. *)

\* Every value a visit of root can look at is a value.
Values(root) == \A node \in Reached(root) : IsValue(Parsed(node[2], node[1]))

\* The levels of the values reached are defined.
LEMMA ReachedLevels ==
  ASSUME NEW root
  PROVE  \E level :
           /\ level[0] = {<<<<>>, root>>}
           /\ \A n \in 1 .. MaxDepth + 1 : level[n] = UNION {Children(node) : node \in level[n - 1]}
           /\ Reached(root) = UNION {level[n] : n \in 0 .. MaxDepth + 1}
<1> DEFINE m == MaxDepth + 1
           E(g, n) == IF n = 0 THEN {<<<<>>, root>>} ELSE UNION {Children(node) : node \in g[n - 1]}
           Solves(g, k) == g = [n \in 0 .. k |-> E(g, n)]
           X == {k \in Nat : \E g : Solves(g, k)}
           level == CHOOSE g : Solves(g, m)
<1>0. m \in Nat
  BY PolicyAssumption
<1>1. 0 \in X
  <2>1. Solves([n \in 0 .. 0 |-> {<<<<>>, root>>}], 0)
    OBVIOUS
  <2> QED  BY <2>1
<1>2. ASSUME NEW k \in Nat, k \in X PROVE k + 1 \in X
  <2>1. PICK g : Solves(g, k)
    BY <1>2
  <2> DEFINE h == [n \in 0 .. k + 1 |-> E(g, n)]
  <2>2. \A n \in 0 .. k : g[n] = E(g, n)
    <3> HIDE DEF E
    <3> QED  BY <2>1
  <2>3. \A n \in 0 .. k : h[n] = g[n]
    <3> HIDE DEF E
    <3>1. \A n \in 0 .. k : n \in 0 .. k + 1
      OBVIOUS
    <3> QED  BY <2>2, <3>1
  <2>4. ASSUME NEW n \in 0 .. k + 1 PROVE E(h, n) = E(g, n)
    <3>1. n # 0 => n - 1 \in 0 .. k
      OBVIOUS
    <3> HIDE DEF h
    <3> QED  BY <2>3, <3>1
  <2>5. Solves(h, k + 1)
    <3> HIDE DEF E
    <3> QED  BY <2>4
  <2> HIDE DEF h
  <2> QED  BY <2>5
<1>3. m \in X
  <2> HIDE DEF X
  <2> QED  BY <1>0, <1>1, <1>2, Inductive
<1>4. Solves(level, m)
  BY <1>3
<1>5. Reached(root) = UNION {level[n] : n \in 0 .. m}
  BY DEF Reached
<1> HIDE DEF level
<1>6. \A n \in 0 .. m : level[n] = E(level, n)
  <2> HIDE DEF E, m
  <2> QED  BY <1>4
<1>7. level[0] = {<<<<>>, root>>}
  <2>1. 0 \in 0 .. m
    BY <1>0
  <2>2. E(level, 0) = {<<<<>>, root>>}
    OBVIOUS
  <2> HIDE DEF E, m
  <2> QED  BY <1>6, <2>1, <2>2
<1>8. \A n \in 1 .. m : level[n] = UNION {Children(node) : node \in level[n - 1]}
  <2> TAKE n \in 1 .. m
  <2>1. n \in 0 .. m /\ n # 0
    BY <1>0
  <2> HIDE DEF m
  <2> QED  BY <1>6, <2>1
<1> QED  BY <1>5, <1>7, <1>8

\* What is reached: the root, and the parts of what lies within the depth.
LEMMA ReachesParts ==
  ASSUME NEW root, Values(root)
  PROVE  /\ <<<<>>, root>> \in Reached(root)
         /\ \A node \in Reached(root) :
              /\ node = <<node[1], node[2]>>
              /\ node[1] \in Seq(Key) /\ Len(node[1]) <= MaxDepth + 1
              /\ Len(node[1]) <= MaxDepth => Children(node) \subseteq Reached(root)
<1> DEFINE m == MaxDepth + 1
<1>0. m \in Nat
  BY PolicyAssumption
<1>1. PICK level :
        /\ level[0] = {<<<<>>, root>>}
        /\ \A n \in 1 .. m : level[n] = UNION {Children(node) : node \in level[n - 1]}
        /\ Reached(root) = UNION {level[n] : n \in 0 .. m}
  BY ReachedLevels
<1> DEFINE Placed(node, n) == /\ node = <<node[1], node[2]>>
                              /\ node[1] \in Seq(Key) /\ Len(node[1]) = n
           X == {n \in Nat : n <= m => \A node \in level[n] : Placed(node, n)}
<1> HIDE DEF m
<1>2. 0 \in X
  <2>1. Placed(<<<<>>, root>>, 0)
    OBVIOUS
  <2> HIDE DEF Placed
  <2> QED  BY <1>1, <2>1
<1>3. ASSUME NEW n \in Nat, n \in X PROVE n + 1 \in X
  <2> SUFFICES ASSUME n + 1 <= m, NEW node \in level[n + 1] PROVE Placed(node, n + 1)
    OBVIOUS
  <2>1. n + 1 \in 1 .. m /\ (n + 1) - 1 = n /\ n \in 0 .. m
    BY <1>0
  <2>2. PICK parent \in level[n] : node \in Children(parent)
    BY <1>1, <2>1
  <2>3. parent[1] \in Seq(Key) /\ Len(parent[1]) = n
    BY <1>3, <2>1
  <2>4. parent \in Reached(root)
    BY <1>1, <2>1
  <2> DEFINE value == Parsed(parent[2], parent[1])
  <2>5. value.keys \in Seq(Key)
    BY <2>4 DEF Values, IsValue
  <2>6. PICK i \in DOMAIN value.keys : node = <<Append(parent[1], value.keys[i]), value.parts[i]>>
    BY <2>2 DEF Children
  <2>7. value.keys[i] \in Key
    <3> HIDE DEF value
    <3> QED  BY <2>5
  <2>8. Append(parent[1], value.keys[i]) \in Seq(Key) /\ Len(Append(parent[1], value.keys[i])) = n + 1
    <3> HIDE DEF value
    <3> QED  BY <2>3, <2>7
  <2> HIDE DEF value
  <2> QED  BY <2>6, <2>8
<1>4. \A n \in 0 .. m : \A node \in level[n] : Placed(node, n)
  <2> HIDE DEF X
  <2>1. \A n \in Nat : n \in X
    BY <1>2, <1>3, Inductive
  <2> QED  BY <1>0, <2>1 DEF X
<1>5. <<<<>>, root>> \in Reached(root)
  BY <1>0, <1>1
<1>6. ASSUME NEW node \in Reached(root)
      PROVE  /\ node = <<node[1], node[2]>>
             /\ node[1] \in Seq(Key) /\ Len(node[1]) <= MaxDepth + 1
             /\ Len(node[1]) <= MaxDepth => Children(node) \subseteq Reached(root)
  <2>1. PICK n \in 0 .. m : node \in level[n]
    BY <1>1
  <2>2. Placed(node, n)
    BY <1>4, <2>1
  <2>3. Len(node[1]) <= MaxDepth => Children(node) \subseteq Reached(root)
    <3> SUFFICES ASSUME Len(node[1]) <= MaxDepth PROVE Children(node) \subseteq Reached(root)
      OBVIOUS
    <3>1. n + 1 \in 1 .. m /\ (n + 1) - 1 = n /\ n + 1 \in 0 .. m
      BY <1>0, <2>2, PolicyAssumption DEF m
    <3>2. level[n + 1] = UNION {Children(p) : p \in level[n]}
      BY <1>1, <3>1
    <3> QED  BY <1>1, <2>1, <3>1, <3>2
  <2>4. n <= MaxDepth + 1
    BY <1>0, PolicyAssumption DEF m
  <2> QED  BY <2>2, <2>3, <2>4
<1> QED  BY <1>5, <1>6

\* The visit of the i-th part with left to spend, and that no part gives back more.
PartOf(visits, path, value, i, left) ==
  IF value.parts[i].kind = "getter" THEN <<Omitted, left>>
  ELSE visits[<<<<Append(path, value.keys[i]), value.parts[i]>>, left>>]
PartsSpend(visits, path, value) ==
  \A i \in 1 .. Len(value.keys) : \A left \in 0 .. Budget :
    PartOf(visits, path, value, i, left)[2] \in 0 .. left

\* c holds the copies of the first n parts, each made with what the ones before left.
CopyRuns(c, visits, path, value, remaining) ==
  /\ c[0] = <<<<>>, remaining>>
  /\ \A n \in 1 .. Len(value.keys) :
       LET p == PartOf(visits, path, value, n, c[n - 1][2])
       IN  c[n] = <<Append(c[n - 1][1], p[1]), p[2]>>
  /\ \A n \in 0 .. Len(value.keys) :
       /\ c[n][2] \in 0 .. remaining /\ c[n][2] \in 0 .. Budget
       /\ Len(c[n][1]) = n
       /\ \A i \in 1 .. n : c[n][1][i] = PartOf(visits, path, value, i, c[i - 1][2])[1]

\* A container is copied part by part, each with what the ones before it left.
LEMMA Copies ==
  ASSUME NEW visits, NEW path, NEW value, value.keys \in Seq(Key),
         NEW remaining \in 0 .. Budget, PartsSpend(visits, path, value)
  PROVE  CopyRuns(Copied(visits, path, value, remaining), visits, path, value, remaining)
<1> DEFINE m == Len(value.keys)
           part(i, left) == PartOf(visits, path, value, i, left)
           U == {part(s[1], s[2])[1] : s \in (1 .. m) \X (0 .. Budget)}
           Good(n) == {x \in Seq(U) \X (0 .. remaining) : Len(x[1]) = n}
           V == [n \in Nat |-> Good(n)]
           next(n, x) == <<Append(x[1], part(n, x[2])[1]), part(n, x[2])[2]>>
           base == <<<<>>, remaining>>
           step == [n \in 1 .. m |-> [x \in V[n - 1] |-> next(n, x)]]
           Solves(g) == g = [n \in 0 .. m |-> IF n = 0 THEN base ELSE next(n, g[n - 1])]
           c == CHOOSE g : Solves(g)
<1>0. m \in Nat /\ Budget \in Nat /\ remaining \in Nat /\ remaining <= Budget
  BY PolicyAssumption
<1>1. \A n \in Nat : V[n] = Good(n)
  <2> HIDE DEF Good
  <2> QED  OBVIOUS
<1>2. base \in V[0]
  <2>1. base \in Good(0)
    <3>1. <<>> \in Seq(U) /\ Len(<<>>) = 0 /\ remaining \in 0 .. remaining
      BY <1>0
    <3>2. base[1] = <<>>
      OBVIOUS
    <3>3. base \in Seq(U) \X (0 .. remaining)
      BY <3>1
    <3> HIDE DEF base, U
    <3> QED  BY <3>1, <3>2, <3>3
  <2> HIDE DEF V, Good, base
  <2> QED  BY <1>1, <2>1
<1>3. ASSUME NEW n \in 1 .. m, NEW x \in V[n - 1] PROVE next(n, x) \in V[n]
  <2>1. n \in Nat /\ n - 1 \in Nat
    BY <1>0
  <2>2. x \in Good(n - 1)
    <3> HIDE DEF V, Good
    <3> QED  BY <1>1, <1>3, <2>1
  <2>3. x[1] \in Seq(U) /\ Len(x[1]) = n - 1 /\ x[2] \in 0 .. remaining
    <3> HIDE DEF U, m
    <3> QED  BY <2>2
  <2>4. x[2] \in 0 .. Budget
    BY <1>0, <2>3
  <2>5. part(n, x[2])[1] \in U
    <3>1. <<n, x[2]>> \in (1 .. m) \X (0 .. Budget)
      BY <2>4
    <3> HIDE DEF m, part
    <3> QED  BY <3>1
  <2>6. part(n, x[2])[2] \in 0 .. x[2]
    <3> HIDE DEF U
    <3> QED  BY <2>4 DEF PartsSpend
  <2>7. part(n, x[2])[2] \in 0 .. remaining
    <3> HIDE DEF part
    <3> QED  BY <1>0, <2>3, <2>6
  <2>8. Append(x[1], part(n, x[2])[1]) \in Seq(U) /\ Len(Append(x[1], part(n, x[2])[1])) = n
    <3> HIDE DEF U, part, m
    <3> QED  BY <2>1, <2>3, <2>5
  <2>9. next(n, x) \in Good(n)
    <3> HIDE DEF U, part, m
    <3> QED  BY <2>7, <2>8
  <2> HIDE DEF V, Good, next
  <2> QED  BY <1>1, <2>1, <2>9
<1>4. PICK g : Runs(g, m, V, base, step)
  <2>1. Steps(m, V, base, step)
    <3> HIDE DEF V, next, base, m
    <3> QED  BY <1>2, <1>3 DEF Steps
  <2> HIDE DEF step, V, base, m
  <2> QED  BY <1>0, <2>1, Recursion
<1>5. Solves(g)
  <2> HIDE DEF V, next, base, m
  <2>1. \A n \in 0 .. m : g[n] = IF n = 0 THEN base ELSE next(n, g[n - 1])
    <3> TAKE n \in 0 .. m
    <3>1. CASE n = 0
      BY <1>4, <3>1 DEF Runs
    <3>2. CASE n # 0
      <4>1. n \in 1 .. m /\ n - 1 \in 0 .. m
        BY <1>0, <3>2
      <4>2. g[n] = step[n][g[n - 1]] /\ g[n - 1] \in V[n - 1]
        BY <1>4, <4>1 DEF Runs
      <4> QED  BY <3>2, <4>1, <4>2
    <3> QED  BY <3>1, <3>2
  <2> HIDE DEF step
  <2> QED  BY <1>4, <2>1 DEF Runs
<1>6. Solves(c)
  <2> HIDE DEF Solves
  <2> QED  BY <1>5
<1>7. Copied(visits, path, value, remaining) = c
  BY DEF Copied, PartOf
<1> HIDE DEF c
<1>8. \A n \in 0 .. m : c[n] = IF n = 0 THEN base ELSE next(n, c[n - 1])
  <2> HIDE DEF m, base, next
  <2> QED  BY <1>6
<1>9. c[0] = base
  <2> HIDE DEF m, base, next
  <2>1. 0 \in 0 .. m
    BY <1>0
  <2> QED  BY <1>8, <2>1
<1>10. \A n \in 1 .. m : c[n] = next(n, c[n - 1])
  <2> HIDE DEF m, base, next
  <2> TAKE n \in 1 .. m
  <2>1. n \in 0 .. m /\ n # 0
    BY <1>0
  <2> QED  BY <1>8, <2>1
<1>11. \A n \in 0 .. m : c[n] \in V[n]
  <2> HIDE DEF m, base, next, V
  <2>1. c[0] \in V[0]
    BY <1>2, <1>9
  <2>2. \A n \in 1 .. m : c[n - 1] \in V[n - 1] => c[n] \in V[n]
    BY <1>3, <1>10
  <2> QED  BY <1>0, <2>1, <2>2, Followed
<1>12. \A n \in 0 .. m : c[n][1] \in Seq(U) /\ c[n][2] \in 0 .. remaining /\ Len(c[n][1]) = n
  <2> TAKE n \in 0 .. m
  <2>1. n \in Nat
    BY <1>0
  <2>2. c[n] \in Good(n)
    <3> HIDE DEF V, Good, m
    <3> QED  BY <1>1, <1>11, <2>1
  <2> HIDE DEF U, m
  <2> QED  BY <2>2
<1> DEFINE Same(n) == \A i \in 1 .. n : c[n][1][i] = part(i, c[i - 1][2])[1]
           X == {n \in Nat : n <= m => Same(n)}
<1>13. \A n \in Nat : n \in X
  <2> HIDE DEF U, m, part
  <2>1. 0 \in X
    OBVIOUS
  <2>2. ASSUME NEW n \in Nat, n \in X PROVE n + 1 \in X
    <3> SUFFICES ASSUME n + 1 <= m, NEW i \in 1 .. n + 1
                 PROVE  c[n + 1][1][i] = part(i, c[i - 1][2])[1]
      OBVIOUS
    <3>1. n + 1 \in 1 .. m /\ (n + 1) - 1 = n /\ n \in 0 .. m /\ n + 1 \in 0 .. m
      BY <1>0
    <3> DEFINE p == part(n + 1, c[n][2])[1]
    <3>2. c[n + 1][1] = Append(c[n][1], p)
      BY <1>10, <3>1
    <3>3. c[n][1] \in Seq(U) /\ Len(c[n][1]) = n /\ c[n + 1][1] \in Seq(U) /\ Len(c[n + 1][1]) = n + 1
      BY <1>12, <3>1
    <3>4. CASE i = n + 1
      <4>1. Append(c[n][1], p)[n + 1] = p
        <5> HIDE DEF p
        <5> QED  BY <3>3
      <4> QED  BY <3>2, <3>4, <4>1, <3>1
    <3>5. CASE i # n + 1
      <4>1. i \in 1 .. n
        BY <3>5
      <4>2. Append(c[n][1], p)[i] = c[n][1][i]
        <5> HIDE DEF p
        <5> QED  BY <3>3, <4>1
      <4>3. Same(n)
        BY <2>2, <3>1
      <4> QED  BY <3>2, <4>1, <4>2, <4>3
    <3> QED  BY <3>4, <3>5
  <2> HIDE DEF X
  <2> QED  BY <2>1, <2>2, Inductive
<1>14. \A n \in 0 .. m : /\ c[n][2] \in 0 .. remaining /\ c[n][2] \in 0 .. Budget
                         /\ Len(c[n][1]) = n /\ Same(n)
  <2> TAKE n \in 0 .. m
  <2>1. n \in Nat /\ n <= m
    BY <1>0
  <2> HIDE DEF m, Same
  <2>2. Same(n)
    BY <1>13, <2>1
  <2> HIDE DEF U, X
  <2> QED  BY <1>0, <1>12, <2>2
<1> HIDE DEF m
<1> QED  BY <1>7, <1>9, <1>10, <1>14 DEF m, CopyRuns

\* A copy depends on what the visits of the parts return alone.
LEMMA SameCopies ==
  ASSUME NEW visits, NEW other, NEW path, NEW value, value.keys \in Seq(Key),
         NEW remaining \in 0 .. Budget, PartsSpend(visits, path, value),
         \A i \in 1 .. Len(value.keys) : \A left \in 0 .. Budget :
           PartOf(other, path, value, i, left) = PartOf(visits, path, value, i, left)
  PROVE  Copied(other, path, value, remaining)[Len(value.keys)]
           = Copied(visits, path, value, remaining)[Len(value.keys)]
<1> DEFINE m == Len(value.keys)
           c == Copied(visits, path, value, remaining)
           d == Copied(other, path, value, remaining)
           V == [n \in 0 .. m |-> {c[n]}]
<1>0. m \in Nat
  OBVIOUS
<1>1. PartsSpend(other, path, value)
  BY DEF PartsSpend
<1>2. /\ c[0] = <<<<>>, remaining>>
      /\ \A n \in 1 .. m : LET p == PartOf(visits, path, value, n, c[n - 1][2])
                           IN  c[n] = <<Append(c[n - 1][1], p[1]), p[2]>>
      /\ \A n \in 0 .. m : c[n][2] \in 0 .. Budget
  <2>1. remaining \in 0 .. Budget /\ value.keys \in Seq(Key) /\ PartsSpend(visits, path, value)
    OBVIOUS
  <2>2. CopyRuns(c, visits, path, value, remaining)
    BY <2>1, Copies
  <2> HIDE DEF c
  <2> QED  BY <2>2 DEF CopyRuns
<1>3. /\ d[0] = <<<<>>, remaining>>
      /\ \A n \in 1 .. m : LET p == PartOf(other, path, value, n, d[n - 1][2])
                           IN  d[n] = <<Append(d[n - 1][1], p[1]), p[2]>>
  <2>1. remaining \in 0 .. Budget /\ value.keys \in Seq(Key)
    OBVIOUS
  <2>2. CopyRuns(d, other, path, value, remaining)
    BY <1>1, <2>1, Copies
  <2> HIDE DEF d
  <2> QED  BY <2>2 DEF CopyRuns
<1> HIDE DEF c, d
<1>4. d[0] \in V[0]
  BY <1>0, <1>2, <1>3
<1>5. ASSUME NEW n \in 1 .. m, d[n - 1] \in V[n - 1] PROVE d[n] \in V[n]
  <2>1. n - 1 \in 0 .. m /\ n \in 0 .. m
    BY <1>0
  <2>2. d[n - 1] = c[n - 1]
    <3> HIDE DEF m
    <3> QED  BY <1>5, <2>1
  <2>3. PartOf(other, path, value, n, d[n - 1][2]) = PartOf(visits, path, value, n, c[n - 1][2])
    <3>1. c[n - 1][2] \in 0 .. Budget
      BY <1>2, <2>1
    <3> QED  BY <2>2, <3>1
  <2>4. d[n] = c[n]
    BY <1>2, <1>3, <2>2, <2>3
  <2> HIDE DEF m
  <2> QED  BY <2>1, <2>4
<1>6. d[m] \in V[m]
  <2>1. \A n \in 0 .. m : d[n] \in V[n]
    <3> HIDE DEF V, m
    <3> QED  BY <1>0, <1>4, <1>5, Followed
  <2> HIDE DEF V, m
  <2> QED  BY <1>0, <2>1
<1>7. d[m] = c[m]
  <2> HIDE DEF m
  <2> QED  BY <1>0, <1>6
<1> QED  BY <1>7 DEF c, d

\* A visit never gives back more than it got.
LEMMA VisitSpends ==
  ASSUME NEW rules, IsRules(rules), NEW visits, NEW v, NEW path \in Seq(Key), IsValue(Parsed(v, path)),
         NEW remaining \in 0 .. Budget,
         Len(path) <= MaxDepth => PartsSpend(visits, path, Parsed(v, path))
  PROVE  visit(rules, visits, v, path, remaining)[2] \in 0 .. remaining
<1> DEFINE value == Parsed(v, path)
           copy == Copied(visits, path, value, remaining - 1)[Len(value.keys)]
<1>0. Budget \in Nat /\ remaining \in Nat /\ remaining <= Budget /\ MaxDepth \in Nat /\ Len(path) \in Nat
  BY PolicyAssumption
<1>1. visit(rules, visits, v, path, remaining)
        = IF Secret(rules, path) THEN <<Redacted, remaining>>
          ELSE IF remaining = 0 THEN <<Omitted, 0>>
          ELSE IF Unfit(value, path, remaining - 1) THEN <<Omitted, remaining - 1>>
          ELSE IF value.kind \in Containers THEN <<[value EXCEPT !.parts = copy[1]], copy[2]>>
          ELSE <<value, remaining - 1>>
  BY DEF visit
<1>2. CASE ~ Secret(rules, path) /\ remaining # 0 /\ ~ Unfit(value, path, remaining - 1)
  <2>1. Len(path) <= MaxDepth
    BY <1>0, <1>2 DEF Unfit
  <2>2. remaining - 1 \in 0 .. Budget
    BY <1>0, <1>2
  <2>3. value.keys \in Seq(Key) /\ Len(value.keys) \in 0 .. Len(value.keys)
    BY DEF IsValue
  <2>4. copy[2] \in 0 .. remaining - 1
    <3> DEFINE c == Copied(visits, path, value, remaining - 1)
    <3>1. PartsSpend(visits, path, value)
      BY <2>1
    <3> HIDE DEF value
    <3>2. CopyRuns(c, visits, path, value, remaining - 1)
      BY <2>2, <2>3, <3>1, Copies
    <3> HIDE DEF c
    <3>3. c[Len(value.keys)][2] \in 0 .. remaining - 1
      BY <2>3, <3>2 DEF CopyRuns
    <3> QED  BY <3>3 DEF c
  <2> HIDE DEF value, copy
  <2> QED  BY <1>0, <1>1, <1>2, <2>4
<1>3. CASE Secret(rules, path) \/ remaining = 0 \/ Unfit(value, path, remaining - 1)
  <2> HIDE DEF value, copy
  <2> QED  BY <1>0, <1>1, <1>3
<1> QED  BY <1>2, <1>3

\* What the visits of the parts return is all that a visit needs.
LEMMA SameVisit ==
  ASSUME NEW rules, IsRules(rules), NEW visits, NEW other, NEW v,
         NEW path \in Seq(Key), IsValue(Parsed(v, path)),
         NEW remaining \in 0 .. Budget,
         Len(path) <= MaxDepth =>
           /\ PartsSpend(visits, path, Parsed(v, path))
           /\ \A i \in 1 .. Len(Parsed(v, path).keys) : \A left \in 0 .. Budget :
                PartOf(other, path, Parsed(v, path), i, left) = PartOf(visits, path, Parsed(v, path), i, left)
  PROVE  visit(rules, other, v, path, remaining) = visit(rules, visits, v, path, remaining)
<1> DEFINE value == Parsed(v, path)
           copy(w) == Copied(w, path, value, remaining - 1)[Len(value.keys)]
           result(w) == IF Secret(rules, path) THEN <<Redacted, remaining>>
                        ELSE IF remaining = 0 THEN <<Omitted, 0>>
                        ELSE IF Unfit(value, path, remaining - 1) THEN <<Omitted, remaining - 1>>
                        ELSE IF value.kind \in Containers THEN <<[value EXCEPT !.parts = copy(w)[1]], copy(w)[2]>>
                        ELSE <<value, remaining - 1>>
<1>0. Budget \in Nat /\ remaining \in Nat /\ remaining <= Budget /\ MaxDepth \in Nat /\ Len(path) \in Nat
  BY PolicyAssumption
<1>1. /\ visit(rules, visits, v, path, remaining) = result(visits)
      /\ visit(rules, other, v, path, remaining) = result(other)
  BY DEF visit
<1>2. CASE ~ Secret(rules, path) /\ remaining # 0 /\ ~ Unfit(value, path, remaining - 1)
  <2>1. Len(path) <= MaxDepth
    BY <1>0, <1>2 DEF Unfit
  <2>2. remaining - 1 \in 0 .. Budget
    BY <1>0, <1>2
  <2>3. value.keys \in Seq(Key)
    BY DEF IsValue
  <2>4. copy(other) = copy(visits)
    <3> HIDE DEF value
    <3> QED  BY <2>1, <2>2, <2>3, SameCopies DEF value
  <2>5. result(other) = result(visits)
    <3> HIDE DEF value, copy
    <3> QED  BY <2>4
  <2> HIDE DEF result
  <2> QED  BY <1>1, <2>5
<1>3. CASE Secret(rules, path) \/ remaining = 0 \/ Unfit(value, path, remaining - 1)
  <2>1. result(other) = result(visits)
    <3> HIDE DEF value, copy
    <3> QED  BY <1>3
  <2> HIDE DEF result
  <2> QED  BY <1>1, <2>1
<1> QED  BY <1>2, <1>3

\* Visits is defined: every value reached is visited, with whatever is left.
LEMMA Visited ==
  ASSUME NEW rules, IsRules(rules), NEW root, Values(root)
  PROVE  \A node \in Reached(root) : \A remaining \in 0 .. Budget :
           /\ Visits(rules, root)[<<node, remaining>>]
                = visit(rules, Visits(rules, root), node[2], node[1], remaining)
           /\ Visits(rules, root)[<<node, remaining>>][2] \in 0 .. remaining
           /\ Len(node[1]) <= MaxDepth => PartsSpend(Visits(rules, root), node[1], Parsed(node[2], node[1]))
<1> DEFINE All == Reached(root) \X (0 .. Budget)
           At1(g, s) == visit(rules, g, s[1][2], s[1][1], s[2])
           D(k) == {s \in All : Len(s[1][1]) + k > MaxDepth + 1}
           Solves(g, k) == /\ g = [s \in D(k) |-> At1(g, s)]
                           /\ \A s \in D(k) : g[s][2] \in 0 .. s[2]
           X == {k \in Nat : \E g : Solves(g, k)}
<1>0. Budget \in Nat /\ MaxDepth \in Nat
  BY PolicyAssumption
<1>1. \A s \in All : /\ s = <<s[1], s[2]>> /\ s[1] \in Reached(root) /\ s[2] \in 0 .. Budget
                     /\ s[1][1] \in Seq(Key) /\ Len(s[1][1]) \in Nat /\ Len(s[1][1]) <= MaxDepth + 1
                     /\ IsValue(Parsed(s[1][2], s[1][1]))
  <2> TAKE s \in All
  <2>1. s = <<s[1], s[2]>> /\ s[1] \in Reached(root) /\ s[2] \in 0 .. Budget
    OBVIOUS
  <2>2. s[1][1] \in Seq(Key) /\ Len(s[1][1]) <= MaxDepth + 1
    BY <2>1, ReachesParts
  <2>3. IsValue(Parsed(s[1][2], s[1][1]))
    BY <2>1 DEF Values
  <2>4. Len(s[1][1]) \in Nat
    BY <2>2
  <2> HIDE DEF All
  <2> QED  BY <2>1, <2>2, <2>3, <2>4
\* The parts of a value in D(k + 1) are in D(k).
<1>2. ASSUME NEW k \in Nat, NEW s \in D(k + 1), Len(s[1][1]) <= MaxDepth,
             NEW i \in 1 .. Len(Parsed(s[1][2], s[1][1]).keys), NEW left \in 0 .. Budget
      PROVE  LET value == Parsed(s[1][2], s[1][1])
             IN  <<<<Append(s[1][1], value.keys[i]), value.parts[i]>>, left>> \in D(k)
  <2> DEFINE value == Parsed(s[1][2], s[1][1])
             path == s[1][1]
             child == <<Append(path, value.keys[i]), value.parts[i]>>
  <2>1. s[1] \in Reached(root) /\ path \in Seq(Key) /\ Len(path) + (k + 1) > MaxDepth + 1
    BY <1>1
  <2>2. value.keys \in Seq(Key)
    BY <1>1 DEF IsValue
  <2>3. i \in DOMAIN value.keys /\ value.keys[i] \in Key
    <3> HIDE DEF value
    <3> QED  BY <1>2, <2>2 DEF value
  <2>4. child \in Reached(root)
    <3>1. child \in Children(s[1])
      BY <2>3 DEF Children
    <3> HIDE DEF child
    <3> QED  BY <1>2, <2>1, <3>1, ReachesParts
  <2>5. Len(Append(path, value.keys[i])) = Len(path) + 1
    <3> HIDE DEF value, path
    <3> QED  BY <2>1, <2>3
  <2>6. Len(child[1]) + k > MaxDepth + 1
    <3>1. child[1] = Append(path, value.keys[i])
      OBVIOUS
    <3> HIDE DEF child, value, path
    <3> QED  BY <1>0, <2>1, <2>5, <3>1
  <2>7. <<child, left>> \in All
    <3> HIDE DEF child
    <3> QED  BY <2>4
  <2> HIDE DEF All
  <2> QED  BY <2>6, <2>7
<1>3. 0 \in X
  <2>1. D(0) = {}
    BY <1>0, <1>1
  <2>2. Solves([s \in {} |-> 0], 0)
    <3> HIDE DEF D
    <3> QED  BY <2>1
  <2> HIDE DEF Solves
  <2> QED  BY <2>2
\* Functions that agree on D(k) visit what is in D(k + 1) alike.
<1>4. ASSUME NEW k \in Nat, NEW g, \A s \in D(k) : g[s][2] \in 0 .. s[2],
             NEW s \in D(k + 1)
      PROVE  /\ At1(g, s)[2] \in 0 .. s[2]
             /\ Len(s[1][1]) <= MaxDepth => PartsSpend(g, s[1][1], Parsed(s[1][2], s[1][1]))
             /\ \A h : (\A x \in D(k) : h[x] = g[x]) => At1(h, s) = At1(g, s)
  <2> DEFINE value == Parsed(s[1][2], s[1][1])
             path == s[1][1]
             sub(i, left) == <<<<Append(path, value.keys[i]), value.parts[i]>>, left>>
  <2>1. /\ path \in Seq(Key) /\ s[2] \in 0 .. Budget /\ IsValue(value)
    BY <1>1
  <2>2. ASSUME Len(path) <= MaxDepth PROVE PartsSpend(g, path, value)
    <3> SUFFICES ASSUME NEW i \in 1 .. Len(value.keys), NEW left \in 0 .. Budget
                 PROVE  PartOf(g, path, value, i, left)[2] \in 0 .. left
      BY DEF PartsSpend
    <3>1. sub(i, left) \in D(k) /\ sub(i, left)[2] = left
      <4>1. sub(i, left) \in D(k)
        <5> HIDE DEF D
        <5> QED  BY <1>2, <2>2
      <4> QED  BY <4>1
    <3>2. g[sub(i, left)][2] \in 0 .. left
      <4> HIDE DEF sub, D
      <4> QED  BY <1>4, <3>1
    <3>3. left \in 0 .. left
      BY <1>0
    <3>4. PartOf(g, path, value, i, left)
            = IF value.parts[i].kind = "getter" THEN <<Omitted, left>> ELSE g[sub(i, left)]
      BY DEF PartOf
    <3> HIDE DEF sub, value, path
    <3> QED  BY <3>2, <3>3, <3>4
  <2>3. At1(g, s)[2] \in 0 .. s[2]
    <3> HIDE DEF D, sub
    <3> QED  BY <2>1, <2>2, VisitSpends
  <2>4. ASSUME NEW h, \A x \in D(k) : h[x] = g[x] PROVE At1(h, s) = At1(g, s)
    <3>1. ASSUME Len(path) <= MaxDepth, NEW i \in 1 .. Len(value.keys), NEW left \in 0 .. Budget
          PROVE  PartOf(h, path, value, i, left) = PartOf(g, path, value, i, left)
      <4>1. sub(i, left) \in D(k)
        <5> HIDE DEF D
        <5> QED  BY <1>2, <3>1
      <4>2. h[sub(i, left)] = g[sub(i, left)]
        <5> HIDE DEF D, sub
        <5> QED  BY <2>4, <4>1
      <4>3. \A w : PartOf(w, path, value, i, left)
                     = IF value.parts[i].kind = "getter" THEN <<Omitted, left>> ELSE w[sub(i, left)]
        BY DEF PartOf
      <4> HIDE DEF sub, value, path
      <4> QED  BY <4>2, <4>3
    <3> HIDE DEF D, sub
    <3> QED  BY <2>1, <2>2, <3>1, SameVisit
  <2> HIDE DEF D, At1
  <2> QED  BY <2>2, <2>3, <2>4
<1>5. ASSUME NEW k \in Nat, NEW s \in D(k) PROVE s \in D(k + 1)
  <2>1. Len(s[1][1]) \in Nat /\ s \in All /\ Len(s[1][1]) + k > MaxDepth + 1
    BY <1>1
  <2>2. Len(s[1][1]) + (k + 1) > MaxDepth + 1
    <3>1. \A l \in Nat : l + k > MaxDepth + 1 => l + (k + 1) > MaxDepth + 1
      BY <1>0
    <3> HIDE DEF All
    <3> QED  BY <2>1, <3>1
  <2> HIDE DEF All
  <2> QED  BY <2>1, <2>2
<1>6. ASSUME NEW k \in Nat, k \in X PROVE k + 1 \in X
  <2>1. PICK g : Solves(g, k)
    <3> HIDE DEF Solves
    <3> QED  BY <1>6
  <2> DEFINE h == [s \in D(k + 1) |-> At1(g, s)]
  <2> HIDE DEF D, At1
  <2>2. \A s \in D(k) : h[s] = g[s]
    <3> TAKE s \in D(k)
    <3>1. g[s] = At1(g, s)
      BY <2>1
    <3> QED  BY <1>5, <3>1
  <2>3. \A s \in D(k) : g[s][2] \in 0 .. s[2]
    BY <2>1
  <2>4. \A s \in D(k + 1) : h[s] = At1(g, s)
    OBVIOUS
  <2> HIDE DEF h
  <2>5. \A s \in D(k + 1) : At1(h, s) = At1(g, s) /\ At1(g, s)[2] \in 0 .. s[2]
    BY <1>4, <2>2, <2>3
  <2>6. h = [s \in D(k + 1) |-> At1(h, s)]
    BY <2>5 DEF h
  <2>7. Solves(h, k + 1)
    BY <2>4, <2>5, <2>6
  <2> HIDE DEF Solves
  <2> QED  BY <2>7
<1> DEFINE K == MaxDepth + 2
<1>7. K \in X
  <2>1. K \in Nat
    BY <1>0
  <2> HIDE DEF X, K
  <2> QED  BY <1>3, <1>6, <2>1, Inductive
<1>8. D(K) = All
  <2>1. \A s \in All : Len(s[1][1]) + K > MaxDepth + 1
    <3>1. \A l \in Nat : l + (MaxDepth + 2) > MaxDepth + 1
      BY <1>0
    <3> HIDE DEF All
    <3> QED  BY <1>1, <3>1
  <2> HIDE DEF All, K
  <2> QED  BY <2>1
<1> DEFINE Solution(g) == g = [s \in All |-> At1(g, s)]
           visits == CHOOSE g : Solution(g)
<1>9. Solution(visits)
  <2>1. PICK g : Solves(g, K)
    <3> HIDE DEF Solves, K
    <3> QED  BY <1>7
  <2>2. Solution(g)
    <3> HIDE DEF D, At1, K, All
    <3> QED  BY <1>8, <2>1
  <2> HIDE DEF Solution
  <2> QED  BY <2>2
<1>10. Visits(rules, root) = visits
  BY DEF Visits
<1> HIDE DEF visits
<1>11. \A s \in All : visits[s] = At1(visits, s)
  <2> HIDE DEF At1, All
  <2> QED  BY <1>9
<1> DEFINE Y == {k \in Nat : \A s \in D(k) : visits[s][2] \in 0 .. s[2]}
<1>12. \A k \in Nat : k \in Y
  <2>1. 0 \in Y
    <3>1. D(0) = {}
      BY <1>0, <1>1
    <3> HIDE DEF D
    <3> QED  BY <3>1
  <2>2. ASSUME NEW k \in Nat, k \in Y PROVE k + 1 \in Y
    <3>1. \A s \in D(k) : visits[s][2] \in 0 .. s[2]
      <4> HIDE DEF D
      <4> QED  BY <2>2
    <3>2. \A s \in D(k + 1) : s \in All
      OBVIOUS
    <3> HIDE DEF D, At1, All
    <3>3. \A s \in D(k + 1) : At1(visits, s)[2] \in 0 .. s[2]
      BY <1>4, <3>1
    <3> QED  BY <1>11, <3>2, <3>3
  <2> HIDE DEF Y
  <2> QED  BY <2>1, <2>2, Inductive
<1>13. \A s \in D(K) : visits[s][2] \in 0 .. s[2]
  <2>1. K \in Nat
    BY <1>0
  <2> HIDE DEF K, D
  <2> QED  BY <1>12, <2>1
<1>14. ASSUME NEW node \in Reached(root), NEW remaining \in 0 .. Budget
       PROVE  /\ visits[<<node, remaining>>] = visit(rules, visits, node[2], node[1], remaining)
              /\ visits[<<node, remaining>>][2] \in 0 .. remaining
              /\ Len(node[1]) <= MaxDepth => PartsSpend(visits, node[1], Parsed(node[2], node[1]))
  <2> DEFINE s == <<node, remaining>>
  <2>1. s \in All /\ s[1] = node /\ s[2] = remaining
    OBVIOUS
  <2>2. s \in D(K + 1)
    <3>1. Len(s[1][1]) \in Nat
      <4> HIDE DEF s, All
      <4> QED  BY <1>1, <2>1
    <3>2. Len(s[1][1]) + (K + 1) > MaxDepth + 1
      <4>1. \A l \in Nat : l + (K + 1) > MaxDepth + 1
        BY <1>0
      <4> HIDE DEF s, All, K
      <4> QED  BY <3>1, <4>1
    <3> HIDE DEF s, All
    <3> QED  BY <2>1, <3>2
  <2>3. K \in Nat
    BY <1>0
  <2>4. visits[s] = At1(visits, s) /\ visits[s][2] \in 0 .. s[2]
    <3> HIDE DEF s, At1, All, D, K
    <3> QED  BY <1>8, <1>11, <1>13, <2>1
  <2>5. Len(s[1][1]) <= MaxDepth => PartsSpend(visits, s[1][1], Parsed(s[1][2], s[1][1]))
    <3> HIDE DEF s, At1, All, D, K
    <3> QED  BY <1>4, <1>13, <2>2, <2>3
  <2> HIDE DEF s, All
  <2> QED  BY <2>1, <2>4, <2>5 DEF s
<1> QED  BY <1>10, <1>14

-----------------------------------------------------------------------------
(* What a value shows, and that what redaction leaves shows no secret. *)

Inside(node) == {<<Append(node[1], node[2].keys[i]), node[2].parts[i]>> : i \in DOMAIN node[2].keys}

\* level[n] holds the values n below v, with their paths.
AtRuns(level, v, path) ==
  /\ level[0] = {<<path, v>>}
  /\ \A n \in 1 .. MaxDepth + 2 : level[n] = UNION {Inside(node) : node \in level[n - 1]}
  /\ At(v, path) = {<<node[1], Shown(node[2].kind)>> : node \in UNION {level[n] : n \in 0 .. MaxDepth + 2}}

\* The levels of what a value shows are defined.
LEMMA AtLevels ==
  ASSUME NEW v, NEW path
  PROVE  \E level : AtRuns(level, v, path)
<1> DEFINE m == MaxDepth + 2
           E(g, n) == IF n = 0 THEN {<<path, v>>} ELSE UNION {Inside(node) : node \in g[n - 1]}
           Solves(g, k) == g = [n \in 0 .. k |-> E(g, n)]
           X == {k \in Nat : \E g : Solves(g, k)}
           level == CHOOSE g : Solves(g, m)
<1>0. m \in Nat
  BY PolicyAssumption
<1>1. 0 \in X
  <2>1. Solves([n \in 0 .. 0 |-> {<<path, v>>}], 0)
    OBVIOUS
  <2> HIDE DEF Solves
  <2> QED  BY <2>1
<1>2. ASSUME NEW k \in Nat, k \in X PROVE k + 1 \in X
  <2>1. PICK g : Solves(g, k)
    <3> HIDE DEF Solves
    <3> QED  BY <1>2
  <2> DEFINE h == [n \in 0 .. k + 1 |-> E(g, n)]
  <2>2. \A n \in 0 .. k : g[n] = E(g, n)
    <3> HIDE DEF E
    <3> QED  BY <2>1
  <2>3. \A n \in 0 .. k : h[n] = g[n]
    <3> HIDE DEF E
    <3>1. \A n \in 0 .. k : n \in 0 .. k + 1
      OBVIOUS
    <3> QED  BY <2>2, <3>1
  <2>4. ASSUME NEW n \in 0 .. k + 1 PROVE E(h, n) = E(g, n)
    <3>1. n # 0 => n - 1 \in 0 .. k
      OBVIOUS
    <3> HIDE DEF h
    <3> QED  BY <2>3, <3>1
  <2>5. Solves(h, k + 1)
    <3> HIDE DEF E
    <3> QED  BY <2>4
  <2> HIDE DEF h, Solves
  <2> QED  BY <2>5
<1>3. m \in X
  <2> HIDE DEF X
  <2> QED  BY <1>0, <1>1, <1>2, Inductive
<1>4. Solves(level, m)
  <2> HIDE DEF Solves, m
  <2> QED  BY <1>3
<1>5. At(v, path) = {<<node[1], Shown(node[2].kind)>> : node \in UNION {level[n] : n \in 0 .. m}}
  BY DEF At, Inside
<1> HIDE DEF level
<1>6. \A n \in 0 .. m : level[n] = E(level, n)
  <2> HIDE DEF E, m
  <2> QED  BY <1>4
<1>7. level[0] = {<<path, v>>}
  <2>1. 0 \in 0 .. m
    BY <1>0
  <2>2. E(level, 0) = {<<path, v>>}
    OBVIOUS
  <2> HIDE DEF E, m
  <2> QED  BY <1>6, <2>1, <2>2
<1>8. \A n \in 1 .. m : level[n] = UNION {Inside(node) : node \in level[n - 1]}
  <2> TAKE n \in 1 .. m
  <2>1. n \in 0 .. m /\ n # 0
    BY <1>0
  <2> HIDE DEF m
  <2> QED  BY <1>6, <2>1
<1> HIDE DEF m
<1> QED  BY <1>5, <1>7, <1>8 DEF AtRuns, m

\* R has the parts of its values.
HasParts(R) ==
  \A node \in R : \A i \in DOMAIN node[2].keys :
    <<Append(node[1], node[2].keys[i]), node[2].parts[i]>> \in R

\* What a value shows is of a kind in R, if R has the value and the parts of its own.
LEMMA ShowsWithin ==
  ASSUME NEW R, NEW v, NEW path, <<path, v>> \in R, HasParts(R)
  PROVE  \A shown \in At(v, path) : \E node \in R : shown = <<node[1], Shown(node[2].kind)>>
<1> DEFINE m == MaxDepth + 2
<1>0. m \in Nat
  BY PolicyAssumption
<1>a. \E level : AtRuns(level, v, path)
  BY AtLevels
<1>b. PICK level : AtRuns(level, v, path)
  BY <1>a
<1>1. /\ level[0] = {<<path, v>>}
      /\ \A n \in 1 .. m : level[n] = UNION {Inside(node) : node \in level[n - 1]}
      /\ At(v, path) = {<<node[1], Shown(node[2].kind)>> : node \in UNION {level[n] : n \in 0 .. m}}
  BY <1>b DEF AtRuns
<1>2. \A node \in R : Inside(node) \subseteq R
  BY DEF HasParts, Inside
<1> DEFINE X == {n \in Nat : n <= m => level[n] \subseteq R}
<1>3. \A n \in Nat : n \in X
  <2> HIDE DEF m
  <2>1. 0 \in X
    BY <1>1
  <2>2. ASSUME NEW n \in Nat, n \in X PROVE n + 1 \in X
    <3> SUFFICES ASSUME n + 1 <= m PROVE level[n + 1] \subseteq R
      OBVIOUS
    <3>1. n + 1 \in 1 .. m /\ (n + 1) - 1 = n /\ level[n] \subseteq R
      BY <1>0, <2>2
    <3>2. level[n + 1] = UNION {Inside(node) : node \in level[n]}
      BY <1>1, <3>1
    <3> QED  BY <1>2, <3>1, <3>2
  <2> HIDE DEF X
  <2> QED  BY <2>1, <2>2, Inductive
<1>4. \A n \in 0 .. m : level[n] \subseteq R
  <2> HIDE DEF m
  <2> QED  BY <1>0, <1>3
<1> HIDE DEF m
<1> QED  BY <1>1, <1>4

\* The results of a redaction of root: what visits return for the values reached,
\* and Omitted in place of any of them.
Results(rules, root) ==
  {<<node[1], Omitted>> : node \in Reached(root)}
    \cup {<<s[1][1], Visits(rules, root)[s][1]>> :
            s \in {t \in Reached(root) \X (0 .. Budget) : t[1][2].kind # "getter"}}

\* What a result may be at its path.
Clean(rules, path, v) ==
  /\ path \in Seq(Key) /\ Len(path) <= MaxDepth + 1
  /\ IsValue(v)
  /\ Secret(rules, path) \/ Len(path) > MaxDepth => v.kind \in {"redacted", "omitted"}
  /\ v.kind \notin {"getter", "unsafe"}
  /\ path # <<>> /\ Last(path) = "definition" => v.kind \notin {"text", "json"}

LEMMA LeavesAreValues ==
  ASSUME NEW kind, kind \notin Containers
  PROVE  IsValue(Leaf(kind)) /\ Leaf(kind).kind = kind /\ Leaf(kind).keys = <<>>
BY DEF IsValue, Leaf

\* A visit's result, and for a container its parts.
LEMMA VisitIsClean ==
  ASSUME NEW rules, IsRules(rules), NEW root, Values(root), NEW node \in Reached(root),
         NEW remaining \in 0 .. Budget,
         node[2].kind # "getter"
  PROVE  LET result == Visits(rules, root)[<<node, remaining>>][1]
             value == Parsed(node[2], node[1])
         IN  /\ Clean(rules, node[1], result)
             /\ result.kind \in Containers => result.keys = value.keys
             /\ \A i \in DOMAIN result.keys :
                  <<Append(node[1], result.keys[i]), result.parts[i]>> \in Results(rules, root)
<1> DEFINE visits == Visits(rules, root)
           path == node[1]
           value == Parsed(node[2], node[1])
           result == visits[<<node, remaining>>][1]
           copied == Copied(visits, path, value, remaining - 1)
           copy == copied[Len(value.keys)]
           Good(v) == /\ Clean(rules, path, v)
                      /\ v.kind \in Containers => v.keys = value.keys
                      /\ \A i \in DOMAIN v.keys : <<Append(path, v.keys[i]), v.parts[i]>> \in Results(rules, root)
<1>0. Budget \in Nat /\ remaining \in Nat /\ remaining <= Budget /\ MaxDepth \in Nat
  BY PolicyAssumption
<1>1. /\ node = <<path, node[2]>> /\ path \in Seq(Key) /\ Len(path) <= MaxDepth + 1
      /\ Len(path) <= MaxDepth => Children(node) \subseteq Reached(root)
  BY ReachesParts
<1>2. /\ value = [kind |-> value.kind, keys |-> value.keys, parts |-> value.parts]
      /\ value.keys \in Seq(Key) /\ (value.kind \notin Containers => value.keys = <<>>)
      /\ \A i, j \in DOMAIN value.keys : value.keys[i] = value.keys[j] => i = j
  BY DEF Values, IsValue
<1>3. visits[<<node, remaining>>] = visit(rules, visits, node[2], path, remaining)
      /\ (Len(path) <= MaxDepth => PartsSpend(visits, path, value))
  BY Visited
<1>4. visits[<<node, remaining>>]
        = IF Secret(rules, path) THEN <<Redacted, remaining>>
          ELSE IF remaining = 0 THEN <<Omitted, 0>>
          ELSE IF Unfit(value, path, remaining - 1) THEN <<Omitted, remaining - 1>>
          ELSE IF value.kind \in Containers THEN <<[value EXCEPT !.parts = copy[1]], copy[2]>>
          ELSE <<value, remaining - 1>>
  BY <1>3 DEF visit
<1> HIDE DEF visits, value
<1>5. Good(Omitted)
  <2>1. IsValue(Omitted) /\ Omitted.kind = "omitted" /\ Omitted.keys = <<>>
    BY LeavesAreValues DEF Omitted, Containers
  <2> QED  BY <1>1, <2>1 DEF Clean, Containers
<1>6. Good(Redacted)
  <2>1. IsValue(Redacted) /\ Redacted.kind = "redacted" /\ Redacted.keys = <<>>
    BY LeavesAreValues DEF Redacted, Containers
  <2> QED  BY <1>1, <2>1 DEF Clean, Containers
<1>7. CASE Secret(rules, path)
  <2>1. result = Redacted
    <3> HIDE DEF copy
    <3> QED  BY <1>4, <1>7
  <2> HIDE DEF Good, result
  <2> QED  BY <1>6, <2>1 DEF Good, result, visits, value
<1>8. CASE ~ Secret(rules, path) /\ (remaining = 0 \/ Unfit(value, path, remaining - 1))
  <2>1. result = Omitted
    <3> HIDE DEF copy
    <3> QED  BY <1>4, <1>8
  <2> HIDE DEF Good, result
  <2> QED  BY <1>5, <2>1 DEF Good, result, visits, value
<1>9. CASE ~ Secret(rules, path) /\ remaining # 0 /\ ~ Unfit(value, path, remaining - 1)
  <2>1. /\ Len(path) <= MaxDepth /\ ~ (Len(path) > MaxDepth)
        /\ value.kind # "unsafe" /\ remaining - 1 \in 0 .. Budget
    <3>1. Len(path) \in Nat
      BY <1>1
    <3> QED  BY <1>0, <1>9, <3>1 DEF Unfit
  <2>2. CASE value.kind \notin Containers
    <3>1. result = value
      <4> HIDE DEF copy
      <4> QED  BY <1>4, <1>9, <2>2
    <3>2. \/ value = node[2] /\ (path # <<>> /\ Last(path) = "definition" => node[2].kind \notin Texts)
          \/ value = Omitted
      BY <2>2 DEF value, Parsed
    <3>3. CASE value = Omitted
      <4> HIDE DEF Good, result
      <4> QED  BY <1>5, <3>1, <3>3 DEF Good, result, visits, value
    <3>4. CASE value = node[2] /\ (path # <<>> /\ Last(path) = "definition" => node[2].kind \notin Texts)
      <4>1. IsValue(value)
        BY <1>2 DEF IsValue
      <4>2. value.kind # "getter" /\ value.keys = <<>>
        BY <1>2, <2>2, <3>4
      <4>3. path # <<>> /\ Last(path) = "definition" => value.kind \notin {"text", "json"}
        BY <3>4 DEF Texts
      <4>4. Good(value)
        BY <1>1, <1>9, <2>1, <4>1, <4>2, <4>3 DEF Clean
      <4> HIDE DEF Good, result
      <4> QED  BY <3>1, <4>4 DEF Good, result, visits, value
    <3> QED  BY <3>2, <3>3, <3>4
  <2>3. CASE value.kind \in Containers
    <3> DEFINE new == [kind |-> value.kind, keys |-> value.keys, parts |-> copy[1]]
    <3>1. result = new
      <4>1. result = [value EXCEPT !.parts = copy[1]]
        <5> HIDE DEF copy
        <5> QED  BY <1>4, <1>9, <2>3
      <4>2. [value EXCEPT !.parts = copy[1]] = new
        <5> HIDE DEF copy
        <5> QED  BY <1>2
      <4> QED  BY <4>1, <4>2
    <3>2. CopyRuns(copied, visits, path, value, remaining - 1)
      BY <1>2, <1>3, <2>1, Copies
    <3> HIDE DEF copied
    <3>3. ASSUME NEW i \in DOMAIN value.keys
          PROVE  <<Append(path, value.keys[i]), copy[1][i]>> \in Results(rules, root)
      <4> DEFINE child == <<Append(path, value.keys[i]), value.parts[i]>>
                 left == copied[i - 1][2]
      <4>1. Len(value.keys) \in Nat /\ i \in 1 .. Len(value.keys) /\ i - 1 \in 0 .. Len(value.keys)
            /\ Len(value.keys) \in 0 .. Len(value.keys)
        BY <1>2
      <4>2. copy[1][i] = PartOf(visits, path, value, i, left)[1]
        BY <3>2, <4>1 DEF CopyRuns
      <4>3. left \in 0 .. Budget
        BY <3>2, <4>1 DEF CopyRuns
      <4>4. child \in Reached(root)
        <5>1. child \in Children(node)
          BY DEF Children, value
        <5> HIDE DEF child
        <5> QED  BY <1>1, <2>1, <5>1
      <4>5. child[1] = Append(path, value.keys[i]) /\ child[2] = value.parts[i]
        OBVIOUS
      <4> HIDE DEF copy, left
      <4>6. CASE value.parts[i].kind = "getter"
        <5>1. PartOf(visits, path, value, i, left)[1] = Omitted
          BY <4>6 DEF PartOf
        <5> HIDE DEF child
        <5> QED  BY <4>2, <4>4, <4>5, <5>1 DEF Results
      <4>7. CASE value.parts[i].kind # "getter"
        <5>1. PartOf(visits, path, value, i, left) = visits[<<child, left>>]
          BY <4>7 DEF PartOf
        <5> DEFINE t == <<child, left>>
        <5>2. t \in Reached(root) \X (0 .. Budget) /\ t[1] = child
          <6> HIDE DEF child
          <6> QED  BY <4>3, <4>4
        <5>3. t[1][2].kind # "getter"
          <6> HIDE DEF t, child
          <6> QED  BY <4>5, <4>7, <5>2
        <5>4. <<t[1][1], Visits(rules, root)[t][1]>> \in Results(rules, root)
          <6> HIDE DEF t
          <6> QED  BY <5>2, <5>3 DEF Results
        <5>5. copy[1][i] = Visits(rules, root)[t][1]
          BY <4>2, <5>1 DEF visits
        <5> HIDE DEF t, child
        <5> QED  BY <4>5, <5>2, <5>4, <5>5
      <4> QED  BY <4>6, <4>7
    <3> HIDE DEF copy
    <3>4. new.kind = value.kind /\ new.keys = value.keys /\ new.parts = copy[1]
      OBVIOUS
    <3>5. Clean(rules, path, new)
      <4>1. IsValue(new)
        <5>1. new = [kind |-> new.kind, keys |-> new.keys, parts |-> new.parts]
          OBVIOUS
        <5> HIDE DEF new
        <5> QED  BY <1>2, <2>3, <3>4, <5>1 DEF IsValue
      <4>2. new.kind \notin {"getter", "unsafe", "text", "json"}
        <5> HIDE DEF new
        <5> QED  BY <2>3, <3>4 DEF Containers
      <4> HIDE DEF new
      <4> QED  BY <1>1, <1>9, <2>1, <4>1, <4>2 DEF Clean
    <3> HIDE DEF new
    <3>6. Good(new)
      BY <3>3, <3>4, <3>5
    <3> HIDE DEF Good, result
    <3> QED  BY <3>1, <3>6 DEF Good, result, visits, value
  <2> QED  BY <2>2, <2>3
<1> QED  BY <1>7, <1>8, <1>9

\* Results are clean, and closed under parts.
LEMMA ResultsAreClean ==
  ASSUME NEW rules, IsRules(rules), NEW root, Values(root), NEW x \in Results(rules, root)
  PROVE  /\ Clean(rules, x[1], x[2])
         /\ \A i \in DOMAIN x[2].keys : <<Append(x[1], x[2].keys[i]), x[2].parts[i]>> \in Results(rules, root)
<1>1. CASE x \in {<<node[1], Omitted>> : node \in Reached(root)}
  <2>1. PICK node \in Reached(root) : x = <<node[1], Omitted>>
    BY <1>1
  <2>2. IsValue(Omitted) /\ Omitted.kind = "omitted" /\ Omitted.keys = <<>>
    BY LeavesAreValues DEF Omitted, Containers
  <2>3. node[1] \in Seq(Key) /\ Len(node[1]) <= MaxDepth + 1
    BY ReachesParts
  <2>4. x[1] = node[1] /\ x[2] = Omitted
    BY <2>1
  <2> QED  BY <2>2, <2>3, <2>4 DEF Clean
<1>2. CASE x \notin {<<node[1], Omitted>> : node \in Reached(root)}
  <2>1. PICK s \in Reached(root) \X (0 .. Budget) :
          s[1][2].kind # "getter" /\ x = <<s[1][1], Visits(rules, root)[s][1]>>
    BY <1>2 DEF Results
  <2>2. s = <<s[1], s[2]>> /\ s[1] \in Reached(root) /\ s[2] \in 0 .. Budget
    OBVIOUS
  <2>3. x[1] = s[1][1] /\ x[2] = Visits(rules, root)[<<s[1], s[2]>>][1]
    BY <2>1, <2>2
  <2> DEFINE node == s[1]
             result == Visits(rules, root)[<<node, s[2]>>][1]
  <2>4. /\ Clean(rules, node[1], result)
        /\ \A i \in DOMAIN result.keys :
             <<Append(node[1], result.keys[i]), result.parts[i]>> \in Results(rules, root)
    BY <2>1, <2>2, VisitIsClean
  <2> HIDE DEF result
  <2> QED  BY <2>3, <2>4 DEF result
<1> QED  BY <1>1, <1>2

\* The policy redacts every path the property calls hidden.
LEMMA HiddenIsSecret ==
  ASSUME NEW rules, IsRules(rules), NEW path \in Seq(Key), Hidden(rules, path)
  PROVE  Secret(rules, path)
<1>0. Len(path) \in Nat
  OBVIOUS
<1>a. CASE path = <<>>
  <2>1. \A k \in DOMAIN path : FALSE
    BY <1>a
  <2>2. normalizeKey[NoKey] \in rules.keys
    BY <2>1 DEF Hidden
  <2> QED  BY <1>a, <2>2 DEF Secret, LastKey
<1> SUFFICES ASSUME path # <<>> PROVE Secret(rules, path)
  BY <1>a
<1>1. PICK k \in DOMAIN path :
        LET end == SubSeq(path, k, Len(path))
        IN  \/ Len(end) = 1 /\ normalizeKey[end[1]] \in rules.keys
            \/ \E rule \in rules.paths :
                 Len(rule) = Len(end) /\ \A i \in DOMAIN end : rule[i] # "*" => rule[i] = end[i]
  BY DEF Hidden
<1> DEFINE end == SubSeq(path, k, Len(path))
           n == Len(path) - k + 1
<1>2. k \in 1 .. Len(path) /\ path # <<>> /\ n \in Nat /\ n <= Len(path)
  OBVIOUS
<1>3. end \in Seq(Key) /\ Len(end) = n /\ \A i \in 1 .. n : end[i] = path[k + i - 1]
  BY <1>2, SubSeqProperties
<1>4. DOMAIN end = 1 .. n
  <2> HIDE DEF end, n
  <2> QED  BY <1>3
<1>5. CASE Len(end) = 1 /\ normalizeKey[end[1]] \in rules.keys
  <2>1. end[1] = path[Len(path)]
    <3> HIDE DEF end
    <3>0. Len(path) - k + 1 = 1 /\ k \in Nat
      <4>1. k \in Nat
        BY <1>2
      <4>2. Len(end) = Len(path) - k + 1
        BY <1>3
      <4> QED  BY <1>5, <4>1, <4>2
    <3>1. n = 1 /\ k + 1 - 1 = Len(path)
      <4>1. \A l, j \in Nat : l - j + 1 = 1 => j + 1 - 1 = l
        OBVIOUS
      <4> QED  BY <1>0, <3>0, <4>1
    <3> QED  BY <1>3, <3>1
  <2> HIDE DEF end
  <2> QED  BY <1>2, <1>5, <2>1 DEF Secret, LastKey, Last
<1>6. ASSUME NEW rule \in rules.paths, Len(rule) = Len(end),
             \A i \in DOMAIN end : rule[i] # "*" => rule[i] = end[i]
      PROVE  Suffix(rule, path)
  <2>1. rule \in Seq(Key \cup {"*"})
    BY DEF IsRules
  <2>2. DOMAIN rule = 1 .. n /\ Len(rule) = n
    <3> HIDE DEF end, n
    <3> QED  BY <1>3, <1>6, <2>1
  <2>3. ASSUME NEW i \in DOMAIN rule PROVE rule[i] \in {"*", path[Len(path) - Len(rule) + i]}
    <3>1. i \in 1 .. n /\ Len(path) - Len(rule) + i = k + i - 1
      BY <1>0, <1>2, <2>2
    <3> HIDE DEF end, n
    <3> QED  BY <1>3, <1>4, <1>6, <3>1
  <2> HIDE DEF end, n
  <2> QED  BY <1>2, <2>2, <2>3 DEF Suffix
<1>7. CASE \E rule \in rules.paths : Suffix(rule, path)
  BY <1>2, <1>7 DEF Secret
<1> HIDE DEF end
<1> QED  BY <1>1, <1>5, <1>6, <1>7 DEF end

\* What SecretsStay says of one place of a redacted value.
Stays(rules, shown) == Hidden(rules, shown[1]) => shown[2] \in {"mark", "nothing"}
Kept(rules, shown) == Stays(rules, shown) /\ Plain(shown)

LEMMA ResultsAreKept ==
  ASSUME NEW rules, IsRules(rules), NEW root, Values(root), NEW path,
         NEW v, <<path, v>> \in Results(rules, root)
  PROVE  \A shown \in At(v, path) : Kept(rules, shown)
<1>1. \A shown \in At(v, path) : \E x \in Results(rules, root) : shown = <<x[1], Shown(x[2].kind)>>
  <2>1. HasParts(Results(rules, root))
    BY ResultsAreClean DEF HasParts
  <2> QED  BY <2>1, ShowsWithin
<1> SUFFICES ASSUME NEW shown \in At(v, path) PROVE Kept(rules, shown)
  OBVIOUS
<1>2. PICK x \in Results(rules, root) : shown = <<x[1], Shown(x[2].kind)>>
  BY <1>1
<1>3. Clean(rules, x[1], x[2])
  BY ResultsAreClean
<1>4. shown[1] = x[1] /\ shown[2] = Shown(x[2].kind)
  BY <1>2
<1>5. Hidden(rules, shown[1]) => x[2].kind \in {"redacted", "omitted"}
  BY <1>3, <1>4, HiddenIsSecret DEF Clean
<1> QED  BY <1>3, <1>4, <1>5 DEF Kept, Stays, Plain, Clean, Shown

\* The result of redacting root is one of its results.
LEMMA RedactedIsResult ==
  ASSUME NEW rules, IsRules(rules), NEW root, Values(root), root.kind # "getter"
  PROVE  /\ <<<<>>, redact(rules, root)>> \in Results(rules, root)
         /\ redact(rules, root).kind \in Containers => redact(rules, root).keys = root.keys
<1> DEFINE node == <<<<>>, root>>
           s == <<node, Budget>>
<1>1. node \in Reached(root) /\ Budget \in 0 .. Budget
  BY ReachesParts, PolicyAssumption
<1>2. s \in Reached(root) \X (0 .. Budget) /\ s[1][2].kind # "getter" /\ s[1][1] = <<>>
  BY <1>1
<1>3. redact(rules, root) = Visits(rules, root)[s][1]
  BY DEF redact
<1>4. <<s[1][1], Visits(rules, root)[s][1]>> \in Results(rules, root)
  <2> HIDE DEF s
  <2> QED  BY <1>2 DEF Results
<1>5. Parsed(node[2], node[1]) = root
  BY DEF Parsed
<1>6. Visits(rules, root)[s][1].kind \in Containers => Visits(rules, root)[s][1].keys = root.keys
  <2>1. node[2].kind # "getter"
    OBVIOUS
  <2> HIDE DEF node
  <2> QED  BY <1>1, <1>5, <2>1, VisitIsClean
<1> HIDE DEF s
<1> QED  BY <1>2, <1>3, <1>4, <1>6

\* A value with those below it, as far as redaction looks.
HasValues(R) ==
  \A x \in R : /\ x[1] \in Seq(Key) /\ IsValue(Parsed(x[2], x[1]))
               /\ Len(x[1]) <= MaxDepth => Children(x) \subseteq R

\* What the store redacts is made of values: it reaches the snapshot in its place in R.
LEMMA WrappedHasValues ==
  ASSUME NEW R, HasValues(R), NEW f, <<<<"snapshot">>, f>> \in R
  PROVE  LET again == Record(<<"snapshot">>, <<f>>)
         IN  Values(again) /\ Reached(again) \subseteq {<<<<>>, again>>} \cup R
<1> DEFINE again == Record(<<"snapshot">>, <<f>>)
           top == <<<<>>, again>>
           m == MaxDepth + 1
           Good(x, n) == (x = top \/ x \in R) /\ x[1] \in Seq(Key) /\ Len(x[1]) = n
<1>0. m \in Nat /\ MaxDepth \in Nat
  BY PolicyAssumption
<1>1. PICK level :
        /\ level[0] = {top}
        /\ \A n \in 1 .. m : level[n] = UNION {Children(node) : node \in level[n - 1]}
        /\ Reached(again) = UNION {level[n] : n \in 0 .. m}
  BY ReachedLevels
<1>2. again.kind = "record" /\ again.keys = <<"snapshot">> /\ again.parts = <<f>>
      /\ again = [kind |-> again.kind, keys |-> again.keys, parts |-> again.parts]
  BY DEF Record
<1>3. "snapshot" \in Key /\ <<"snapshot">> \in Seq(Key)
  <2>1. "snapshot" \in Key
    BY PolicyAssumption
  <2>2. \A s \in Key : <<s>> \in Seq(Key)
    OBVIOUS
  <2> QED  BY <2>1, <2>2
<1> HIDE DEF again
<1>4. IsValue(again)
  <2>1. \A i, j \in DOMAIN <<"snapshot">> : i = j
    OBVIOUS
  <2> QED  BY <1>2, <1>3, <2>1 DEF IsValue, Containers
<1>5. top[1] = <<>> /\ top[2] = again
  OBVIOUS
<1> HIDE DEF top
<1>6. Parsed(top[2], top[1]) = again
  BY <1>5 DEF Parsed
<1>7. \A y \in Children(top) : y = <<<<"snapshot">>, f>>
  <2> SUFFICES ASSUME NEW y \in Children(top) PROVE y = <<<<"snapshot">>, f>>
    OBVIOUS
  <2>1. PICK i \in DOMAIN again.keys : y = <<Append(<<>>, again.keys[i]), again.parts[i]>>
    BY <1>5, <1>6 DEF Children
  <2>2. i = 1
    BY <1>2
  <2>3. again.keys[i] = "snapshot" /\ again.parts[i] = f
    BY <1>2, <2>2
  <2>4. Append(<<>>, "snapshot") = <<"snapshot">>
    OBVIOUS
  <2> QED  BY <2>1, <2>3, <2>4
<1>8. ASSUME NEW n \in Nat, n <= MaxDepth, NEW x, Good(x, n), NEW y \in Children(x)
      PROVE  Good(y, n + 1)
  <2>1. CASE x = top
    <3> DEFINE z == <<<<"snapshot">>, f>>
    <3>1. y = z /\ z \in R
      BY <1>7, <1>8, <2>1
    <3>2. z[1] = <<"snapshot">>
      OBVIOUS
    <3>3. n = 0
      BY <1>5, <1>8, <2>1
    <3>4. Len(<<"snapshot">>) = 1
      OBVIOUS
    <3> HIDE DEF z
    <3> QED  BY <1>3, <3>1, <3>2, <3>3, <3>4
  <2>2. CASE x \in R
    <3> DEFINE value == Parsed(x[2], x[1])
    <3>1. IsValue(value) /\ Children(x) \subseteq R /\ x[1] \in Seq(Key) /\ Len(x[1]) = n
      BY <1>8, <2>2 DEF HasValues
    <3>2. PICK i \in DOMAIN value.keys : y = <<Append(x[1], value.keys[i]), value.parts[i]>>
      BY <1>8 DEF Children
    <3> HIDE DEF value
    <3>3. value.keys \in Seq(Key)
      BY <3>1 DEF IsValue
    <3>4. value.keys[i] \in Key /\ y[1] = Append(x[1], value.keys[i])
      BY <3>2, <3>3
    <3>5. y[1] \in Seq(Key) /\ Len(y[1]) = n + 1
      BY <3>1, <3>4
    <3> QED  BY <1>8, <3>1, <3>5
  <2> QED  BY <1>8, <2>1, <2>2
<1> DEFINE X == {n \in Nat : n <= m => \A x \in level[n] : Good(x, n)}
<1>9. 0 \in X
  <2>1. <<>> \in Seq(Key) /\ Len(<<>>) = 0
    OBVIOUS
  <2>2. Good(top, 0)
    BY <1>5, <2>1
  <2> HIDE DEF Good
  <2> QED  BY <1>1, <2>2
<1>10. ASSUME NEW n \in Nat, n \in X PROVE n + 1 \in X
  <2> HIDE DEF Good
  <2> SUFFICES ASSUME n + 1 <= m, NEW y \in level[n + 1] PROVE Good(y, n + 1)
    OBVIOUS
  <2>1. n + 1 \in 1 .. m /\ (n + 1) - 1 = n /\ n <= MaxDepth /\ \A x \in level[n] : Good(x, n)
    BY <1>0, <1>10
  <2> HIDE DEF m
  <2>2. PICK x \in level[n] : y \in Children(x)
    BY <1>1, <2>1
  <2> QED  BY <1>8, <2>1, <2>2
<1>11. \A n \in 0 .. m : \A x \in level[n] : x = top \/ x \in R
  <2>1. \A n \in Nat : n \in X
    <3> HIDE DEF X
    <3> QED  BY <1>9, <1>10, Inductive
  <2>2. \A n \in 0 .. m : n \in Nat /\ n <= m
    BY <1>0
  <2> HIDE DEF m
  <2> QED  BY <2>1, <2>2
<1>12. \A x \in Reached(again) : x = top \/ x \in R
  <2> HIDE DEF m
  <2> QED  BY <1>1, <1>11
<1>13. Values(again)
  BY <1>4, <1>6, <1>12 DEF Values, HasValues
<1> QED  BY <1>12, <1>13 DEF again, top

\* What is reached is known, and so is what a redaction left.
LEMMA ReachedIsKnown ==
  ASSUME NEW root, Values(root)
  PROVE  HasValues(Reached(root))
<1> SUFFICES ASSUME NEW x \in Reached(root)
             PROVE  /\ x[1] \in Seq(Key) /\ IsValue(Parsed(x[2], x[1]))
                    /\ Len(x[1]) <= MaxDepth => Children(x) \subseteq Reached(root)
  BY DEF HasValues
<1>1. x[1] \in Seq(Key) /\ (Len(x[1]) <= MaxDepth => Children(x) \subseteq Reached(root))
  BY ReachesParts
<1> QED  BY <1>1 DEF Values

LEMMA ResultsAreKnown ==
  ASSUME NEW rules, IsRules(rules), NEW root, Values(root)
  PROVE  HasValues(Results(rules, root))
<1> SUFFICES ASSUME NEW x \in Results(rules, root)
             PROVE  /\ x[1] \in Seq(Key) /\ IsValue(Parsed(x[2], x[1]))
                    /\ Children(x) \subseteq Results(rules, root)
  BY DEF HasValues
<1>1. IsValue(Omitted) /\ Omitted.keys = <<>>
  BY LeavesAreValues DEF Omitted, Containers
<1>2. /\ Clean(rules, x[1], x[2])
      /\ \A i \in DOMAIN x[2].keys : <<Append(x[1], x[2].keys[i]), x[2].parts[i]>> \in Results(rules, root)
  BY ResultsAreClean
<1>3. Parsed(x[2], x[1]) = x[2] \/ Parsed(x[2], x[1]) = Omitted
  BY <1>2 DEF Clean, Parsed
<1>4. CASE Parsed(x[2], x[1]) = x[2]
  BY <1>2, <1>4 DEF Clean, Children
<1>5. CASE Parsed(x[2], x[1]) = Omitted
  <2>1. Children(x) = {}
    BY <1>1, <1>5 DEF Children
  <2> QED  BY <1>1, <1>2, <1>5, <2>1 DEF Clean
<1> QED  BY <1>3, <1>4, <1>5

\* A result is a mark or of the kind it was redacted from.
LEMMA ResultsComeFrom ==
  ASSUME NEW rules, IsRules(rules), NEW root, Values(root), NEW x \in Results(rules, root)
  PROVE  \E node \in Reached(root) :
           /\ x[1] = node[1]
           /\ x[2].kind \in {"redacted", "omitted", Parsed(node[2], node[1]).kind}
<1>0. Omitted.kind = "omitted" /\ Redacted.kind = "redacted"
  BY DEF Omitted, Redacted, Leaf
<1>1. CASE x \in {<<node[1], Omitted>> : node \in Reached(root)}
  <2>1. PICK node \in Reached(root) : x = <<node[1], Omitted>>
    BY <1>1
  <2>2. x[1] = node[1] /\ x[2] = Omitted
    BY <2>1
  <2> QED  BY <1>0, <2>2
<1>2. CASE x \notin {<<node[1], Omitted>> : node \in Reached(root)}
  <2>1. PICK s \in Reached(root) \X (0 .. Budget) :
          s[1][2].kind # "getter" /\ x = <<s[1][1], Visits(rules, root)[s][1]>>
    BY <1>2 DEF Results
  <2>2. s = <<s[1], s[2]>> /\ s[1] \in Reached(root) /\ s[2] \in 0 .. Budget
    OBVIOUS
  <2> DEFINE node == s[1]
             left == s[2]
             value == Parsed(node[2], node[1])
             result == Visits(rules, root)[<<node, left>>]
             copy == Copied(Visits(rules, root), node[1], value, left - 1)[Len(value.keys)]
  <2>3. x[1] = node[1] /\ x[2] = result[1]
    BY <2>1, <2>2
  <2>4. result = visit(rules, Visits(rules, root), node[2], node[1], left)
    BY <2>2, Visited
  <2>5. result
          = IF Secret(rules, node[1]) THEN <<Redacted, left>>
            ELSE IF left = 0 THEN <<Omitted, 0>>
            ELSE IF Unfit(value, node[1], left - 1) THEN <<Omitted, left - 1>>
            ELSE IF value.kind \in Containers THEN <<[value EXCEPT !.parts = copy[1]], copy[2]>>
            ELSE <<value, left - 1>>
    BY <2>4 DEF visit
  <2>6. IsValue(value)
    BY <2>2 DEF Values
  <2> HIDE DEF copy, value, result
  <2>7. [value EXCEPT !.parts = copy[1]].kind = value.kind
    BY <2>6 DEF IsValue
  <2>8. result[1] \in {Redacted, Omitted, [value EXCEPT !.parts = copy[1]], value}
    BY <2>5
  <2>9. result[1].kind \in {"redacted", "omitted", value.kind}
    BY <1>0, <2>7, <2>8
  <2> QED  BY <2>2, <2>3, <2>9 DEF value
<1> QED  BY <1>1, <1>2

\* A mark that the guard left stays a mark, whatever the store's rules are.
LEMMA MarksStay ==
  ASSUME NEW guard, IsRules(guard), NEW root, Values(root),
         NEW f, <<<<"snapshot">>, f>> \in Results(guard, root), ~ Hidden(guard, <<>>),
         NEW rules, IsRules(rules), NEW x \in Results(rules, Record(<<"snapshot">>, <<f>>)),
         Hidden(guard, x[1])
  PROVE  x[2].kind \in {"redacted", "omitted"}
<1> DEFINE again == Record(<<"snapshot">>, <<f>>)
           top == <<<<>>, again>>
           R == Results(guard, root)
<1>1. Values(again) /\ Reached(again) \subseteq {top} \cup R
  <2>1. HasValues(R) /\ <<<<"snapshot">>, f>> \in R
    BY ResultsAreKnown
  <2> HIDE DEF R
  <2> QED  BY <2>1, WrappedHasValues
<1>2. top[1] = <<>>
  OBVIOUS
<1>3. x \in Results(rules, again)
  OBVIOUS
<1> HIDE DEF again, top
<1>4. PICK node \in Reached(again) :
        /\ x[1] = node[1]
        /\ x[2].kind \in {"redacted", "omitted", Parsed(node[2], node[1]).kind}
  BY <1>1, <1>3, ResultsComeFrom
<1>5. node \in R
  BY <1>1, <1>2, <1>4
<1>6. Clean(guard, node[1], node[2])
  BY <1>5, ResultsAreClean
<1>7. node[2].kind \in {"redacted", "omitted"}
  BY <1>4, <1>6, HiddenIsSecret DEF Clean
<1>8. Parsed(node[2], node[1]).kind \in {"redacted", "omitted"}
  BY <1>7 DEF Parsed, Omitted, Leaf
<1> QED  BY <1>4, <1>8

\* A leaf shows itself alone.
LEMMA LeafShows ==
  ASSUME NEW kind, NEW path
  PROVE  \A shown \in At(Leaf(kind), path) : shown = <<path, Shown(kind)>>
<1> DEFINE R == {<<path, Leaf(kind)>>}
<1>1. Leaf(kind).kind = kind /\ Leaf(kind).keys = <<>>
  BY DEF Leaf
<1>2. HasParts(R)
  BY <1>1 DEF HasParts
<1>3. \A shown \in At(Leaf(kind), path) : \E node \in R : shown = <<node[1], Shown(node[2].kind)>>
  <2>1. <<path, Leaf(kind)>> \in R
    OBVIOUS
  <2> HIDE DEF R
  <2> QED  BY <1>2, <2>1, ShowsWithin
<1> QED  BY <1>1, <1>3

\* A field of a redacted record is one of its parts, or the scalar for what is not there.
LEMMA FieldOfResult ==
  ASSUME NEW rules, IsRules(rules), NEW root, Values(root),
         NEW v, v.kind = "record", <<<<>>, v>> \in Results(rules, root), NEW k
  PROVE  \/ Field(v, k) = Leaf("scalar")
         \/ \E i \in DOMAIN v.keys : /\ v.keys[i] = k /\ Field(v, k) = v.parts[i]
                                     /\ <<<<k>>, Field(v, k)>> \in Results(rules, root)
<1> DEFINE has == Contains(v.keys, k)
           i == CHOOSE j \in DOMAIN v.keys : v.keys[j] = k
<1>1. Field(v, k) = IF has THEN v.parts[i] ELSE Leaf("scalar")
  BY DEF Field
<1>2. CASE has
  <2>1. v.keys \in Seq(Key)
    <3> DEFINE x == <<<<>>, v>>
    <3>1. x \in Results(rules, root) /\ x[1] = <<>> /\ x[2] = v
      OBVIOUS
    <3> HIDE DEF x
    <3>2. Clean(rules, x[1], x[2])
      BY <3>1, ResultsAreClean
    <3>3. Clean(rules, <<>>, v)
      BY <3>1, <3>2
    <3> QED  BY <3>3 DEF Clean, IsValue
  <2>2. \E j \in DOMAIN v.keys : v.keys[j] = k
    BY <1>2, <2>1 DEF Contains
  <2>3. i \in DOMAIN v.keys /\ v.keys[i] = k
    BY <2>2
  <2> HIDE DEF i
  <2>4. <<Append(<<>>, v.keys[i]), v.parts[i]>> \in Results(rules, root)
    BY <2>3, ResultsAreClean
  <2>5. Append(<<>>, k) = <<k>>
    OBVIOUS
  <2> QED  BY <1>1, <1>2, <2>3, <2>4, <2>5
<1> HIDE DEF i, has
<1> QED  BY <1>1, <1>2

\* A record sent without a guard is reached with its snapshot.
LEMMA SnapshotIsReached ==
  ASSUME NEW root, Values(root), Field(root, "snapshot").kind = "record"
  PROVE  <<<<"snapshot">>, Field(root, "snapshot")>> \in Reached(root)
<1> DEFINE has == Contains(root.keys, "snapshot")
           i == CHOOSE j \in DOMAIN root.keys : root.keys[j] = "snapshot"
           node == <<<<>>, root>>
<1>0. Leaf("scalar").kind = "scalar"
  BY DEF Leaf
<1>1. has /\ Field(root, "snapshot") = root.parts[i]
  BY <1>0 DEF Field
<1>2. node \in Reached(root) /\ node[1] = <<>> /\ node[2] = root
  BY ReachesParts
<1>3. Parsed(root, <<>>) = root
  BY DEF Parsed
<1>4. Children(node) \subseteq Reached(root)
  <2>1. Len(node[1]) <= MaxDepth
    BY <1>2, PolicyAssumption
  <2> HIDE DEF node
  <2> QED  BY <1>2, <2>1, ReachesParts
<1> HIDE DEF node
<1>5. root.keys \in Seq(Key)
  BY <1>2, <1>3 DEF Values, IsValue
<1>6. \E j \in DOMAIN root.keys : root.keys[j] = "snapshot"
  BY <1>1, <1>5 DEF Contains
<1>7. i \in DOMAIN root.keys /\ root.keys[i] = "snapshot"
  BY <1>6
<1> HIDE DEF i, has
<1>8. <<Append(<<>>, root.keys[i]), root.parts[i]>> \in Children(node)
  BY <1>2, <1>3, <1>7 DEF Children
<1>9. Append(<<>>, "snapshot") = <<"snapshot">>
  OBVIOUS
<1> QED  BY <1>1, <1>4, <1>7, <1>8, <1>9

\* What goes on the wire: the redacted record, if its type and id are shown.
Sent(enabled, v) ==
  /\ enabled /\ v.kind = "record"
  /\ Field(v, "type").kind = "text" /\ Field(v, "sessionId").kind = "text"

LEMMA WireIs ==
  ASSUME NEW rules, IsRules(rules), NEW enabled, NEW root
  PROVE  /\ Sent(enabled, redact(rules, root)) =>
              serializeInspection(rules, enabled, root) = redact(rules, root)
         /\ ~ Sent(enabled, redact(rules, root)) =>
              serializeInspection(rules, enabled, root) = Leaf("nothing")
<1> DEFINE sanitized == redact(rules, root)
<1>1. serializeInspection(rules, enabled, root)
        = IF Sent(enabled, sanitized) THEN sanitized ELSE Leaf("nothing")
  BY Zenon DEF serializeInspection, Sent
<1> HIDE DEF sanitized
<1> QED  BY <1>1 DEF sanitized

\* The store's second pass: a record comes back as its part, anything else as Omitted.
LEMMA StoredIsResult ==
  ASSUME NEW rules, IsRules(rules), NEW f, Values(Record(<<"snapshot">>, <<f>>))
  PROVE  LET again == Record(<<"snapshot">>, <<f>>)
         IN  <<<<"snapshot">>, redactField(rules, "snapshot", f)>> \in Results(rules, again)
<1> DEFINE again == Record(<<"snapshot">>, <<f>>)
           result == redact(rules, again)
           stored == redactField(rules, "snapshot", f)
<1>1. again.kind = "record" /\ again.keys = <<"snapshot">>
  BY DEF Record
<1>2. Values(again)
  OBVIOUS
<1> HIDE DEF again
<1>3. <<<<>>, result>> \in Results(rules, again) /\ (result.kind = "record" => result.keys = <<"snapshot">>)
  BY <1>1, <1>2, RedactedIsResult DEF Containers
<1>4. stored = IF result.kind = "record" THEN result.parts[1] ELSE Omitted
  BY DEF redactField, again
<1>5. Append(<<>>, "snapshot") = <<"snapshot">>
  OBVIOUS
<1> HIDE DEF result, stored
<1>6. CASE result.kind = "record"
  <2>1. 1 \in DOMAIN result.keys /\ result.keys[1] = "snapshot"
    BY <1>3, <1>6
  <2>2. <<Append(<<>>, "snapshot"), result.parts[1]>> \in Results(rules, again)
    BY <1>2, <1>3, <2>1, ResultsAreClean
  <2> QED  BY <1>4, <1>5, <1>6, <2>2 DEF again, stored
<1>7. CASE result.kind # "record"
  <2> DEFINE node == <<<<>>, again>>
             child == <<Append(<<>>, again.keys[1]), again.parts[1]>>
  <2>1. node \in Reached(again) /\ Children(node) \subseteq Reached(again)
    BY <1>2, ReachesParts, PolicyAssumption
  <2>2. Parsed(again, <<>>) = again
    BY DEF Parsed
  <2>3. child \in Children(node)
    <3>1. 1 \in DOMAIN again.keys
      BY <1>1
    <3> QED  BY <2>2, <3>1 DEF Children
  <2>4. child \in Reached(again)
    <3> HIDE DEF child, node
    <3> QED  BY <2>1, <2>3
  <2>5. child[1] = <<"snapshot">>
    BY <1>1
  <2>6. <<child[1], Omitted>> \in Results(rules, again)
    <3> HIDE DEF child
    <3> QED  BY <2>4 DEF Results
  <2> HIDE DEF child
  <2> QED  BY <1>4, <1>7, <2>5, <2>6 DEF again, stored
<1> QED  BY <1>6, <1>7

\* Nothing is shown of what is secret as a whole.
LEMMA RootHidden ==
  ASSUME NEW rules, IsRules(rules), NEW root, Values(root), root.kind # "getter", Hidden(rules, <<>>)
  PROVE  redact(rules, root).kind = "redacted"
<1> DEFINE node == <<<<>>, root>>
           value == Parsed(root, <<>>)
           copy == Copied(Visits(rules, root), <<>>, value, Budget - 1)[Len(value.keys)]
<1>1. node \in Reached(root) /\ Budget \in 0 .. Budget /\ node[1] = <<>> /\ node[2] = root
  BY ReachesParts, PolicyAssumption
<1>2. Secret(rules, <<>>)
  <2>1. <<>> \in Seq(Key)
    OBVIOUS
  <2> QED  BY <2>1, HiddenIsSecret
<1>3. redact(rules, root) = Visits(rules, root)[<<node, Budget>>][1]
  BY DEF redact
<1> HIDE DEF node
<1>4. Visits(rules, root)[<<node, Budget>>] = visit(rules, Visits(rules, root), root, <<>>, Budget)
  BY <1>1, Visited
<1>5. visit(rules, Visits(rules, root), root, <<>>, Budget) = <<Redacted, Budget>>
  BY <1>2, Zenon DEF visit
<1>6. Redacted.kind = "redacted"
  BY DEF Redacted, Leaf
<1> QED  BY <1>3, <1>4, <1>5, <1>6

\* A record that the guard sends is what it redacted, and not secret as a whole.
LEMMA GuardSends ==
  ASSUME question \in Question, question.kind = "inspect", reply = answer(question),
         question.guarded, Field(reply.wire, "snapshot").kind = "record"
  PROVE  /\ <<<<"snapshot">>, Field(reply.wire, "snapshot")>> \in Results(question.guard, question.envelope)
         /\ ~ Hidden(question.guard, <<>>)
<1> DEFINE root == question.envelope
           guard == question.guard
           wire == reply.wire
           f == Field(wire, "snapshot")
<1>1. Values(root) /\ root.kind # "getter" /\ IsRules(guard)
  BY EnvelopeAssumption DEF Values
<1>2. wire = serializeInspection(guard, question.enabled, root)
  <2>1. reply = inspect(question)
    BY Zenon DEF answer
  <2> QED  BY <2>1 DEF inspect, sent
<1>3. wire.kind # "record" => f = Leaf("scalar")
  BY DEF Field
<1>4. \A kind : Leaf(kind).kind = kind
  BY DEF Leaf
<1>5. f.kind = "record"
  OBVIOUS
<1> HIDE DEF root, guard, wire, f
<1>6. wire = redact(guard, root) /\ wire.kind = "record" /\ f # Leaf("scalar")
  <2>1. f # Leaf("scalar") /\ wire.kind = "record"
    BY <1>3, <1>4, <1>5
  <2>2. wire # Leaf("nothing")
    BY <1>4, <2>1
  <2> QED  BY <1>1, <1>2, <2>1, <2>2, WireIs
<1>7. <<<<>>, wire>> \in Results(guard, root)
  BY <1>1, <1>6, RedactedIsResult
<1>8. <<<<"snapshot">>, f>> \in Results(guard, root)
  BY <1>1, <1>6, <1>7, FieldOfResult DEF f
<1>9. ~ Hidden(guard, <<>>)
  BY <1>1, <1>6, RootHidden
<1> QED  BY <1>8, <1>9 DEF root, guard, wire, f

\* What the store redacts is made of values, from a guard or not.
LEMMA StoredHasValues ==
  ASSUME question \in Question, question.kind = "inspect", reply = answer(question),
         Field(reply.wire, "snapshot").kind = "record"
  PROVE  Values(Record(<<"snapshot">>, <<Field(reply.wire, "snapshot")>>))
<1> DEFINE root == question.envelope
           f == Field(reply.wire, "snapshot")
<1>1. Values(root) /\ IsRules(question.guard)
  BY EnvelopeAssumption DEF Values
<1>2. CASE question.guarded
  <2>1. <<<<"snapshot">>, f>> \in Results(question.guard, root)
    BY <1>2, GuardSends
  <2>2. HasValues(Results(question.guard, root))
    BY <1>1, ResultsAreKnown
  <2> HIDE DEF f, root
  <2> QED  BY <2>1, <2>2, WrappedHasValues DEF f
<1>3. CASE ~ question.guarded
  <2>1. reply.wire = root
    <3>1. reply = inspect(question)
      BY Zenon DEF answer
    <3> QED  BY <1>3, <3>1 DEF inspect, sent
  <2>2. <<<<"snapshot">>, f>> \in Reached(root)
    BY <1>1, <2>1, SnapshotIsReached
  <2>3. HasValues(Reached(root))
    BY <1>1, ReachedIsKnown
  <2> HIDE DEF f, root
  <2> QED  BY <2>2, <2>3, WrappedHasValues DEF f
<1> QED  BY <1>2, <1>3

\* No end of the wire has what its rules call secret, for any payload: SecretsStay.
LEMMA InspectKeeps ==
  ASSUME question \in Question, question.kind = "inspect", reply = answer(question)
  PROVE  SecretsStay
<1> DEFINE root == question.envelope
           guard == question.guard
           rules == question.filter
           wire == reply.wire
           stored == reply.stored
           f == Field(wire, "snapshot")
           again == Record(<<"snapshot">>, <<f>>)
<1>1. Values(root) /\ root.kind # "getter" /\ IsRules(guard) /\ IsRules(rules)
  BY EnvelopeAssumption DEF Values
<1>2. /\ wire = IF question.guarded THEN serializeInspection(guard, question.enabled, root) ELSE root
      /\ stored = IF f.kind = "record" THEN redactField(rules, "snapshot", f) ELSE Leaf("nothing")
  <2>1. reply = inspect(question)
    BY Zenon DEF answer
  <2> QED  BY <2>1 DEF inspect, sent
<1>3. wire.kind # "record" => f = Leaf("scalar")
  BY DEF Field
<1>4. \A kind : Leaf(kind).kind = kind
  BY DEF Leaf
<1> HIDE DEF root, guard, rules, wire, stored, f, again
<1>5. ASSUME NEW path \in {<<>>, <<"snapshot">>}, NEW shown \in At(Leaf("nothing"), path), NEW r
      PROVE  Kept(r, shown)
  <2>1. shown = <<path, "nothing">>
    BY LeafShows DEF Shown
  <2>2. Len(path) <= MaxDepth + 1
    <3>1. CASE path = <<>>
      BY <3>1, PolicyAssumption
    <3>2. CASE path = <<"snapshot">>
      BY <3>2, PolicyAssumption
    <3> QED  BY <3>1, <3>2
  <2>3. path # <<>> => Last(path) # "definition"
    BY DEF Last
  <2> QED  BY <2>1, <2>2, <2>3 DEF Kept, Stays, Plain
<1>6. ASSUME question.guarded
      PROVE  \/ wire = redact(guard, root) /\ wire.kind = "record"
             \/ wire = Leaf("nothing") /\ wire.kind = "nothing"
  BY <1>1, <1>2, <1>4, <1>6, WireIs DEF Sent
<1>7. ASSUME question.guarded, NEW shown \in At(wire, <<>>) PROVE Kept(guard, shown)
  <2>1. CASE wire = redact(guard, root)
    <3>1. <<<<>>, wire>> \in Results(guard, root)
      BY <1>1, <2>1, RedactedIsResult
    <3> QED  BY <1>1, <1>7, <3>1, ResultsAreKept
  <2>2. CASE wire = Leaf("nothing")
    BY <1>5, <1>7, <2>2
  <2> QED  BY <1>6, <1>7, <2>1, <2>2
<1>8. ASSUME question.guarded, f.kind = "record"
      PROVE  <<<<"snapshot">>, f>> \in Results(guard, root) /\ ~ Hidden(guard, <<>>)
  BY <1>8, GuardSends DEF f, wire, guard, root
<1>9. ASSUME f.kind = "record" PROVE Values(again)
  BY <1>9, StoredHasValues DEF again, f, wire
<1>10. ASSUME f.kind = "record" PROVE <<<<"snapshot">>, stored>> \in Results(rules, again)
  BY <1>1, <1>2, <1>9, <1>10, StoredIsResult DEF again
<1>11. ASSUME NEW shown \in At(stored, <<"snapshot">>)
       PROVE  Kept(rules, shown) /\ (question.guarded => Stays(guard, shown))
  <2>1. CASE f.kind = "record"
    <3>1. Kept(rules, shown)
      BY <1>1, <1>9, <1>10, <1>11, <2>1, ResultsAreKept
    <3>2. ASSUME question.guarded, Hidden(guard, shown[1]) PROVE shown[2] = "mark"
      <4>1. HasParts(Results(rules, again))
        BY <1>1, <1>9, <2>1, ResultsAreClean DEF HasParts
      <4>2. PICK x \in Results(rules, again) : shown = <<x[1], Shown(x[2].kind)>>
        BY <1>10, <1>11, <2>1, <4>1, ShowsWithin
      <4>3. x[1] = shown[1] /\ shown[2] = Shown(x[2].kind)
        BY <4>2
      <4>4. x[2].kind \in {"redacted", "omitted"}
        BY <1>1, <1>8, <2>1, <3>2, <4>2, <4>3, MarksStay DEF again
      <4> QED  BY <4>3, <4>4 DEF Shown
    <3> QED  BY <3>1, <3>2 DEF Stays
  <2>2. CASE f.kind # "record"
    <3>1. stored = Leaf("nothing")
      BY <1>2, <2>2
    <3> QED  BY <1>5, <1>11, <3>1 DEF Kept
  <2> QED  BY <2>1, <2>2
<1>12. ASSUME Hidden(rules, <<>>) PROVE Shown(stored.kind) \in {"mark", "nothing"}
  <2>1. CASE f.kind = "record"
    <3>1. again.kind # "getter"
      BY DEF again, Record
    <3>2. redact(rules, again).kind = "redacted"
      BY <1>1, <1>9, <1>12, <2>1, <3>1, RootHidden
    <3>3. stored = Omitted
      BY <1>2, <2>1, <3>2 DEF redactField, again
    <3> QED  BY <3>3 DEF Omitted, Leaf, Shown
  <2>2. CASE f.kind # "record"
    BY <1>2, <1>4, <2>2 DEF Shown
  <2> QED  BY <2>1, <2>2
<1> QED  BY <1>7, <1>11, <1>12 DEF SecretsStay, Kept, Stays, guard, rules, wire, stored

\* A value the rules of an end call secret is not on that side of the wire.
THEOREM SecretsStayHolds == Spec => []SecretsStay
<1>1. ReadInv => SecretsStay
  <2> SUFFICES ASSUME ReadInv, Answered("inspect") PROVE SecretsStay
    BY DEF SecretsStay
  <2> QED  BY InspectKeeps DEF ReadInv, Answered
<1> QED  BY <1>1, AnswersOnly, PTL

-----------------------------------------------------------------------------
(* What fits is lost by neither end: a visit spends at most a unit for each *)
(* path below it.                                                           *)

\* What Expected looks at below a node, level by level: nothing inside a secret.
Open(rules, node) == IF Hidden(rules, node[1]) THEN {} ELSE Children(node)
Levels(rules, root) ==
  LET level[n \in 0 .. MaxDepth + 1] ==
        IF n = 0 THEN {<<<<>>, root>>} ELSE UNION {Open(rules, node) : node \in level[n - 1]}
  IN  level
Seen(rules, root) == UNION {Levels(rules, root)[n] : n \in 0 .. MaxDepth + 1}
Mark(rules, node) ==
  LET kind == Parsed(node[2], node[1]).kind
  IN  IF Hidden(rules, node[1]) \/ kind \in {"getter", "unsafe"} THEN "mark" ELSE Shown(kind)

\* Expected is what is seen with its marks.
LEMMA ExpectedIs ==
  ASSUME NEW rules, IsRules(rules), NEW root
  PROVE  Expected(rules, root) = {<<node[1], Mark(rules, node)>> : node \in Seen(rules, root)}
BY DEF Expected, Seen, Levels, Open, Mark

\* The levels of what is seen are defined.
LEMMA LevelsRun ==
  ASSUME NEW rules, IsRules(rules), NEW root
  PROVE  /\ Levels(rules, root)[0] = {<<<<>>, root>>}
         /\ \A n \in 1 .. MaxDepth + 1 :
              Levels(rules, root)[n] = UNION {Open(rules, node) : node \in Levels(rules, root)[n - 1]}
<1> DEFINE m == MaxDepth + 1
           E(g, n) == IF n = 0 THEN {<<<<>>, root>>} ELSE UNION {Open(rules, node) : node \in g[n - 1]}
           Solves(g, k) == g = [n \in 0 .. k |-> E(g, n)]
           X == {k \in Nat : \E g : Solves(g, k)}
           level == CHOOSE g : Solves(g, m)
<1>0. m \in Nat
  BY PolicyAssumption
<1>1. 0 \in X
  <2>1. Solves([n \in 0 .. 0 |-> {<<<<>>, root>>}], 0)
    OBVIOUS
  <2> HIDE DEF Solves
  <2> QED  BY <2>1
<1>2. ASSUME NEW k \in Nat, k \in X PROVE k + 1 \in X
  <2>1. PICK g : Solves(g, k)
    <3> HIDE DEF Solves
    <3> QED  BY <1>2
  <2> DEFINE h == [n \in 0 .. k + 1 |-> E(g, n)]
  <2>2. \A n \in 0 .. k : g[n] = E(g, n)
    <3> HIDE DEF E
    <3> QED  BY <2>1
  <2>3. \A n \in 0 .. k : h[n] = g[n]
    <3> HIDE DEF E
    <3>1. \A n \in 0 .. k : n \in 0 .. k + 1
      OBVIOUS
    <3> QED  BY <2>2, <3>1
  <2>4. ASSUME NEW n \in 0 .. k + 1 PROVE E(h, n) = E(g, n)
    <3>1. n # 0 => n - 1 \in 0 .. k
      OBVIOUS
    <3> HIDE DEF h
    <3> QED  BY <2>3, <3>1
  <2>5. Solves(h, k + 1)
    <3> HIDE DEF E
    <3> QED  BY <2>4
  <2> HIDE DEF h, Solves
  <2> QED  BY <2>5
<1>3. m \in X
  <2> HIDE DEF X
  <2> QED  BY <1>0, <1>1, <1>2, Inductive
<1>4. Solves(level, m)
  <2> HIDE DEF Solves, m
  <2> QED  BY <1>3
<1>5. Levels(rules, root) = level
  BY DEF Levels
<1> HIDE DEF level
<1>6. \A n \in 0 .. m : level[n] = E(level, n)
  <2> HIDE DEF E, m
  <2> QED  BY <1>4
<1>7. level[0] = {<<<<>>, root>>}
  <2>1. 0 \in 0 .. m
    BY <1>0
  <2>2. E(level, 0) = {<<<<>>, root>>}
    OBVIOUS
  <2> HIDE DEF E, m
  <2> QED  BY <1>6, <2>1, <2>2
<1>8. \A n \in 1 .. m : level[n] = UNION {Open(rules, node) : node \in level[n - 1]}
  <2> TAKE n \in 1 .. m
  <2>1. n \in 0 .. m /\ n # 0
    BY <1>0
  <2> HIDE DEF m
  <2> QED  BY <1>6, <2>1
<1> QED  BY <1>5, <1>7, <1>8

\* What is seen is reached, each node as deep as its level, and finitely many.
LEMMA SeenLevels ==
  ASSUME NEW rules, IsRules(rules), NEW root, Values(root)
  PROVE  \A n \in 0 .. MaxDepth + 1 :
           /\ \A node \in Levels(rules, root)[n] : node \in Reached(root) /\ Len(node[1]) = n
           /\ IsFiniteSet(Levels(rules, root)[n])
<1> DEFINE m == MaxDepth + 1
           level == Levels(rules, root)
           Good(n) == /\ \A node \in level[n] : node \in Reached(root) /\ Len(node[1]) = n
                      /\ IsFiniteSet(level[n])
           X == {n \in Nat : n <= m => Good(n)}
<1>0. m \in Nat /\ MaxDepth \in Nat
  BY PolicyAssumption
<1>1. /\ level[0] = {<<<<>>, root>>}
      /\ \A n \in 1 .. m : level[n] = UNION {Open(rules, node) : node \in level[n - 1]}
  BY LevelsRun
<1> HIDE DEF level
<1>2. 0 \in X
  <2>1. <<<<>>, root>> \in Reached(root)
    BY ReachesParts
  <2>2. IsFiniteSet(level[0])
    BY <1>1, FS_Singleton
  <2>3. Good(0)
    BY <1>1, <2>1, <2>2
  <2> HIDE DEF Good
  <2> QED  BY <2>3
<1>3. ASSUME NEW n \in Nat, n \in X PROVE n + 1 \in X
  <2> SUFFICES ASSUME n + 1 <= m PROVE Good(n + 1)
    OBVIOUS
  <2>1. n + 1 \in 1 .. m /\ (n + 1) - 1 = n /\ n <= m /\ n <= MaxDepth
    BY <1>0
  <2>2. Good(n)
    <3> HIDE DEF Good
    <3> QED  BY <1>3, <2>1
  <2>3. level[n + 1] = UNION {Open(rules, node) : node \in level[n]}
    BY <1>1, <2>1
  <2>4. ASSUME NEW p \in level[n]
        PROVE  /\ \A node \in Open(rules, p) : node \in Reached(root) /\ Len(node[1]) = n + 1
               /\ IsFiniteSet(Open(rules, p))
    <3> DEFINE value == Parsed(p[2], p[1])
    <3>1. p \in Reached(root) /\ Len(p[1]) = n /\ p[1] \in Seq(Key) /\ Children(p) \subseteq Reached(root)
      BY <2>1, <2>2, ReachesParts
    <3>2. value.keys \in Seq(Key)
      BY <3>1 DEF Values, IsValue
    <3>3. Children(p) = {<<Append(p[1], value.keys[i]), value.parts[i]>> : i \in DOMAIN value.keys}
      BY DEF Children
    <3> HIDE DEF value
    <3>4. ASSUME NEW i \in DOMAIN value.keys PROVE Len(Append(p[1], value.keys[i])) = n + 1
      <4>1. value.keys[i] \in Key
        BY <3>2
      <4> QED  BY <3>1, <4>1
    <3>5. IsFiniteSet(Children(p))
      <4> DEFINE S == 1 .. Len(value.keys)
                 child(i) == <<Append(p[1], value.keys[i]), value.parts[i]>>
                 f == [i \in S |-> child(i)]
      <4>1. IsFiniteSet(S) /\ DOMAIN value.keys = S
        <5>1. Len(value.keys) \in Nat /\ DOMAIN value.keys = S
          BY <3>2
        <5>2. \A k \in Nat : IsFiniteSet(1 .. k)
          BY FS_Interval
        <5> QED  BY <5>1, <5>2
      <4>2. f \in Surjection(S, Children(p))
        <5>1. Children(p) = {child(i) : i \in S}
          BY <3>3, <4>1
        <5> HIDE DEF child, S
        <5> QED  BY <5>1 DEF Surjection
      <4> HIDE DEF f, S
      <4> QED  BY <4>1, <4>2, FS_Surjection
    <3>6. Open(rules, p) = {} \/ Open(rules, p) = Children(p)
      BY DEF Open
    <3>7. \A node \in Children(p) : node \in Reached(root) /\ Len(node[1]) = n + 1
      BY <3>1, <3>3, <3>4
    <3> QED  BY <3>5, <3>6, <3>7, FS_EmptySet
  <2>5. IsFiniteSet(level[n + 1])
    <3> DEFINE S == {Open(rules, node) : node \in level[n]}
               f == [node \in level[n] |-> Open(rules, node)]
    <3>1. f \in Surjection(level[n], S)
      BY DEF Surjection
    <3>2. \A T \in S : IsFiniteSet(T)
      BY <2>4
    <3> HIDE DEF f, S
    <3>3. IsFiniteSet(S)
      BY <2>2, <3>1, FS_Surjection
    <3>4. IsFiniteSet(UNION S)
      BY <3>2, <3>3, FS_UNION
    <3> QED  BY <2>3, <3>4 DEF S
  <2> QED  BY <2>3, <2>4, <2>5
<1>4. \A n \in Nat : n \in X
  <2> HIDE DEF X
  <2> QED  BY <1>2, <1>3, Inductive
<1>5. ASSUME NEW n \in 0 .. m
      PROVE  /\ \A node \in level[n] : node \in Reached(root) /\ Len(node[1]) = n
             /\ IsFiniteSet(level[n])
  <2>1. n \in Nat /\ n <= m
    BY <1>0
  <2>2. Good(n)
    <3>1. n \in X
      <4> HIDE DEF X
      <4> QED  BY <1>4, <2>1
    <3> HIDE DEF Good
    <3> QED  BY <2>1, <3>1
  <2> QED  BY <2>2
<1> QED  BY <1>5 DEF level

\* The paths of what is seen, finitely many: the values a visit can pay for.
Paths(rules, root) == {node[1] : node \in Seen(rules, root)}

\* What is seen is reached, with what is inside it, and is finite.
LEMMA SeenNodes ==
  ASSUME NEW rules, IsRules(rules), NEW root, Values(root)
  PROVE  /\ IsFiniteSet(Seen(rules, root)) /\ IsFiniteSet(Paths(rules, root))
         /\ <<<<>>, root>> \in Seen(rules, root)
         /\ \A node \in Seen(rules, root) :
              /\ node \in Reached(root)
              /\ Len(node[1]) <= MaxDepth => Open(rules, node) \subseteq Seen(rules, root)
<1> DEFINE m == MaxDepth + 1
           level == Levels(rules, root)
<1>0. m \in Nat /\ MaxDepth \in Nat
  BY PolicyAssumption
<1>1. /\ level[0] = {<<<<>>, root>>}
      /\ \A n \in 1 .. m : level[n] = UNION {Open(rules, node) : node \in level[n - 1]}
  BY LevelsRun
<1>2. \A n \in 0 .. m : /\ \A node \in level[n] : node \in Reached(root) /\ Len(node[1]) = n
                        /\ IsFiniteSet(level[n])
  BY SeenLevels
<1>3. Seen(rules, root) = UNION {level[n] : n \in 0 .. m}
  BY DEF Seen
<1> HIDE DEF level
<1>4. IsFiniteSet(Seen(rules, root))
  <2> DEFINE S == {level[n] : n \in 0 .. m}
             f == [n \in 0 .. m |-> level[n]]
  <2>1. f \in Surjection(0 .. m, S)
    BY DEF Surjection
  <2>2. IsFiniteSet(0 .. m)
    <3> HIDE DEF m
    <3> QED  BY <1>0, FS_Interval
  <2>3. \A T \in S : IsFiniteSet(T)
    BY <1>2
  <2> HIDE DEF f, m
  <2>4. Seen(rules, root) = UNION S
    BY <1>3
  <2> HIDE DEF S
  <2>5. IsFiniteSet(S)
    BY <2>1, <2>2, FS_Surjection
  <2> QED  BY <2>3, <2>4, <2>5, FS_UNION
<1>a. IsFiniteSet(Paths(rules, root))
  <2>1. [node \in Seen(rules, root) |-> node[1]] \in Surjection(Seen(rules, root), Paths(rules, root))
    BY DEF Surjection, Paths
  <2> QED  BY <1>4, <2>1, FS_Surjection
<1>5. <<<<>>, root>> \in Seen(rules, root)
  BY <1>0, <1>1, <1>3
<1>6. ASSUME NEW node \in Seen(rules, root)
      PROVE  /\ node \in Reached(root)
             /\ Len(node[1]) <= MaxDepth => Open(rules, node) \subseteq Seen(rules, root)
  <2>1. PICK n \in 0 .. m : node \in level[n]
    BY <1>3
  <2>2. node \in Reached(root) /\ Len(node[1]) = n
    BY <1>2, <2>1
  <2>3. ASSUME Len(node[1]) <= MaxDepth PROVE Open(rules, node) \subseteq Seen(rules, root)
    <3>1. n + 1 \in 1 .. m /\ (n + 1) - 1 = n /\ n + 1 \in 0 .. m
      BY <1>0, <2>2, <2>3
    <3>2. level[n + 1] = UNION {Open(rules, p) : p \in level[n]}
      BY <1>1, <3>1
    <3>3. level[n + 1] \subseteq Seen(rules, root)
      <4> HIDE DEF m
      <4> QED  BY <1>3, <3>1
    <3> HIDE DEF m
    <3> QED  BY <2>1, <3>2, <3>3
  <2> QED  BY <2>2, <2>3
<1> QED  BY <1>4, <1>a, <1>5, <1>6

\* q is p or goes on from it, and the paths that do.
Extends(q, p) == Len(p) <= Len(q) /\ \A k \in 1 .. Len(p) : q[k] = p[k]
Below(rules, root, p) == {q \in Paths(rules, root) : Extends(q, p)}

\* The paths under the first n parts of node.
PartPath(node, i) == Append(node[1], Parsed(node[2], node[1]).keys[i])
BelowParts(rules, root, node, n) ==
  {q \in Paths(rules, root) : \E i \in 1 .. n : Extends(q, PartPath(node, i))}

\* So are the paths below any, of which a node's own is one.
LEMMA BelowIsFinite ==
  ASSUME NEW rules, IsRules(rules), NEW root, Values(root)
  PROVE  /\ \A p : IsFiniteSet(Below(rules, root, p)) /\ Cardinality(Below(rules, root, p)) \in Nat
         /\ \A node, n : /\ IsFiniteSet(BelowParts(rules, root, node, n))
                         /\ Cardinality(BelowParts(rules, root, node, n)) \in Nat
         /\ \A node \in Seen(rules, root) :
              node[1] \in Below(rules, root, node[1]) /\ Cardinality(Below(rules, root, node[1])) >= 1
<1>1. IsFiniteSet(Paths(rules, root))
  BY SeenNodes
<1>2. \A S : S \subseteq Paths(rules, root) => IsFiniteSet(S) /\ Cardinality(S) \in Nat
  BY <1>1, FS_Subset, FS_CardinalityType
<1>3. \A p : Below(rules, root, p) \subseteq Paths(rules, root)
  BY DEF Below
<1>4. \A node, n : BelowParts(rules, root, node, n) \subseteq Paths(rules, root)
  BY DEF BelowParts
<1>5. ASSUME NEW node \in Seen(rules, root)
      PROVE  node[1] \in Below(rules, root, node[1]) /\ Cardinality(Below(rules, root, node[1])) >= 1
  <2>1. node[1] \in Paths(rules, root)
    BY DEF Paths
  <2>2. node[1] \in Seq(Key)
    BY SeenNodes, ReachesParts
  <2>3. node[1] \in Below(rules, root, node[1])
    BY <2>1, <2>2 DEF Below, Extends
  <2>4. Cardinality(Below(rules, root, node[1])) # 0
    BY <1>2, <1>3, <2>3, FS_EmptySet
  <2>5. Cardinality(Below(rules, root, node[1])) \in Nat
    BY <1>2, <1>3
  <2> QED  BY <2>3, <2>4, <2>5
<1> QED  BY <1>2, <1>3, <1>4, <1>5

\* The parts of a node that is open share what is under it among them.
LEMMA Shares ==
  ASSUME NEW rules, IsRules(rules), NEW root, Values(root),
         NEW node \in Seen(rules, root), ~Hidden(rules, node[1]), Len(node[1]) <= MaxDepth
  PROVE  LET u(n) == Cardinality(BelowParts(rules, root, node, n))
             m == Len(Parsed(node[2], node[1]).keys)
         IN  /\ u(0) = 0
             /\ \A n \in 1 .. m : u(n) = u(n - 1) + Cardinality(Below(rules, root, PartPath(node, n)))
             /\ \A n \in 0 .. m : n <= u(n) /\ u(n) < Cardinality(Below(rules, root, node[1]))
<1> DEFINE path == node[1]
           value == Parsed(node[2], path)
           m == Len(value.keys)
           U(n) == BelowParts(rules, root, node, n)
           u(n) == Cardinality(U(n))
           part(n) == Below(rules, root, PartPath(node, n))
<1>1. node \in Reached(root) /\ path \in Seq(Key) /\ Open(rules, node) \subseteq Seen(rules, root)
  BY SeenNodes, ReachesParts
<1>2. /\ value.keys \in Seq(Key) /\ m \in Nat /\ DOMAIN value.keys = 1 .. m
      /\ \A i, j \in DOMAIN value.keys : value.keys[i] = value.keys[j] => i = j
  <2>1. IsValue(value)
    BY <1>1 DEF Values
  <2> HIDE DEF value
  <2> QED  BY <2>1 DEF IsValue
<1>3. \A n \in 1 .. m : /\ PartPath(node, n) = Append(path, value.keys[n])
                        /\ value.keys[n] \in Key
  BY <1>2 DEF PartPath
<1> HIDE DEF value
<1>4. ASSUME NEW n \in 1 .. m
      PROVE  /\ PartPath(node, n) \in Seq(Key) /\ Len(PartPath(node, n)) = Len(path) + 1
             /\ \A k \in 1 .. Len(path) : PartPath(node, n)[k] = path[k]
             /\ PartPath(node, n)[Len(path) + 1] = value.keys[n]
             /\ PartPath(node, n) \in Paths(rules, root)
  <2>1. PartPath(node, n) = Append(path, value.keys[n]) /\ value.keys[n] \in Key
    BY <1>3
  <2>2. <<PartPath(node, n), value.parts[n]>> \in Open(rules, node)
    BY <1>2, <2>1 DEF Open, Children, value
  <2>3. PartPath(node, n) \in Paths(rules, root)
    <3>1. <<PartPath(node, n), value.parts[n]>>[1] = PartPath(node, n)
      OBVIOUS
    <3> QED  BY <1>1, <2>2, <3>1 DEF Paths
  <2> QED  BY <1>1, <2>1, <2>3
<1>5. \A p \in Paths(rules, root) : p \in Seq(Key)
  BY SeenNodes, ReachesParts DEF Paths
<1>6. \A n : IsFiniteSet(U(n)) /\ u(n) \in Nat /\ IsFiniteSet(part(n)) /\ Cardinality(part(n)) \in Nat
  BY BelowIsFinite
<1>7. u(0) = 0
  <2>1. U(0) = {}
    BY DEF BelowParts
  <2> QED  BY <2>1, FS_EmptySet
<1>8. ASSUME NEW n \in 1 .. m
      PROVE  u(n) = u(n - 1) + Cardinality(part(n)) /\ Cardinality(part(n)) >= 1
  <2>1. U(n) = U(n - 1) \cup part(n)
    BY <1>2 DEF BelowParts, Below
  <2>2. U(n - 1) \cap part(n) = {}
    <3> SUFFICES ASSUME NEW q \in U(n - 1), q \in part(n) PROVE FALSE
      OBVIOUS
    <3>1. PICK i \in 1 .. (n - 1) : Extends(q, PartPath(node, i))
      BY DEF BelowParts
    <3>2. Extends(q, PartPath(node, n))
      BY DEF Below
    <3>3. i \in 1 .. m /\ i # n
      BY <1>2
    <3>4. Len(path) + 1 \in 1 .. (Len(path) + 1)
      BY <1>1
    <3>5. q[Len(path) + 1] = value.keys[i] /\ q[Len(path) + 1] = value.keys[n]
      BY <1>4, <3>1, <3>2, <3>3, <3>4 DEF Extends
    <3> QED  BY <1>2, <3>3, <3>5
  <2>3. Cardinality(part(n)) # 0
    <3>1. PartPath(node, n) \in part(n)
      BY <1>4 DEF Below, Extends
    <3> QED  BY <1>6, <3>1, FS_EmptySet
  <2>4. Cardinality(U(n - 1) \cup part(n)) = u(n - 1) + Cardinality(part(n)) - Cardinality({})
    <3> HIDE DEF U, part
    <3> QED  BY <1>6, <2>2, FS_Union
  <2>5. u(n - 1) \in Nat /\ Cardinality(part(n)) \in Nat
    BY <1>6
  <2> HIDE DEF U, part
  <2> QED  BY <2>1, <2>3, <2>4, <2>5, FS_EmptySet
<1>9. ASSUME NEW n \in 0 .. m PROVE u(n) < Cardinality(Below(rules, root, path))
  <2>1. /\ path \in Below(rules, root, path)
        /\ IsFiniteSet(Below(rules, root, path))
        /\ Cardinality(Below(rules, root, path)) \in Nat
    BY BelowIsFinite
  <2>2. U(n) \subseteq Below(rules, root, path)
    <3> SUFFICES ASSUME NEW q \in U(n) PROVE Extends(q, path)
      BY DEF BelowParts, Below
    <3>1. PICK i \in 1 .. n : Extends(q, PartPath(node, i))
      BY DEF BelowParts
    <3>2. i \in 1 .. m /\ q \in Seq(Key)
      BY <1>2, <1>5 DEF BelowParts
    <3> QED  BY <1>1, <1>4, <3>1, <3>2 DEF Extends
  <2>3. path \notin U(n)
    <3> SUFFICES ASSUME NEW i \in 1 .. n, Extends(path, PartPath(node, i)) PROVE FALSE
      BY DEF BelowParts
    <3>1. i \in 1 .. m
      BY <1>2
    <3> QED  BY <1>1, <1>4, <3>1 DEF Extends
  <2>4. Cardinality(U(n) \cup {path}) = u(n) + 1
    BY <1>6, <2>3, FS_AddElement
  <2>5. Cardinality(U(n) \cup {path}) <= Cardinality(Below(rules, root, path))
    BY <2>1, <2>2, FS_Subset
  <2>6. u(n) \in Nat
    BY <1>6
  <2> HIDE DEF U
  <2> QED  BY <2>1, <2>4, <2>5, <2>6
<1> DEFINE V == {n \in Nat : n <= m => n <= u(n)}
<1>10. \A n \in Nat : n \in V
  <2>1. 0 \in V
    BY <1>7
  <2>2. ASSUME NEW n \in Nat, n \in V PROVE n + 1 \in V
    <3> SUFFICES ASSUME n + 1 <= m PROVE n + 1 <= u(n + 1)
      OBVIOUS
    <3>1. n <= m /\ n + 1 \in 1 .. m /\ (n + 1) - 1 = n
      BY <1>2
    <3> HIDE DEF u, part, m
    <3>2. n <= u(n)
      BY <2>2, <3>1
    <3>3. u(n + 1) = u(n) + Cardinality(part(n + 1)) /\ Cardinality(part(n + 1)) >= 1
      BY <1>8, <3>1
    <3>4. u(n) \in Nat /\ Cardinality(part(n + 1)) \in Nat
      BY <1>6
    <3> QED  BY <3>2, <3>3, <3>4
  <2> HIDE DEF V
  <2> QED  BY <2>1, <2>2, Inductive
<1>11. \A n \in 0 .. m : n <= u(n)
  <2> HIDE DEF u, m
  <2> QED  BY <1>2, <1>10
<1> QED  BY <1>7, <1>8, <1>9, <1>11 DEF value

\* Copying the parts costs at most a unit for each path under them, if visits do.
LEMMA CopySpends ==
  ASSUME NEW rules, IsRules(rules), NEW root, Values(root),
         NEW node \in Seen(rules, root), ~Hidden(rules, node[1]), Len(node[1]) <= MaxDepth,
         NEW visits, NEW remaining \in 0 .. Budget,
         PartsSpend(visits, node[1], Parsed(node[2], node[1])),
         \A i \in 1 .. Len(Parsed(node[2], node[1]).keys) : \A left \in 0 .. Budget :
           left - Cardinality(Below(rules, root, PartPath(node, i)))
             <= PartOf(visits, node[1], Parsed(node[2], node[1]), i, left)[2]
  PROVE  LET value == Parsed(node[2], node[1])
             c == Copied(visits, node[1], value, remaining)
         IN  /\ CopyRuns(c, visits, node[1], value, remaining)
             /\ \A n \in 0 .. Len(value.keys) :
                  remaining - Cardinality(BelowParts(rules, root, node, n)) <= c[n][2]
<1> DEFINE value == Parsed(node[2], node[1])
           m == Len(value.keys)
           c == Copied(visits, node[1], value, remaining)
           u(n) == Cardinality(BelowParts(rules, root, node, n))
           w(n) == Cardinality(Below(rules, root, PartPath(node, n)))
           X == {n \in Nat : n <= m => remaining - u(n) <= c[n][2]}
<1>0. value.keys \in Seq(Key) /\ m \in Nat
  <2>1. IsValue(value)
    BY SeenNodes DEF Values
  <2> HIDE DEF value
  <2> QED  BY <2>1 DEF IsValue
<1>1. CopyRuns(c, visits, node[1], value, remaining)
  BY <1>0, Copies
<1>2. u(0) = 0 /\ \A n \in 1 .. m : u(n) = u(n - 1) + w(n)
  BY Shares
<1>3. \A n : u(n) \in Nat /\ w(n) \in Nat
  BY BelowIsFinite
<1>4. \A i \in 1 .. m : \A left \in 0 .. Budget : left - w(i) <= PartOf(visits, node[1], value, i, left)[2]
  OBVIOUS
<1>5. remaining \in Nat /\ Budget \in Nat
  BY PolicyAssumption
<1> HIDE DEF value, c, u, w
<1>6. /\ c[0] = <<<<>>, remaining>>
      /\ \A n \in 1 .. m : c[n][2] = PartOf(visits, node[1], value, n, c[n - 1][2])[2]
      /\ \A n \in 0 .. m : c[n][2] \in 0 .. Budget
  BY <1>1 DEF CopyRuns
<1>7. \A n \in Nat : n \in X
  <2>1. 0 \in X
    BY <1>2, <1>5, <1>6
  <2>2. ASSUME NEW n \in Nat, n \in X PROVE n + 1 \in X
    <3> SUFFICES ASSUME n + 1 <= m PROVE remaining - u(n + 1) <= c[n + 1][2]
      OBVIOUS
    <3>1. n + 1 \in 1 .. m /\ (n + 1) - 1 = n /\ n \in 0 .. m /\ n + 1 \in 0 .. m
      BY <1>0
    <3> DEFINE left == c[n][2]
               after == c[n + 1][2]
    <3>2. remaining - u(n) <= left /\ left \in 0 .. Budget /\ after \in 0 .. Budget
      BY <1>6, <2>2, <3>1
    <3>3. after = PartOf(visits, node[1], value, n + 1, left)[2]
      BY <1>6, <3>1
    <3>4. left - w(n + 1) <= after
      BY <1>4, <3>1, <3>2, <3>3
    <3>5. u(n + 1) = u(n) + w(n + 1) /\ u(n) \in Nat /\ w(n + 1) \in Nat
      BY <1>2, <1>3, <3>1
    <3>6. left \in Nat /\ after \in Nat
      BY <1>5, <3>2
    <3> HIDE DEF left, after
    <3>7. remaining - u(n + 1) <= after
      BY <1>5, <3>2, <3>4, <3>5, <3>6
    <3> QED  BY <3>7 DEF after
  <2> HIDE DEF X
  <2> QED  BY <2>1, <2>2, Inductive
<1>8. \A n \in 0 .. m : remaining - u(n) <= c[n][2]
  <2> HIDE DEF m
  <2> QED  BY <1>0, <1>7
<1> QED  BY <1>1, <1>8 DEF value, c, u

\* A visit spends at most a unit for each path under what it visits.
LEMMA VisitAffords ==
  ASSUME NEW rules, IsRules(rules), NEW root, Values(root)
  PROVE  \A node \in Seen(rules, root) : \A remaining \in 0 .. Budget :
           remaining - Cardinality(Below(rules, root, node[1])) <= Visits(rules, root)[<<node, remaining>>][2]
<1> DEFINE visits == Visits(rules, root)
           w(path) == Cardinality(Below(rules, root, path))
           Pays(node) == \A remaining \in 0 .. Budget :
                           remaining - w(node[1]) <= visits[<<node, remaining>>][2]
           X == {k \in Nat : \A node \in Seen(rules, root) : Len(node[1]) + k > MaxDepth + 1 => Pays(node)}
<1>0. Budget \in Nat /\ MaxDepth \in Nat
  BY PolicyAssumption
<1>1. \A node \in Seen(rules, root) :
        /\ node \in Reached(root) /\ node[1] \in Seq(Key) /\ Len(node[1]) \in Nat
        /\ Len(node[1]) <= MaxDepth + 1
        /\ Len(node[1]) <= MaxDepth => Open(rules, node) \subseteq Seen(rules, root)
        /\ w(node[1]) \in Nat /\ w(node[1]) >= 1
  <2> TAKE node \in Seen(rules, root)
  <2>1. /\ node \in Reached(root)
        /\ Len(node[1]) <= MaxDepth => Open(rules, node) \subseteq Seen(rules, root)
    BY SeenNodes
  <2>2. node[1] \in Seq(Key) /\ Len(node[1]) <= MaxDepth + 1
    BY <2>1, ReachesParts
  <2>4. Len(node[1]) \in Nat
    BY <2>2
  <2>3. w(node[1]) \in Nat /\ w(node[1]) >= 1
    BY BelowIsFinite
  <2> HIDE DEF w
  <2> QED  BY <2>1, <2>2, <2>3, <2>4
<1>2. 0 \in X
  <2>1. \A node \in Seen(rules, root) : ~ (Len(node[1]) + 0 > MaxDepth + 1)
    BY <1>0, <1>1
  <2> HIDE DEF Pays
  <2> QED  BY <2>1
<1>3. ASSUME NEW k \in Nat, k \in X PROVE k + 1 \in X
  <2> SUFFICES ASSUME NEW node \in Seen(rules, root), Len(node[1]) + (k + 1) > MaxDepth + 1
               PROVE  Pays(node)
    <3>1. \A node \in Seen(rules, root) : Len(node[1]) + (k + 1) > MaxDepth + 1 => Pays(node)
      <4> HIDE DEF Pays
      <4> QED  OBVIOUS
    <3>2. k + 1 \in Nat
      OBVIOUS
    <3> HIDE DEF Pays
    <3> QED  BY <3>1, <3>2
  <2> SUFFICES ASSUME NEW remaining \in 0 .. Budget
               PROVE  remaining - w(node[1]) <= visits[<<node, remaining>>][2]
    OBVIOUS
  <2> DEFINE path == node[1]
             value == Parsed(node[2], path)
             m == Len(value.keys)
             copied == Copied(visits, path, value, remaining - 1)
             left == visits[<<node, remaining>>][2]
  <2>1. /\ visits[<<node, remaining>>] = visit(rules, visits, node[2], path, remaining)
        /\ left \in 0 .. remaining
        /\ Len(path) <= MaxDepth => PartsSpend(visits, path, value)
    BY <1>1, Visited
  <2>2. visits[<<node, remaining>>]
          = IF Secret(rules, path) THEN <<Redacted, remaining>>
            ELSE IF remaining = 0 THEN <<Omitted, 0>>
            ELSE IF Unfit(value, path, remaining - 1) THEN <<Omitted, remaining - 1>>
            ELSE IF value.kind \in Containers
            THEN <<[value EXCEPT !.parts = copied[m][1]], copied[m][2]>>
            ELSE <<value, remaining - 1>>
    BY <2>1 DEF visit
  <2>3. w(path) \in Nat /\ w(path) >= 1 /\ remaining \in Nat /\ remaining <= Budget
    BY <1>0, <1>1
  <2>4. ASSUME ~ Secret(rules, path), remaining # 0, ~ Unfit(value, path, remaining - 1)
        PROVE  remaining - w(path) <= copied[m][2]
    <3>1. Len(path) <= MaxDepth /\ remaining - 1 \in 0 .. Budget
      BY <1>0, <1>1, <2>3, <2>4 DEF Unfit
    <3>2. ~ Hidden(rules, path)
      BY <1>1, <2>4, HiddenIsSecret
    <3>3. ASSUME NEW i \in 1 .. m, NEW rest \in 0 .. Budget
          PROVE  rest - w(PartPath(node, i)) <= PartOf(visits, path, value, i, rest)[2]
      <4> DEFINE child == <<PartPath(node, i), value.parts[i]>>
      <4>1. IsValue(value)
        BY <1>1 DEF Values
      <4>2. value.keys[i] \in Key /\ i \in DOMAIN value.keys
        <5> HIDE DEF value
        <5> QED  BY <4>1 DEF IsValue
      <4>3. child \in Seen(rules, root)
        <5>1. child \in Children(node)
          BY <4>2 DEF Children, PartPath
        <5> HIDE DEF child
        <5> QED  BY <1>1, <3>1, <3>2, <5>1 DEF Open
      <4>4. child[1] = PartPath(node, i) /\ Len(PartPath(node, i)) = Len(path) + 1
        <5>1. PartPath(node, i) = Append(path, value.keys[i])
          BY DEF PartPath
        <5> HIDE DEF value
        <5> QED  BY <1>1, <4>2, <5>1
      <4>5. w(child[1]) \in Nat /\ rest \in Nat
        <5> HIDE DEF child, w
        <5> QED  BY <1>0, <1>1, <4>3
      <4> HIDE DEF child
      <4>6. Pays(child)
        <5>1. Len(child[1]) + k > MaxDepth + 1
          <6>1. \A l \in Nat : l + (k + 1) > MaxDepth + 1 => (l + 1) + k > MaxDepth + 1
            BY <1>0
          <6> HIDE DEF Pays
          <6> QED  BY <1>1, <4>4, <6>1
        <5> HIDE DEF Pays
        <5> QED  BY <1>3, <4>3, <5>1
      <4>7. rest - w(child[1]) <= visits[<<child, rest>>][2]
        BY <4>6
      <4> HIDE DEF visits, w, value
      <4>8. CASE value.parts[i].kind = "getter"
        <5>1. PartOf(visits, path, value, i, rest)[2] = rest
          BY <4>8 DEF PartOf
        <5> QED  BY <4>4, <4>5, <5>1
      <4>9. CASE value.parts[i].kind # "getter"
        <5>1. PartOf(visits, path, value, i, rest) = visits[<<child, rest>>]
          BY <4>9 DEF PartOf, child, PartPath, value
        <5> QED  BY <4>4, <4>7, <5>1
      <4> QED  BY <4>8, <4>9
    <3>4. \A n \in 0 .. m : (remaining - 1) - Cardinality(BelowParts(rules, root, node, n)) <= copied[n][2]
      <4> HIDE DEF visits
      <4> QED  BY <2>1, <3>1, <3>2, <3>3, CopySpends
    <3>5. m \in 0 .. m
      <4>1. IsValue(value)
        BY <1>1 DEF Values
      <4> HIDE DEF value
      <4> QED  BY <4>1 DEF IsValue
    <3>6. /\ Cardinality(BelowParts(rules, root, node, m)) < w(path)
          /\ Cardinality(BelowParts(rules, root, node, m)) \in Nat
      BY <3>1, <3>2, <3>5, Shares, BelowIsFinite
    <3>7. copied[m][2] \in Int
      <4>1. CopyRuns(copied, visits, path, value, remaining - 1)
        <5> HIDE DEF visits
        <5> QED  BY <2>1, <3>1, <3>2, <3>3, CopySpends
      <4> HIDE DEF copied, m
      <4>2. copied[m][2] \in 0 .. Budget
        BY <3>5, <4>1 DEF CopyRuns, m
      <4> QED  BY <1>0, <4>2
    <3>8. (remaining - 1) - Cardinality(BelowParts(rules, root, node, m)) <= copied[m][2]
      BY <3>4, <3>5
    <3> HIDE DEF copied, m, w
    <3> QED  BY <2>3, <3>6, <3>7, <3>8
  <2>5. left \in {remaining, remaining - 1} \/ (remaining = 0 /\ left = 0)
        \/ (/\ ~ Secret(rules, path) /\ remaining # 0 /\ ~ Unfit(value, path, remaining - 1)
            /\ left = copied[m][2])
    <3> HIDE DEF visits, copied, m, value
    <3> QED  BY <2>2
  <2> HIDE DEF left, w, copied, m, value
  <2> QED  BY <2>3, <2>4, <2>5 DEF left
<1> DEFINE K == MaxDepth + 2
<1>4. K \in X
  <2>1. K \in Nat
    BY <1>0
  <2> HIDE DEF X, K
  <2> QED  BY <1>2, <1>3, <2>1, Inductive
<1>5. ASSUME NEW node \in Seen(rules, root) PROVE Pays(node)
  <2>1. Len(node[1]) + K > MaxDepth + 1
    <3>1. \A l \in Nat : l + (MaxDepth + 2) > MaxDepth + 1
      BY <1>0
    <3> HIDE DEF Pays
    <3> QED  BY <1>1, <3>1
  <2> HIDE DEF Pays, K
  <2> QED  BY <1>4, <2>1
<1> QED  BY <1>5

\* Every path the policy redacts is one the property calls hidden.
LEMMA SecretIsHidden ==
  ASSUME NEW rules, IsRules(rules), NEW path \in Seq(Key), Secret(rules, path)
  PROVE  Hidden(rules, path)
<1>0. \A rule \in rules.paths : Suffix(rule, path) => path # <<>>
  <2> SUFFICES ASSUME NEW rule \in rules.paths, Len(rule) <= Len(path) PROVE path # <<>>
    BY DEF Suffix
  <2>1. rule \in Seq(Key \cup {"*"}) /\ rule # <<>>
    BY DEF IsRules
  <2> QED  BY <2>1
<1>a. CASE path = <<>>
  BY <1>0, <1>a DEF Secret, LastKey, Hidden
<1> SUFFICES ASSUME path # <<>> PROVE Hidden(rules, path)
  BY <1>a
<1>1. Len(path) \in Nat /\ Len(path) \in DOMAIN path
  OBVIOUS
<1>2. CASE normalizeKey[LastKey(path)] \in rules.keys
  <2> DEFINE end == SubSeq(path, Len(path), Len(path))
  <2>1. Len(end) = 1 /\ end[1] = path[Len(path)]
    BY <1>1, SubSeqProperties
  <2>2. Len(end) = 1 /\ normalizeKey[end[1]] \in rules.keys
    BY <1>2, <2>1 DEF LastKey, Last
  <2> QED  BY <1>1, <2>2 DEF Hidden
<1>3. ASSUME NEW rule \in rules.paths, Suffix(rule, path)
      PROVE  Hidden(rules, path)
  <2> DEFINE n == Len(rule)
             k == Len(path) - n + 1
             end == SubSeq(path, k, Len(path))
  <2>1. rule \in Seq(Key \cup {"*"}) /\ rule # <<>>
    BY DEF IsRules
  <2>2. n \in Nat \ {0} /\ n <= Len(path)
    BY <1>3, <2>1 DEF Suffix
  <2>3. k \in DOMAIN path /\ k \in 1 .. Len(path) + 1
    BY <1>1, <2>2
  <2>4. Len(end) = n /\ end \in Seq(Key) /\ \A i \in 1 .. n : end[i] = path[Len(path) - n + i]
    <3>1. end \in Seq(Key) /\ Len(end) = Len(path) - k + 1 /\ \A i \in 1 .. (Len(path) - k + 1) : end[i] = path[k + i - 1]
      BY <1>1, <2>3, SubSeqProperties
    <3>2. Len(path) - k + 1 = n
      BY <1>1, <2>2
    <3>3. \A i \in 1 .. n : k + i - 1 = Len(path) - n + i
      BY <1>1, <2>2
    <3> HIDE DEF end, k, n
    <3> QED  BY <3>1, <3>2, <3>3
  <2>5. DOMAIN end = 1 .. n /\ DOMAIN rule = 1 .. n
    <3>1. DOMAIN rule = 1 .. n
      BY <2>1
    <3> HIDE DEF end, n
    <3> QED  BY <2>4, <3>1
  <2>6. \A i \in DOMAIN end : rule[i] # "*" => rule[i] = end[i]
    <3> HIDE DEF end
    <3> QED  BY <1>3, <2>4, <2>5 DEF Suffix
  <2>7. Len(rule) = Len(end)
    <3> HIDE DEF end
    <3> QED  BY <2>4
  <2> HIDE DEF n
  <2>8. \E j \in DOMAIN path :
          LET e == SubSeq(path, j, Len(path))
          IN  Len(rule) = Len(e) /\ \A i \in DOMAIN e : rule[i] # "*" => rule[i] = e[i]
    BY <2>3, <2>6, <2>7
  <2> QED  BY <2>8 DEF Hidden
<1> QED  BY <1>2, <1>3 DEF Secret

\* v is what redaction makes of node with enough left for all that is below it.
Full(rules, root, node, v) ==
  IF node[2].kind = "getter" THEN v = Omitted
  ELSE \E remaining \in 0 .. Budget :
         /\ Cardinality(Below(rules, root, node[1])) <= remaining
         /\ v = Visits(rules, root)[<<node, remaining>>][1]

\* What a node shows then: what lies too deep is marked as well.
MarkIn(rules, node) == IF Len(node[1]) > MaxDepth THEN "mark" ELSE Mark(rules, node)

\* A node with enough left shows its mark, and has its parts with enough for each.
LEMMA FullIs ==
  ASSUME NEW rules, IsRules(rules), NEW root, Values(root), NEW node \in Seen(rules, root),
         NEW v, Full(rules, root, node, v)
  PROVE  LET value == Parsed(node[2], node[1])
             open == ~ Hidden(rules, node[1]) /\ Len(node[1]) <= MaxDepth
         IN  /\ Shown(v.kind) = MarkIn(rules, node)
             /\ ~ open => v.keys = <<>>
             /\ open => v.keys = value.keys
             /\ open => \A i \in 1 .. Len(value.keys) :
                          Full(rules, root, <<PartPath(node, i), value.parts[i]>>, v.parts[i])
<1> DEFINE path == node[1]
           value == Parsed(node[2], path)
           m == Len(value.keys)
           open == ~ Hidden(rules, path) /\ Len(path) <= MaxDepth
           w(p) == Cardinality(Below(rules, root, p))
           Good(r) == /\ Shown(r.kind) = MarkIn(rules, node)
                      /\ ~ open => r.keys = <<>>
                      /\ open => r.keys = value.keys
                      /\ open => \A i \in 1 .. m : Full(rules, root, <<PartPath(node, i), value.parts[i]>>, r.parts[i])
<1>0. Budget \in Nat /\ MaxDepth \in Nat
  BY PolicyAssumption
<1>1. node \in Reached(root) /\ path \in Seq(Key) /\ Len(path) \in Nat
  <2>1. node \in Reached(root)
    BY SeenNodes
  <2>2. path \in Seq(Key)
    BY <2>1, ReachesParts
  <2> QED  BY <2>1, <2>2
<1>2. IsValue(value)
  BY <1>1 DEF Values
<1> HIDE DEF value
<1>3. /\ value = [kind |-> value.kind, keys |-> value.keys, parts |-> value.parts]
      /\ m \in Nat /\ (value.kind \notin Containers => value.keys = <<>> /\ m = 0)
  BY <1>2 DEF IsValue
<1>4. Secret(rules, path) <=> Hidden(rules, path)
  BY <1>1, HiddenIsSecret, SecretIsHidden
<1>5. /\ Omitted.kind = "omitted" /\ Omitted.keys = <<>>
      /\ Redacted.kind = "redacted" /\ Redacted.keys = <<>>
      /\ Shown("omitted") = "mark" /\ Shown("redacted") = "mark"
  BY DEF Omitted, Redacted, Leaf, Shown
<1>6. w(path) \in Nat /\ w(path) >= 1
  BY BelowIsFinite
<1>7. ASSUME NEW r, r.keys = <<>>, Shown(r.kind) = MarkIn(rules, node), open => value.kind \notin Containers
      PROVE  Good(r)
  BY <1>3, <1>7
<1>8. CASE node[2].kind = "getter"
  <2>1. v = Omitted
    BY <1>8 DEF Full
  <2>2. value = node[2]
    BY <1>8 DEF value, Parsed, Texts
  <2>3. MarkIn(rules, node) = "mark" /\ value.kind \notin Containers
    BY <1>8, <2>2 DEF MarkIn, Mark, value, Containers
  <2> HIDE DEF Good
  <2> QED  BY <1>5, <1>7, <2>1, <2>3 DEF Good, value
<1>9. CASE node[2].kind # "getter"
  <2>1. PICK remaining \in 0 .. Budget :
          w(path) <= remaining /\ v = Visits(rules, root)[<<node, remaining>>][1]
    BY <1>9 DEF Full
  <2> DEFINE visits == Visits(rules, root)
             copied == Copied(visits, path, value, remaining - 1)
  <2>2. /\ remaining \in Nat /\ remaining # 0 /\ remaining - 1 \in 0 .. Budget
    BY <1>0, <1>6, <2>1
  <2>3. /\ visits[<<node, remaining>>] = visit(rules, visits, node[2], path, remaining)
        /\ Len(path) <= MaxDepth => PartsSpend(visits, path, value)
    BY <1>1, Visited DEF value
  <2>4. visits[<<node, remaining>>]
          = IF Secret(rules, path) THEN <<Redacted, remaining>>
            ELSE IF remaining = 0 THEN <<Omitted, 0>>
            ELSE IF Unfit(value, path, remaining - 1) THEN <<Omitted, remaining - 1>>
            ELSE IF value.kind \in Containers
            THEN <<[value EXCEPT !.parts = copied[m][1]], copied[m][2]>>
            ELSE <<value, remaining - 1>>
    BY <2>3 DEF visit, value
  <2>5. v = visits[<<node, remaining>>][1]
    BY <2>1
  <2> HIDE DEF visits, Good
  <2>6. CASE Secret(rules, path)
    <3>1. v = Redacted
      <4> HIDE DEF copied
      <4> QED  BY <2>4, <2>5, <2>6
    <3>2. MarkIn(rules, node) = "mark"
      BY <1>4, <2>6 DEF MarkIn, Mark
    <3> QED  BY <1>4, <1>5, <1>7, <2>6, <3>1, <3>2 DEF Good, value
  <2>7. CASE ~ Secret(rules, path) /\ Len(path) > MaxDepth
    <3>1. v = Omitted
      <4>1. Unfit(value, path, remaining - 1)
        BY <2>7 DEF Unfit
      <4> HIDE DEF copied
      <4> QED  BY <2>2, <2>4, <2>5, <2>7, <4>1
    <3>2. MarkIn(rules, node) = "mark" /\ ~ (Len(path) <= MaxDepth)
      BY <1>0, <1>1, <2>7 DEF MarkIn
    <3> QED  BY <1>5, <1>7, <3>1, <3>2 DEF Good, value
  <2>8. CASE ~ Secret(rules, path) /\ Len(path) <= MaxDepth
    <3>1. ~ Hidden(rules, path) /\ open /\ ~ (Len(path) > MaxDepth)
      BY <1>0, <1>1, <1>4, <2>8
    <3>2. MarkIn(rules, node) = IF value.kind \in {"getter", "unsafe"} THEN "mark" ELSE Shown(value.kind)
      BY <3>1 DEF MarkIn, Mark, value
    <3>3. CASE value.kind = "unsafe"
      <4>1. v = Omitted
        <5>1. Unfit(value, path, remaining - 1)
          BY <3>3 DEF Unfit
        <5> HIDE DEF copied
        <5> QED  BY <2>2, <2>4, <2>5, <2>8, <5>1
      <4> QED  BY <1>5, <1>7, <3>2, <3>3, <4>1 DEF Good, value, Containers
    <3>4. CASE value.kind # "unsafe" /\ value.kind \notin Containers
      <4>1. ~ Unfit(value, path, remaining - 1)
        BY <1>3, <2>2, <3>1, <3>4 DEF Unfit
      <4>2. v = value
        <5> HIDE DEF copied
        <5> QED  BY <2>2, <2>4, <2>5, <2>8, <3>4, <4>1
      <4>3. value.kind # "getter"
        <5>1. value = node[2] \/ value = Omitted \/ value.kind \in Containers
          BY DEF value, Parsed
        <5> QED  BY <1>5, <1>9, <3>4, <5>1
      <4> QED  BY <1>3, <1>7, <3>2, <3>4, <4>2, <4>3 DEF Good, value
    <3>5. CASE value.kind \in Containers
      <4> DEFINE u(n) == Cardinality(BelowParts(rules, root, node, n))
      <4>1. /\ \A n \in 1 .. m : u(n) = u(n - 1) + w(PartPath(node, n))
            /\ \A n \in 0 .. m : n <= u(n) /\ u(n) < w(path)
        BY <3>1, Shares DEF value
      <4>2. \A n : u(n) \in Nat /\ w(PartPath(node, n)) \in Nat
        BY BelowIsFinite
      <4> HIDE DEF u, w
      <4>3. ~ Unfit(value, path, remaining - 1)
        <5>1. m <= u(m) /\ u(m) < w(path)
          BY <1>3, <4>1
        <5>2. m <= remaining - 1
          BY <1>3, <1>6, <2>1, <2>2, <4>2, <5>1
        <5>3. ~ (m > remaining - 1)
          <6> HIDE DEF m
          <6> QED  BY <1>3, <2>2, <5>2
        <5>4. value.kind # "unsafe"
          BY <3>5 DEF Containers
        <5> QED  BY <3>1, <5>3, <5>4 DEF Unfit
      <4>4. v = [value EXCEPT !.parts = copied[m][1]]
        <5> HIDE DEF copied
        <5> QED  BY <2>2, <2>4, <2>5, <2>8, <3>5, <4>3
      <4>5. v.kind = value.kind /\ v.keys = value.keys /\ v.parts = copied[m][1]
        <5> HIDE DEF copied, m
        <5> QED  BY <1>3, <4>4
      <4>6. /\ CopyRuns(copied, visits, path, value, remaining - 1)
            /\ \A n \in 0 .. m : (remaining - 1) - u(n) <= copied[n][2]
        <5>1. \A i \in 1 .. m : \A left \in 0 .. Budget :
                left - w(PartPath(node, i)) <= PartOf(visits, path, value, i, left)[2]
          <6> SUFFICES ASSUME NEW i \in 1 .. m, NEW left \in 0 .. Budget
                       PROVE  left - w(PartPath(node, i)) <= PartOf(visits, path, value, i, left)[2]
            OBVIOUS
          <6> DEFINE child == <<PartPath(node, i), value.parts[i]>>
          <6>1. child \in Seen(rules, root)
            <7>1. i \in DOMAIN value.keys
              BY <1>2 DEF IsValue
            <7>2. child \in Children(node)
              BY <7>1 DEF Children, PartPath, value
            <7> HIDE DEF child
            <7> QED  BY <3>1, <7>2, SeenNodes DEF Open
          <6>2. child[1] = PartPath(node, i)
            OBVIOUS
          <6> HIDE DEF child
          <6>3. left - w(child[1]) <= visits[<<child, left>>][2]
            BY <6>1, VisitAffords DEF visits, w
          <6>4. CASE value.parts[i].kind = "getter"
            <7>1. PartOf(visits, path, value, i, left)[2] = left
              BY <6>4 DEF PartOf
            <7>2. left \in Nat /\ w(PartPath(node, i)) \in Nat
              BY <1>0, <4>2
            <7> QED  BY <7>1, <7>2
          <6>5. CASE value.parts[i].kind # "getter"
            <7>1. PartOf(visits, path, value, i, left) = visits[<<child, left>>]
              BY <6>5 DEF PartOf, child, PartPath, value
            <7> QED  BY <6>2, <6>3, <7>1
          <6> QED  BY <6>4, <6>5
        <5> QED  BY <2>2, <2>3, <3>1, <5>1, CopySpends DEF u, w, value
      <4>7. ASSUME NEW i \in 1 .. m
            PROVE  Full(rules, root, <<PartPath(node, i), value.parts[i]>>, v.parts[i])
        <5> DEFINE left == copied[i - 1][2]
                   child == <<PartPath(node, i), value.parts[i]>>
        <5>1. i - 1 \in 0 .. m /\ i \in 0 .. m /\ m \in 0 .. m
          BY <1>3
        <5>2. left \in 0 .. Budget
          BY <4>6, <5>1 DEF CopyRuns
        <5>3. v.parts[i] = PartOf(visits, path, value, i, left)[1]
          BY <4>5, <4>6, <5>1 DEF CopyRuns
        <5>4. w(PartPath(node, i)) <= left
          <6>1. (remaining - 1) - u(i - 1) <= left
            BY <4>6, <5>1
          <6>2. u(i) = u(i - 1) + w(PartPath(node, i)) /\ u(i) < w(path)
            BY <4>1, <5>1
          <6>3. u(i) \in Nat /\ u(i - 1) \in Nat /\ w(PartPath(node, i)) \in Nat
            BY <4>2
          <6>4. left \in Nat
            BY <1>0, <5>2
          <6> HIDE DEF left, m
          <6> QED  BY <1>6, <2>1, <2>2, <6>1, <6>2, <6>3, <6>4
        <5>5. child[1] = PartPath(node, i) /\ child[2] = value.parts[i]
          OBVIOUS
        <5> HIDE DEF left
        <5>6. CASE value.parts[i].kind = "getter"
          <6>1. PartOf(visits, path, value, i, left)[1] = Omitted
            BY <5>6 DEF PartOf
          <6> HIDE DEF child
          <6> QED  BY <5>3, <5>5, <5>6, <6>1 DEF Full, child
        <5>7. CASE value.parts[i].kind # "getter"
          <6>1. PartOf(visits, path, value, i, left) = Visits(rules, root)[<<child, left>>]
            BY <5>7 DEF PartOf, PartPath, value, visits
          <6> HIDE DEF child
          <6>2. v.parts[i] = Visits(rules, root)[<<child, left>>][1]
            BY <5>3, <6>1
          <6>3. Full(rules, root, child, v.parts[i])
            BY <5>2, <5>4, <5>5, <5>7, <6>2 DEF Full, w
          <6> QED  BY <6>3 DEF child
        <5> QED  BY <5>6, <5>7
      <4>8. Shown(v.kind) = MarkIn(rules, node)
        BY <3>2, <3>5, <4>5 DEF Containers
      <4> QED  BY <3>1, <4>5, <4>7, <4>8 DEF Good, value
    <3> QED  BY <3>3, <3>4, <3>5
  <2> QED  BY <1>0, <1>1, <2>6, <2>7, <2>8
<1> QED  BY <1>8, <1>9

\* With a budget for every path below root, the result shows every mark of it.
LEMMA PassShows ==
  ASSUME NEW rules, IsRules(rules),
         NEW root, Values(root), root.kind # "getter", Cardinality(Paths(rules, root)) <= Budget
  PROVE  At(redact(rules, root), <<>>) = {<<node[1], MarkIn(rules, node)>> : node \in Seen(rules, root)}
<1> DEFINE m == MaxDepth + 1
           L == Levels(rules, root)
           Known(a, n) == /\ \A x \in a[n] : \E node \in L[n] :
                               x = <<node[1], x[2]>> /\ Full(rules, root, node, x[2])
                          /\ \A node \in L[n] : \E v : <<node[1], v>> \in a[n] /\ Full(rules, root, node, v)
<1>0. m \in Nat /\ MaxDepth \in Nat /\ Budget \in Nat
  BY PolicyAssumption
<1>a. \E a : AtRuns(a, redact(rules, root), <<>>)
  BY AtLevels
<1>b. PICK a : AtRuns(a, redact(rules, root), <<>>)
  BY <1>a
<1>1. /\ a[0] = {<<<<>>, redact(rules, root)>>}
      /\ \A n \in 1 .. m + 1 : a[n] = UNION {Inside(node) : node \in a[n - 1]}
      /\ At(redact(rules, root), <<>>) = {<<node[1], Shown(node[2].kind)>> : node \in UNION {a[n] : n \in 0 .. m + 1}}
  <2>1. MaxDepth + 2 = m + 1
    BY <1>0
  <2> HIDE DEF m
  <2> QED  BY <1>b, <2>1 DEF AtRuns
<1>2. L[0] = {<<<<>>, root>>} /\ \A n \in 1 .. m : L[n] = UNION {Open(rules, node) : node \in L[n - 1]}
  BY LevelsRun
<1>3. \A n \in 0 .. m : \A node \in L[n] : Len(node[1]) = n /\ node \in Seen(rules, root)
  BY SeenLevels DEF Seen
<1>4. Seen(rules, root) = UNION {L[n] : n \in 0 .. m}
  BY DEF Seen
<1> HIDE DEF L
\* Parts, with enough left for each.
<1>5. ASSUME NEW node \in Seen(rules, root), NEW v, Full(rules, root, node, v)
      PROVE  LET value == Parsed(node[2], node[1])
             IN  /\ Shown(v.kind) = MarkIn(rules, node)
                 /\ ~ (~ Hidden(rules, node[1]) /\ Len(node[1]) <= MaxDepth) => Inside(<<node[1], v>>) = {}
                 /\ ~ Hidden(rules, node[1]) /\ Len(node[1]) <= MaxDepth =>
                      /\ v.keys = value.keys
                      /\ \A i \in DOMAIN value.keys :
                           LET child == <<Append(node[1], value.keys[i]), value.parts[i]>>
                           IN  child \in Open(rules, node) /\ Full(rules, root, child, v.parts[i])
  <2> DEFINE value == Parsed(node[2], node[1])
             open == ~ Hidden(rules, node[1]) /\ Len(node[1]) <= MaxDepth
  <2>1. /\ Shown(v.kind) = MarkIn(rules, node)
        /\ ~ open => v.keys = <<>>
        /\ open => v.keys = value.keys
        /\ open => \A i \in 1 .. Len(value.keys) :
                     Full(rules, root, <<PartPath(node, i), value.parts[i]>>, v.parts[i])
    BY <1>5, FullIs
  <2>2. ~ open => Inside(<<node[1], v>>) = {}
    BY <2>1 DEF Inside
  <2>3. DOMAIN value.keys = 1 .. Len(value.keys)
    <3>1. IsValue(value)
      BY SeenNodes DEF Values
    <3> HIDE DEF value
    <3> QED  BY <3>1 DEF IsValue
  <2>4. ASSUME open, NEW i \in DOMAIN value.keys
        PROVE  LET child == <<Append(node[1], value.keys[i]), value.parts[i]>>
               IN  child \in Open(rules, node) /\ Full(rules, root, child, v.parts[i])
    <3> DEFINE child == <<Append(node[1], value.keys[i]), value.parts[i]>>
    <3>1. child \in Open(rules, node)
      BY <2>4 DEF Open, Children
    <3>2. Full(rules, root, child, v.parts[i])
      BY <2>1, <2>3, <2>4 DEF PartPath
    <3> QED  BY <3>1, <3>2
  <2> HIDE DEF value
  <2> QED  BY <2>1, <2>2, <2>4 DEF value
<1> DEFINE X == {n \in Nat : n <= m => Known(a, n)}
<1>6. 0 \in X
  <2>1. Full(rules, root, <<<<>>, root>>, redact(rules, root))
    <3>1. IsFiniteSet(Paths(rules, root)) /\ Below(rules, root, <<>>) \subseteq Paths(rules, root)
      BY SeenNodes DEF Below
    <3>2. Cardinality(Below(rules, root, <<>>)) \in Nat /\ Cardinality(Paths(rules, root)) \in Nat
          /\ Cardinality(Below(rules, root, <<>>)) <= Cardinality(Paths(rules, root))
      BY <3>1, FS_Subset, FS_CardinalityType
    <3>3. Budget \in 0 .. Budget /\ Cardinality(Below(rules, root, <<>>)) <= Budget
      BY <1>0, <3>2
    <3>4. redact(rules, root) = Visits(rules, root)[<<<<<<>>, root>>, Budget>>][1]
      BY DEF redact
    <3> DEFINE node == <<<<>>, root>>
    <3>5. node[1] = <<>> /\ node[2] = root
      OBVIOUS
    <3> HIDE DEF node
    <3>6. Full(rules, root, node, redact(rules, root))
      BY <3>3, <3>4, <3>5 DEF Full, node
    <3> QED  BY <3>6 DEF node
  <2>2. Known(a, 0)
    BY <1>1, <1>2, <2>1
  <2> HIDE DEF Known
  <2> QED  BY <2>2
<1>7. ASSUME NEW n \in Nat, n \in X PROVE n + 1 \in X
  <2> HIDE DEF Known
  <2> SUFFICES ASSUME n + 1 <= m PROVE Known(a, n + 1)
    OBVIOUS
  <2> USE DEF Known
  <2>1. n + 1 \in 1 .. m /\ (n + 1) - 1 = n /\ n \in 0 .. m /\ n <= MaxDepth /\ n + 1 \in 1 .. m + 1
    BY <1>0
  <2>2. Known(a, n)
    <3> HIDE DEF Known
    <3> QED  BY <1>7, <2>1
  <2>3. /\ a[n + 1] = UNION {Inside(node) : node \in a[n]}
        /\ L[n + 1] = UNION {Open(rules, node) : node \in L[n]}
    <3> HIDE DEF m
    <3> QED  BY <1>1, <1>2, <2>1
  <2> HIDE DEF m
  <2>4. ASSUME NEW x \in a[n + 1]
        PROVE  \E node \in L[n + 1] : x = <<node[1], x[2]>> /\ Full(rules, root, node, x[2])
    <3>1. PICK y \in a[n] : x \in Inside(y)
      BY <2>3
    <3>2. PICK node \in L[n] : y = <<node[1], y[2]>> /\ Full(rules, root, node, y[2])
      BY <2>2
    <3> DEFINE value == Parsed(node[2], node[1])
    <3>3. PICK i \in DOMAIN y[2].keys : x = <<Append(y[1], y[2].keys[i]), y[2].parts[i]>>
      BY <3>1 DEF Inside
    <3>4. node \in Seen(rules, root) /\ Inside(<<node[1], y[2]>>) # {}
      BY <1>3, <2>1, <3>1, <3>2
    <3>5. /\ y[2].keys = value.keys
          /\ \A j \in DOMAIN value.keys :
               LET child == <<Append(node[1], value.keys[j]), value.parts[j]>>
               IN  child \in Open(rules, node) /\ Full(rules, root, child, y[2].parts[j])
      BY <1>5, <3>2, <3>4
    <3> DEFINE child == <<Append(node[1], value.keys[i]), value.parts[i]>>
    <3> HIDE DEF value
    <3>6. child \in Open(rules, node) /\ Full(rules, root, child, y[2].parts[i])
      BY <3>3, <3>5
    <3>7. x[1] = child[1] /\ x[2] = y[2].parts[i] /\ x = <<x[1], x[2]>>
      BY <3>2, <3>3, <3>5
    <3>8. child \in L[n + 1]
      <4> HIDE DEF child
      <4> QED  BY <2>3, <3>6
    <3> HIDE DEF child
    <3> QED  BY <3>6, <3>7, <3>8
  <2>5. ASSUME NEW node \in L[n + 1]
        PROVE  \E v : <<node[1], v>> \in a[n + 1] /\ Full(rules, root, node, v)
    <3>1. PICK p \in L[n] : node \in Open(rules, p)
      BY <2>3
    <3>2. PICK v : <<p[1], v>> \in a[n] /\ Full(rules, root, p, v)
      BY <2>2
    <3> DEFINE value == Parsed(p[2], p[1])
    <3>3. ~ Hidden(rules, p[1]) /\ Len(p[1]) <= MaxDepth /\ p \in Seen(rules, root)
      BY <1>3, <2>1, <3>1 DEF Open
    <3>4. PICK i \in DOMAIN value.keys : node = <<Append(p[1], value.keys[i]), value.parts[i]>>
      BY <3>1, <3>3 DEF Open, Children
    <3>5. v.keys = value.keys /\ Full(rules, root, node, v.parts[i])
      BY <1>5, <3>2, <3>3, <3>4
    <3> HIDE DEF value
    <3>6. <<Append(p[1], v.keys[i]), v.parts[i]>> \in Inside(<<p[1], v>>)
      BY <3>4, <3>5 DEF Inside
    <3>7. <<node[1], v.parts[i]>> \in a[n + 1]
      BY <2>3, <3>2, <3>4, <3>5, <3>6
    <3> QED  BY <3>5, <3>7
  <2> QED  BY <2>4, <2>5
<1>8. \A n \in 0 .. m : Known(a, n)
  <2>1. \A n \in Nat : n \in X
    <3> HIDE DEF X
    <3> QED  BY <1>6, <1>7, Inductive
  <2>2. \A n \in 0 .. m : n \in Nat /\ n <= m
    BY <1>0
  <2> HIDE DEF Known, m
  <2> QED  BY <2>1, <2>2
<1>9. a[m + 1] = {}
  <2>1. m + 1 \in 1 .. m + 1 /\ (m + 1) - 1 = m /\ m \in 0 .. m /\ ~ (m <= MaxDepth)
    BY <1>0
  <2> HIDE DEF m
  <2>2. a[m + 1] = UNION {Inside(node) : node \in a[m]}
    BY <1>1, <2>1
  <2>3. ASSUME NEW y \in a[m] PROVE Inside(y) = {}
    <3>1. PICK node \in L[m] : y = <<node[1], y[2]>> /\ Full(rules, root, node, y[2])
      BY <1>8, <2>1
    <3>2. node \in Seen(rules, root) /\ Len(node[1]) = m
      BY <1>3, <2>1
    <3>3. Inside(<<node[1], y[2]>>) = {}
      BY <1>5, <2>1, <3>1, <3>2
    <3> QED  BY <3>1, <3>3
  <2> QED  BY <2>2, <2>3
<1>10. \A n \in 0 .. m + 1 : n \in 0 .. m \/ n = m + 1
  BY <1>0
<1>11. \A n \in 0 .. m : n \in 0 .. m + 1
  BY <1>0
<1> HIDE DEF m
<1>12. ASSUME NEW x \in UNION {a[n] : n \in 0 .. m + 1}
       PROVE  \E node \in Seen(rules, root) : <<x[1], Shown(x[2].kind)>> = <<node[1], MarkIn(rules, node)>>
  <2>1. PICK n \in 0 .. m : x \in a[n]
    BY <1>9, <1>10
  <2>2. PICK node \in L[n] : x = <<node[1], x[2]>> /\ Full(rules, root, node, x[2])
    BY <1>8, <2>1
  <2>3. node \in Seen(rules, root) /\ Shown(x[2].kind) = MarkIn(rules, node)
    BY <1>3, <1>5, <2>1, <2>2
  <2> QED  BY <2>2, <2>3
<1>13. ASSUME NEW node \in Seen(rules, root)
       PROVE  \E x \in UNION {a[n] : n \in 0 .. m + 1} : <<x[1], Shown(x[2].kind)>> = <<node[1], MarkIn(rules, node)>>
  <2>1. PICK n \in 0 .. m : node \in L[n]
    BY <1>4
  <2>2. PICK v : <<node[1], v>> \in a[n] /\ Full(rules, root, node, v)
    BY <1>8, <2>1
  <2>3. Shown(v.kind) = MarkIn(rules, node)
    BY <1>5, <2>2
  <2>4. <<node[1], v>> \in UNION {a[k] : k \in 0 .. m + 1}
    BY <1>11, <2>1, <2>2
  <2> QED  BY <2>3, <2>4
<1> QED  BY <1>1, <1>12, <1>13

\* The values in R are clean and have their parts in it.
CleanParts(rules, R) == HasParts(R) /\ \A x \in R : x = <<x[1], x[2]>> /\ Clean(rules, x[1], x[2])

\* So are the results of a redaction, with the parts of each.
LEMMA ResultsHaveCleanParts ==
  ASSUME NEW rules, IsRules(rules), NEW root, Values(root)
  PROVE  CleanParts(rules, Results(rules, root))
<1>1. \A x \in Results(rules, root) : x = <<x[1], x[2]>>
  BY DEF Results
<1> QED  BY <1>1, ResultsAreClean DEF CleanParts, HasParts

\* Each level of what a clean value shows is of clean values, as deep as the level.
LEMMA LevelsAreClean ==
  ASSUME NEW rules, IsRules(rules), NEW R, CleanParts(rules, R), NEW path, NEW v, <<path, v>> \in R,
         NEW a, AtRuns(a, v, path)
  PROVE  \A n \in 0 .. MaxDepth + 2 : \A x \in a[n] : x \in R /\ Len(x[1]) = Len(path) + n
<1> DEFINE m == MaxDepth + 2
           Good(x, n) == x \in R /\ Len(x[1]) = Len(path) + n
           X == {n \in Nat : n <= m => \A x \in a[n] : Good(x, n)}
<1>0. m \in Nat
  BY PolicyAssumption
<1>1. a[0] = {<<path, v>>} /\ \A n \in 1 .. m : a[n] = UNION {Inside(x) : x \in a[n - 1]}
  BY DEF AtRuns
<1>2. \A x \in R : x[1] \in Seq(Key) /\ x[2].keys \in Seq(Key)
  BY DEF CleanParts, Clean, IsValue
<1>3. ASSUME NEW n \in Nat, NEW x, Good(x, n), NEW y \in Inside(x) PROVE Good(y, n + 1)
  <2>1. PICK i \in DOMAIN x[2].keys : y = <<Append(x[1], x[2].keys[i]), x[2].parts[i]>>
    BY DEF Inside
  <2>2. y \in R
    BY <1>3, <2>1 DEF CleanParts, HasParts
  <2>3. y[1] = Append(x[1], x[2].keys[i]) /\ x[1] \in Seq(Key) /\ x[2].keys[i] \in Key
    BY <1>2, <1>3, <2>1
  <2>4. Len(y[1]) = Len(x[1]) + 1 /\ Len(x[1]) \in Nat
    BY <2>3
  <2>5. path \in Seq(Key)
    <3>1. <<path, v>>[1] = path
      OBVIOUS
    <3> QED  BY <1>2, <3>1
  <2>6. Len(path) \in Nat
    BY <2>5
  <2> QED  BY <1>3, <2>2, <2>4, <2>6
<1>4. 0 \in X
  <2>1. path \in Seq(Key) /\ <<path, v>>[1] = path
    BY <1>2
  <2>2. Len(path) \in Nat
    BY <2>1
  <2>3. Good(<<path, v>>, 0)
    BY <2>1, <2>2
  <2> HIDE DEF Good
  <2> QED  BY <1>1, <2>3
<1>5. ASSUME NEW n \in Nat, n \in X PROVE n + 1 \in X
  <2> HIDE DEF Good
  <2> SUFFICES ASSUME n + 1 <= m, NEW y \in a[n + 1] PROVE Good(y, n + 1)
    OBVIOUS
  <2>1. n + 1 \in 1 .. m /\ (n + 1) - 1 = n /\ \A x \in a[n] : Good(x, n)
    BY <1>0, <1>5
  <2>2. PICK x \in a[n] : y \in Inside(x)
    BY <1>1, <2>1
  <2> QED  BY <1>3, <2>1, <2>2
<1>6. \A n \in Nat : n \in X
  <2> HIDE DEF X
  <2> QED  BY <1>4, <1>5, Inductive
<1> HIDE DEF Good
<1>7. \A n \in 0 .. m : \A x \in a[n] : Good(x, n)
  <2>1. \A n \in 0 .. m : n \in Nat /\ n <= m
    BY <1>0
  <2> HIDE DEF m
  <2> QED  BY <1>6, <2>1
<1> QED  BY <1>7 DEF Good

\* A budget for what is expected is one for the paths of it.
LEMMA ExpectedPays ==
  ASSUME NEW rules, IsRules(rules), NEW root, Values(root), Cardinality(Expected(rules, root)) <= Budget
  PROVE  Cardinality(Paths(rules, root)) <= Budget
<1> DEFINE E == {<<node[1], Mark(rules, node)>> : node \in Seen(rules, root)}
<1>1. IsFiniteSet(E)
  <2>1. [node \in Seen(rules, root) |-> <<node[1], Mark(rules, node)>>] \in Surjection(Seen(rules, root), E)
    BY DEF Surjection
  <2>2. IsFiniteSet(Seen(rules, root))
    BY SeenNodes
  <2> HIDE DEF E
  <2> QED  BY <2>1, <2>2, FS_Surjection
<1>2. Cardinality(Paths(rules, root)) <= Cardinality(E)
  <2>1. Paths(rules, root) = {e[1] : e \in E}
    <3>1. \A node : <<node[1], Mark(rules, node)>>[1] = node[1]
      OBVIOUS
    <3>2. \A e \in E : e[1] \in Paths(rules, root)
      BY <3>1 DEF Paths
    <3>3. \A p \in Paths(rules, root) : \E e \in E : p = e[1]
      <4> SUFFICES ASSUME NEW node \in Seen(rules, root) PROVE \E e \in E : node[1] = e[1]
        BY DEF Paths
      <4> DEFINE e == <<node[1], Mark(rules, node)>>
      <4>1. e \in E /\ e[1] = node[1]
        OBVIOUS
      <4> HIDE DEF e, E
      <4> QED  BY <4>1
    <3> HIDE DEF E
    <3> QED  BY <3>2, <3>3
  <2> HIDE DEF E
  <2>2. [e \in E |-> e[1]] \in Surjection(E, Paths(rules, root))
    BY <2>1 DEF Surjection
  <2> QED  BY <1>1, <2>2, FS_Surjection
<1>3. Cardinality(E) <= Budget
  BY ExpectedIs
<1>4. Cardinality(E) \in Nat /\ Cardinality(Paths(rules, root)) \in Nat /\ Budget \in Nat
  <2> HIDE DEF E
  <2>1. IsFiniteSet(Paths(rules, root))
    BY SeenNodes
  <2> QED  BY <1>1, <2>1, FS_CardinalityType, PolicyAssumption
<1> HIDE DEF E
<1> QED  BY <1>2, <1>3, <1>4

\* A clean value shows its own kind at the top, and its parts' under their keys.
LEMMA ShowsItself ==
  ASSUME NEW rules, IsRules(rules), NEW R, CleanParts(rules, R), NEW v, <<<<>>, v>> \in R
  PROVE  /\ <<<<>>, Shown(v.kind)>> \in At(v, <<>>)
         /\ \A s : <<<<>>, s>> \in At(v, <<>>) => s = Shown(v.kind)
         /\ \A k, s : <<<<k>>, s>> \in At(v, <<>>) =>
              \E i \in DOMAIN v.keys : v.keys[i] = k /\ s = Shown(v.parts[i].kind)
<1> DEFINE m == MaxDepth + 2
           top == <<<<>>, v>>
<1>0. m \in Nat /\ m >= 2
  BY PolicyAssumption
<1>a. \E a : AtRuns(a, v, <<>>)
  BY AtLevels
<1>b. PICK a : AtRuns(a, v, <<>>)
  BY <1>a
<1>1. /\ a[0] = {top}
      /\ \A n \in 1 .. m : a[n] = UNION {Inside(x) : x \in a[n - 1]}
      /\ At(v, <<>>) = {<<x[1], Shown(x[2].kind)>> : x \in UNION {a[n] : n \in 0 .. m}}
  BY <1>b DEF AtRuns
<1>2. \A n \in 0 .. m : \A x \in a[n] : Len(x[1]) = n
  <2>1. \A n \in 0 .. m : \A x \in a[n] : x \in R /\ Len(x[1]) = Len(<<>>) + n
    BY <1>b, LevelsAreClean
  <2>2. \A n \in 0 .. m : n \in Nat /\ Len(<<>>) + n = n
    BY <1>0
  <2> HIDE DEF m
  <2> QED  BY <2>1, <2>2
<1>3. 0 \in 0 .. m /\ 1 \in 1 .. m /\ 1 - 1 = 0
  BY <1>0
<1>4. top[1] = <<>> /\ top[2] = v
  OBVIOUS
<1> HIDE DEF m, top
<1>5. ASSUME NEW p, NEW s, <<p, s>> \in At(v, <<>>)
      PROVE  \E n \in 0 .. m : \E x \in a[n] : p = x[1] /\ s = Shown(x[2].kind) /\ Len(p) = n
  <2>1. PICK n \in 0 .. m : \E x \in a[n] : <<p, s>> = <<x[1], Shown(x[2].kind)>>
    BY <1>1, <1>5
  <2>2. PICK x \in a[n] : <<p, s>> = <<x[1], Shown(x[2].kind)>>
    BY <2>1
  <2>3. p = x[1] /\ s = Shown(x[2].kind)
    BY <2>2
  <2> QED  BY <1>2, <2>3
<1>6. <<<<>>, Shown(v.kind)>> \in At(v, <<>>)
  <2>1. top \in UNION {a[n] : n \in 0 .. m}
    BY <1>1, <1>3
  <2>2. <<top[1], Shown(top[2].kind)>> \in At(v, <<>>)
    BY <1>1, <2>1
  <2> QED  BY <1>4, <2>2
<1>7. ASSUME NEW s, <<<<>>, s>> \in At(v, <<>>) PROVE s = Shown(v.kind)
  <2>1. PICK n \in 0 .. m : \E x \in a[n] : <<>> = x[1] /\ s = Shown(x[2].kind) /\ Len(<<>>) = n
    BY <1>5, <1>7
  <2>2. n = 0
    BY <2>1
  <2> QED  BY <1>1, <1>4, <2>1, <2>2
<1>8. ASSUME NEW k, NEW s, <<<<k>>, s>> \in At(v, <<>>)
      PROVE  \E i \in DOMAIN v.keys : v.keys[i] = k /\ s = Shown(v.parts[i].kind)
  <2>1. PICK n \in 0 .. m : \E x \in a[n] : <<k>> = x[1] /\ s = Shown(x[2].kind) /\ Len(<<k>>) = n
    BY <1>5, <1>8
  <2>2. Len(<<k>>) = 1
    OBVIOUS
  <2>3. PICK x \in a[1] : <<k>> = x[1] /\ s = Shown(x[2].kind)
    BY <2>1, <2>2
  <2>4. x \in Inside(top)
    <3>1. a[1] = UNION {Inside(y) : y \in a[0]}
      BY <1>1, <1>3
    <3> QED  BY <1>1, <2>3, <3>1
  <2>5. PICK i \in DOMAIN v.keys : x = <<Append(<<>>, v.keys[i]), v.parts[i]>>
    BY <1>4, <2>4 DEF Inside
  <2>6. Append(<<>>, v.keys[i]) = <<v.keys[i]>>
    OBVIOUS
  <2>7. x[1] = <<v.keys[i]>> /\ x[2] = v.parts[i]
    BY <2>5, <2>6
  <2>8. <<k>>[1] = k /\ <<v.keys[i]>>[1] = v.keys[i]
    OBVIOUS
  <2> QED  BY <2>3, <2>7, <2>8
<1> QED  BY <1>6, <1>7, <1>8

\* What the one part of a record shows is what the record shows, less its top.
LEMMA PartShows ==
  ASSUME NEW rules, IsRules(rules), NEW R, CleanParts(rules, R), NEW k, NEW v, <<<<>>, v>> \in R,
         v.keys = <<k>>
  PROVE  At(v.parts[1], <<k>>) = {y \in At(v, <<>>) : y[1] # <<>>}
<1> DEFINE m == MaxDepth + 2
           f == v.parts[1]
           top == <<<<>>, v>>
           first == <<<<k>>, f>>
<1>0. m \in Nat /\ m >= 2 /\ MaxDepth \in Nat
  BY PolicyAssumption
<1>a. \E a : AtRuns(a, v, <<>>)
  BY AtLevels
<1>b. PICK a : AtRuns(a, v, <<>>)
  BY <1>a
<1>c. \E b : AtRuns(b, f, <<k>>)
  BY AtLevels
<1>d. PICK b : AtRuns(b, f, <<k>>)
  BY <1>c
<1>1. /\ a[0] = {top}
      /\ \A n \in 1 .. m : a[n] = UNION {Inside(x) : x \in a[n - 1]}
      /\ At(v, <<>>) = {<<x[1], Shown(x[2].kind)>> : x \in UNION {a[n] : n \in 0 .. m}}
  BY <1>b DEF AtRuns
<1>2. /\ b[0] = {first}
      /\ \A n \in 1 .. m : b[n] = UNION {Inside(x) : x \in b[n - 1]}
      /\ At(f, <<k>>) = {<<x[1], Shown(x[2].kind)>> : x \in UNION {b[n] : n \in 0 .. m}}
  BY <1>d DEF AtRuns
<1>3. \A n \in 0 .. m : \A x \in a[n] : x \in R /\ Len(x[1]) = n
  <2>1. \A n \in 0 .. m : \A x \in a[n] : x \in R /\ Len(x[1]) = Len(<<>>) + n
    BY <1>b, LevelsAreClean
  <2>2. \A n \in 0 .. m : n \in Nat /\ Len(<<>>) + n = n
    BY <1>0
  <2> HIDE DEF m
  <2> QED  BY <2>1, <2>2
<1>4. \A x \in R : x[1] \in Seq(Key) /\ Len(x[1]) <= MaxDepth + 1
  BY DEF CleanParts, Clean
<1>5. a[1] = {first}
  <2>1. 1 \in 1 .. m /\ 1 - 1 = 0
    BY <1>0
  <2>2. a[1] = UNION {Inside(x) : x \in a[0]}
    <3> HIDE DEF m
    <3> QED  BY <1>1, <2>1
  <2>3. Inside(top) = {first}
    <3>1. \A i \in DOMAIN v.keys : i = 1
      OBVIOUS
    <3>2. 1 \in DOMAIN v.keys /\ v.keys[1] = k /\ Append(<<>>, k) = <<k>>
      OBVIOUS
    <3>3. top[1] = <<>> /\ top[2] = v
      OBVIOUS
    <3> HIDE DEF top
    <3> QED  BY <3>1, <3>2, <3>3 DEF Inside
  <2> HIDE DEF top, first, m
  <2> QED  BY <1>1, <2>2, <2>3
<1> HIDE DEF top, first, f
<1> DEFINE X == {n \in Nat : n + 1 <= m => b[n] = a[n + 1]}
<1>6. 0 \in X
  <2>1. b[0] = a[1]
    BY <1>2, <1>5
  <2>2. 0 + 1 = 1
    OBVIOUS
  <2> QED  BY <2>1, <2>2
<1>7. ASSUME NEW n \in Nat, n \in X PROVE n + 1 \in X
  <2> SUFFICES ASSUME (n + 1) + 1 <= m PROVE b[n + 1] = a[(n + 1) + 1]
    OBVIOUS
  <2>1. /\ n + 1 \in 1 .. m /\ (n + 1) - 1 = n /\ n + 1 <= m
        /\ (n + 1) + 1 \in 1 .. m /\ ((n + 1) + 1) - 1 = n + 1
    BY <1>0
  <2>2. b[n] = a[n + 1]
    BY <1>7, <2>1
  <2> HIDE DEF m
  <2>3. /\ b[n + 1] = UNION {Inside(x) : x \in b[n]}
        /\ a[(n + 1) + 1] = UNION {Inside(x) : x \in a[n + 1]}
    BY <1>1, <1>2, <2>1
  <2> QED  BY <2>2, <2>3
<1>8. \A n \in Nat : n + 1 <= m => b[n] = a[n + 1]
  <2>1. \A n \in Nat : n \in X
    <3> HIDE DEF X
    <3> QED  BY <1>6, <1>7, Inductive
  <2> HIDE DEF m
  <2> QED  BY <2>1
<1>9. a[m] = {} /\ b[m] = {}
  <2>1. m \in 0 .. m /\ m - 1 \in Nat /\ (m - 1) + 1 = m /\ m \in 1 .. m /\ m <= m /\ ~ (m <= MaxDepth + 1)
    BY <1>0
  <2>2. a[m] = {}
    BY <1>3, <1>4, <2>1
  <2> HIDE DEF m
  <2>3. b[m - 1] = {}
    BY <1>8, <2>1, <2>2
  <2> QED  BY <1>2, <2>1, <2>2, <2>3
<1>10. \A n \in 0 .. m :
         /\ n # m => n + 1 \in 0 .. m /\ n \in Nat /\ n + 1 <= m /\ n + 1 # 0
         /\ n # 0 => \E l \in 0 .. m : l \in Nat /\ l + 1 = n /\ l + 1 <= m
  <2> SUFFICES ASSUME NEW n \in 0 .. m
               PROVE  /\ n # m => n + 1 \in 0 .. m /\ n \in Nat /\ n + 1 <= m /\ n + 1 # 0
                      /\ n # 0 => /\ n - 1 \in 0 .. m /\ n - 1 \in Nat
                                  /\ (n - 1) + 1 = n /\ (n - 1) + 1 <= m
    OBVIOUS
  <2> QED  BY <1>0
<1>11. \A x \in UNION {a[n] : n \in 0 .. m} : x[1] = <<>> \/ x \in UNION {b[n] : n \in 0 .. m}
  <2> HIDE DEF m
  <2> SUFFICES ASSUME NEW n \in 0 .. m, NEW x \in a[n] PROVE x[1] = <<>> \/ \E l \in 0 .. m : x \in b[l]
    OBVIOUS
  <2>1. CASE n = 0
    <3>1. x = top
      BY <1>1, <2>1
    <3> QED  BY <3>1 DEF top
  <2>2. CASE n # 0
    <3>1. PICK l \in 0 .. m : l \in Nat /\ l + 1 = n /\ l + 1 <= m
      BY <1>10, <2>2
    <3>2. b[l] = a[n]
      BY <1>8, <3>1
    <3> QED  BY <3>1, <3>2
  <2> QED  BY <2>1, <2>2
<1>12. \A x \in UNION {b[n] : n \in 0 .. m} : x[1] # <<>> /\ x \in UNION {a[n] : n \in 0 .. m}
  <2> HIDE DEF m
  <2> SUFFICES ASSUME NEW n \in 0 .. m, NEW x \in b[n] PROVE x[1] # <<>> /\ \E l \in 0 .. m : x \in a[l]
    OBVIOUS
  <2>1. n # m
    BY <1>9
  <2>2. n + 1 \in 0 .. m /\ n + 1 # 0 /\ b[n] = a[n + 1]
    <3>1. n + 1 \in 0 .. m /\ n \in Nat /\ n + 1 <= m /\ n + 1 # 0
      BY <1>10, <2>1
    <3> QED  BY <1>8, <3>1
  <2>3. x \in a[n + 1] /\ Len(x[1]) = n + 1
    BY <1>3, <2>2
  <2>4. Len(<<>>) = 0
    OBVIOUS
  <2> QED  BY <2>2, <2>3, <2>4
<1> HIDE DEF m
<1>13. \A x : LET y == <<x[1], Shown(x[2].kind)>> IN y[1] = x[1]
  OBVIOUS
<1>14. ASSUME NEW y \in At(f, <<k>>) PROVE y \in At(v, <<>>) /\ y[1] # <<>>
  <2>1. PICK x \in UNION {b[n] : n \in 0 .. m} : y = <<x[1], Shown(x[2].kind)>>
    BY <1>2
  <2> QED  BY <1>1, <1>12, <2>1
<1>15. ASSUME NEW y \in At(v, <<>>), y[1] # <<>> PROVE y \in At(f, <<k>>)
  <2>1. PICK x \in UNION {a[n] : n \in 0 .. m} : y = <<x[1], Shown(x[2].kind)>>
    BY <1>1
  <2>2. x \in UNION {b[n] : n \in 0 .. m}
    BY <1>11, <1>15, <2>1
  <2> QED  BY <1>2, <2>1, <2>2
<1>16. At(f, <<k>>) = {y \in At(v, <<>>) : y[1] # <<>>}
  BY <1>14, <1>15
<1> QED  BY <1>16 DEF f

\* A field that a clean record shows as text is text.
LEMMA TextFieldShown ==
  ASSUME NEW rules, IsRules(rules), NEW R, CleanParts(rules, R), NEW v, <<<<>>, v>> \in R, v.kind = "record",
         NEW k, <<<<k>>, "text">> \in At(v, <<>>)
  PROVE  Field(v, k).kind = "text"
<1>1. PICK i \in DOMAIN v.keys : v.keys[i] = k /\ Shown(v.parts[i].kind) = "text"
  <2>1. \A key, s : <<<<key>>, s>> \in At(v, <<>>) =>
          \E i \in DOMAIN v.keys : v.keys[i] = key /\ s = Shown(v.parts[i].kind)
    BY ShowsItself
  <2>2. \E i \in DOMAIN v.keys : v.keys[i] = k /\ "text" = Shown(v.parts[i].kind)
    BY <2>1
  <2> QED  BY <2>2
<1>2. v.keys \in Seq(Key) /\ \A j \in DOMAIN v.keys : v.keys[j] = k => j = i
  <2> DEFINE x == <<<<>>, v>>
  <2>1. x \in R /\ x[2] = v
    OBVIOUS
  <2> HIDE DEF x
  <2>2. IsValue(v)
    BY <2>1 DEF CleanParts, Clean
  <2> QED  BY <1>1, <2>2 DEF IsValue
<1>3. Contains(v.keys, k)
  BY <1>1, <1>2 DEF Contains
<1>4. (CHOOSE j \in DOMAIN v.keys : v.keys[j] = k) = i
  BY <1>1, <1>2
<1>5. Field(v, k) = v.parts[i]
  BY <1>3, <1>4 DEF Field
<1> QED  BY <1>1, <1>5 DEF Shown

\* What fits is shown as it should be.
LEMMA FitShows ==
  ASSUME NEW rules, IsRules(rules), NEW root, Values(root), root.kind # "getter",
         Fits(Expected(rules, root))
  PROVE  At(redact(rules, root), <<>>) = Expected(rules, root) /\ redact(rules, root).kind = "record"
<1> DEFINE expected == Expected(rules, root)
           result == redact(rules, root)
<1>1. expected = {<<node[1], Mark(rules, node)>> : node \in Seen(rules, root)}
  BY ExpectedIs
<1>2. /\ Cardinality(expected) <= Budget /\ <<<<>>, "record">> \in expected
      /\ \A e \in expected : Len(e[1]) <= MaxDepth \/ e[2] = "mark"
  BY DEF Fits
<1>3. Cardinality(Paths(rules, root)) <= Budget
  BY <1>2, ExpectedPays
<1>4. At(result, <<>>) = {<<node[1], MarkIn(rules, node)>> : node \in Seen(rules, root)}
  BY <1>3, PassShows
<1> HIDE DEF expected, result
<1>5. ASSUME NEW node \in Seen(rules, root) PROVE MarkIn(rules, node) = Mark(rules, node)
  <2> DEFINE e == <<node[1], Mark(rules, node)>>
  <2>1. e \in expected /\ e[1] = node[1] /\ e[2] = Mark(rules, node)
    BY <1>1
  <2> HIDE DEF e
  <2>2. Len(node[1]) <= MaxDepth \/ Mark(rules, node) = "mark"
    BY <1>2, <2>1
  <2>3. node[1] \in Seq(Key)
    BY SeenNodes, ReachesParts
  <2>4. Len(node[1]) \in Nat /\ MaxDepth \in Nat
    BY <2>3, PolicyAssumption
  <2> QED  BY <2>2, <2>4 DEF MarkIn
<1>6. At(result, <<>>) = expected
  BY <1>1, <1>4, <1>5
<1>7. <<<<>>, result>> \in Results(rules, root) /\ CleanParts(rules, Results(rules, root))
  BY RedactedIsResult, ResultsHaveCleanParts DEF result
<1>8. Shown(result.kind) = "record"
  BY <1>2, <1>6, <1>7, ShowsItself
<1> QED  BY <1>6, <1>8 DEF Shown, expected, result

\* The store shows of a snapshot what it should, in its place.
LEMMA StoreShows ==
  ASSUME NEW rules, IsRules(rules), NEW f, Values(Record(<<"snapshot">>, <<f>>)),
         Fits(Expected(rules, Record(<<"snapshot">>, <<f>>)))
  PROVE  At(redactField(rules, "snapshot", f), <<"snapshot">>)
           = {node \in Expected(rules, Record(<<"snapshot">>, <<f>>)) : node[1] # <<>>}
<1> DEFINE again == Record(<<"snapshot">>, <<f>>)
           result == redact(rules, again)
           R == Results(rules, again)
<1>1. again.kind = "record" /\ again.keys = <<"snapshot">>
  BY DEF Record
<1>2. Values(again) /\ Fits(Expected(rules, again))
  OBVIOUS
<1>3. redactField(rules, "snapshot", f) = IF result.kind = "record" THEN result.parts[1] ELSE Omitted
  BY DEF redactField
<1> HIDE DEF again
<1>4. At(result, <<>>) = Expected(rules, again) /\ result.kind = "record"
  BY <1>1, <1>2, FitShows
<1>5. /\ <<<<>>, result>> \in R /\ (result.kind = "record" => result.keys = <<"snapshot">>)
      /\ CleanParts(rules, R)
  BY <1>1, <1>2, RedactedIsResult, ResultsHaveCleanParts DEF Containers
<1> HIDE DEF result, R
<1>6. At(result.parts[1], <<"snapshot">>) = {y \in At(result, <<>>) : y[1] # <<>>}
  BY <1>4, <1>5, PartShows
<1> QED  BY <1>3, <1>4, <1>6 DEF again

\* What fits is sent and kept as it is but for secrets: OnlySecretsLost.
LEMMA InspectLosesSecretsOnly ==
  ASSUME question \in Question, question.kind = "inspect", reply = answer(question)
  PROVE  OnlySecretsLost
<1> DEFINE root == question.envelope
           guard == question.guard
           rules == question.filter
           wire == reply.wire
           stored == reply.stored
           f == Field(wire, "snapshot")
           leaves == Expected(guard, root)
           again == Record(<<"snapshot">>, <<f>>)
<1>1. Values(root) /\ root.kind # "getter" /\ IsRules(guard) /\ IsRules(rules)
  BY EnvelopeAssumption DEF Values
<1>2. /\ wire = IF question.guarded THEN serializeInspection(guard, question.enabled, root) ELSE root
      /\ stored = IF f.kind = "record" THEN redactField(rules, "snapshot", f) ELSE Leaf("nothing")
  <2>1. reply = inspect(question)
    BY Zenon DEF answer
  <2> QED  BY <2>1 DEF inspect, sent
<1> HIDE DEF root, guard, rules, wire, stored, f
<1>3. ASSUME question.guarded, question.enabled, Fits(leaves),
             \A k \in {"type", "sessionId"} : <<<<k>>, "text">> \in leaves
      PROVE  At(wire, <<>>) = leaves
  <2> DEFINE result == redact(guard, root)
  <2>1. At(result, <<>>) = leaves /\ result.kind = "record"
    BY <1>1, <1>3, FitShows
  <2>2. <<<<>>, result>> \in Results(guard, root) /\ CleanParts(guard, Results(guard, root))
    BY <1>1, RedactedIsResult, ResultsHaveCleanParts
  <2>3. wire = serializeInspection(guard, question.enabled, root)
    BY <1>2, <1>3
  <2>4. Sent(question.enabled, result) => wire = result
    BY <1>1, <2>3, WireIs
  <2>5. ASSUME NEW k, <<<<k>>, "text">> \in leaves PROVE Field(result, k).kind = "text"
    <3> HIDE DEF result, leaves
    <3>1. /\ IsRules(guard)
          /\ CleanParts(guard, Results(guard, root))
          /\ <<<<>>, result>> \in Results(guard, root)
          /\ result.kind = "record" /\ <<<<k>>, "text">> \in At(result, <<>>)
      BY <1>1, <2>1, <2>2, <2>5
    <3> QED  BY <3>1, TextFieldShown
  <2> HIDE DEF result, leaves
  <2> QED  BY <1>3, <2>1, <2>4, <2>5 DEF Sent
<1>4. ASSUME f.kind = "record", Fits(Expected(rules, again))
      PROVE  At(stored, <<"snapshot">>) = {node \in Expected(rules, again) : node[1] # <<>>}
  <2>1. Values(again)
    BY <1>4, StoredHasValues DEF f, wire
  <2> QED  BY <1>1, <1>2, <1>4, <2>1, StoreShows
<1> QED  BY <1>3, <1>4 DEF OnlySecretsLost, root, guard, rules, wire, stored, f

\* What fits loses nothing but secrets, on the wire by the guard's rules and in the
\* store by its own.
THEOREM OnlySecretsLostHolds == Spec => []OnlySecretsLost
<1>1. ReadInv => OnlySecretsLost
  <2> SUFFICES ASSUME ReadInv, Answered("inspect") PROVE OnlySecretsLost
    BY DEF OnlySecretsLost
  <2> QED  BY InspectLosesSecretsOnly DEF ReadInv, Answered
<1> QED  BY <1>1, AnswersOnly, PTL

-----------------------------------------------------------------------------
(* get_actor_tree: the recursion over the ids visited. *)

\* The call for an actor when W has been visited, and that calls only add to it.
Call(node, a, W) == node[<<a, W \cup {a.id}>>]
Grows(node, list, visited, I) ==
  \A i \in 1 .. Len(list) : \A W \in SUBSET I :
    visited \subseteq W => /\ Call(node, list[i], W)[2] \in SUBSET I
                           /\ W \cup {list[i].id} \subseteq Call(node, list[i], W)[2]

\* b holds the nodes of the first n actors, each with what was visited before it.
BuiltRuns(b, node, list, visited, I) ==
  /\ b[0] = <<<<>>, visited>>
  /\ \A n \in 1 .. Len(list) :
       LET p == Call(node, list[n], b[n - 1][2])
       IN  b[n] = <<Append(b[n - 1][1], p[1]), p[2]>>
  /\ \A n \in 0 .. Len(list) :
       /\ b[n][2] \in SUBSET I /\ visited \subseteq b[n][2]
       /\ b[n][1] \in Seq({b[n][1][i] : i \in 1 .. n}) /\ Len(b[n][1]) = n
       /\ \A i \in 1 .. n : b[n][1][i] = Call(node, list[i], b[i - 1][2])[1]

\* A list is built actor by actor, each with what the ones before it visited.
LEMMA Builds ==
  ASSUME NEW node, NEW S, NEW list \in Seq(S), NEW I, NEW visited \in SUBSET I,
         Grows(node, list, visited, I)
  PROVE  BuiltRuns(Built(node, list, visited), node, list, visited, I)
<1> DEFINE m == Len(list)
           part(i, W) == Call(node, list[i], W)
           U == {part(s[1], s[2])[1] : s \in (1 .. m) \X (SUBSET I)}
           Good(n) == {x \in Seq(U) \X (SUBSET I) : Len(x[1]) = n /\ visited \subseteq x[2]}
           V == [n \in Nat |-> Good(n)]
           next(n, x) == <<Append(x[1], part(n, x[2])[1]), part(n, x[2])[2]>>
           base == <<<<>>, visited>>
           step == [n \in 1 .. m |-> [x \in V[n - 1] |-> next(n, x)]]
           Solves(g) == g = [n \in 0 .. m |-> IF n = 0 THEN base ELSE next(n, g[n - 1])]
           b == CHOOSE g : Solves(g)
<1>0. m \in Nat
  OBVIOUS
<1>1. \A n \in Nat : V[n] = Good(n)
  <2> HIDE DEF Good
  <2> QED  OBVIOUS
<1>2. base \in V[0]
  <2>1. base \in Good(0)
    <3>1. <<>> \in Seq(U) /\ Len(<<>>) = 0 /\ visited \in SUBSET I /\ visited \subseteq visited
      OBVIOUS
    <3>2. base[1] = <<>> /\ base[2] = visited
      OBVIOUS
    <3>3. base \in Seq(U) \X (SUBSET I)
      BY <3>1
    <3> HIDE DEF base, U
    <3> QED  BY <3>1, <3>2, <3>3
  <2> HIDE DEF V, Good, base
  <2> QED  BY <1>1, <2>1
<1>3. ASSUME NEW n \in 1 .. m, NEW x \in V[n - 1] PROVE next(n, x) \in V[n]
  <2>1. n \in Nat /\ n - 1 \in Nat
    BY <1>0
  <2>2. x \in Good(n - 1)
    <3> HIDE DEF V, Good
    <3> QED  BY <1>1, <1>3, <2>1
  <2>3. x[1] \in Seq(U) /\ Len(x[1]) = n - 1 /\ x[2] \in SUBSET I /\ visited \subseteq x[2]
    <3> HIDE DEF U, m
    <3> QED  BY <2>2
  <2>4. part(n, x[2])[1] \in U
    <3> DEFINE s == <<n, x[2]>>
    <3>1. s \in (1 .. m) \X (SUBSET I) /\ s[1] = n /\ s[2] = x[2]
      BY <2>3
    <3> HIDE DEF m, part, s
    <3>2. part(s[1], s[2])[1] \in U
      BY <3>1
    <3> QED  BY <3>1, <3>2
  <2>5. part(n, x[2])[2] \in SUBSET I /\ x[2] \subseteq part(n, x[2])[2]
    <3> HIDE DEF U
    <3> QED  BY <2>3 DEF Grows
  <2>6. Append(x[1], part(n, x[2])[1]) \in Seq(U) /\ Len(Append(x[1], part(n, x[2])[1])) = n
    <3> HIDE DEF U, part, m
    <3> QED  BY <2>1, <2>3, <2>4
  <2>7. next(n, x) \in Good(n)
    <3>1. visited \subseteq part(n, x[2])[2]
      <4> HIDE DEF U, part, m
      <4> QED  BY <2>3, <2>5
    <3> HIDE DEF U, part, m
    <3> QED  BY <2>5, <2>6, <3>1
  <2> HIDE DEF V, Good, next
  <2> QED  BY <1>1, <2>1, <2>7
<1>4. PICK g : Runs(g, m, V, base, step)
  <2>1. Steps(m, V, base, step)
    <3> HIDE DEF V, next, base, m
    <3> QED  BY <1>2, <1>3 DEF Steps
  <2> HIDE DEF step, V, base, m
  <2> QED  BY <1>0, <2>1, Recursion
<1>5. Solves(g)
  <2> HIDE DEF V, next, base, m
  <2>1. \A n \in 0 .. m : g[n] = IF n = 0 THEN base ELSE next(n, g[n - 1])
    <3> TAKE n \in 0 .. m
    <3>1. CASE n = 0
      BY <1>4, <3>1 DEF Runs
    <3>2. CASE n # 0
      <4>1. n \in 1 .. m /\ n - 1 \in 0 .. m
        BY <1>0, <3>2
      <4>2. g[n] = step[n][g[n - 1]] /\ g[n - 1] \in V[n - 1]
        BY <1>4, <4>1 DEF Runs
      <4> QED  BY <3>2, <4>1, <4>2
    <3> QED  BY <3>1, <3>2
  <2> HIDE DEF step
  <2> QED  BY <1>4, <2>1 DEF Runs
<1>6. Solves(b)
  <2> HIDE DEF Solves
  <2> QED  BY <1>5
<1>7. Built(node, list, visited) = b
  BY DEF Built, Call
<1> HIDE DEF b
<1>8. \A n \in 0 .. m : b[n] = IF n = 0 THEN base ELSE next(n, b[n - 1])
  <2> HIDE DEF m, base, next
  <2> QED  BY <1>6
<1>9. b[0] = base
  <2> HIDE DEF m, base, next
  <2>1. 0 \in 0 .. m
    BY <1>0
  <2> QED  BY <1>8, <2>1
<1>10. \A n \in 1 .. m : b[n] = next(n, b[n - 1])
  <2> HIDE DEF m, base, next
  <2> TAKE n \in 1 .. m
  <2>1. n \in 0 .. m /\ n # 0
    BY <1>0
  <2> QED  BY <1>8, <2>1
<1>11. \A n \in 0 .. m : b[n] \in V[n]
  <2> HIDE DEF m, base, next, V
  <2>1. b[0] \in V[0]
    BY <1>2, <1>9
  <2>2. \A n \in 1 .. m : b[n - 1] \in V[n - 1] => b[n] \in V[n]
    BY <1>3, <1>10
  <2> QED  BY <1>0, <2>1, <2>2, Followed
<1>12. \A n \in 0 .. m : /\ b[n][1] \in Seq(U) /\ Len(b[n][1]) = n
                         /\ b[n][2] \in SUBSET I /\ visited \subseteq b[n][2]
  <2> TAKE n \in 0 .. m
  <2>1. n \in Nat
    BY <1>0
  <2>2. b[n] \in Good(n)
    <3> HIDE DEF V, Good, m
    <3> QED  BY <1>1, <1>11, <2>1
  <2> HIDE DEF U, m
  <2> QED  BY <2>2
<1> DEFINE Same(n) == \A i \in 1 .. n : b[n][1][i] = part(i, b[i - 1][2])[1]
           X == {n \in Nat : n <= m => Same(n)}
<1>13. \A n \in Nat : n \in X
  <2> HIDE DEF U, m, part
  <2>1. 0 \in X
    OBVIOUS
  <2>2. ASSUME NEW n \in Nat, n \in X PROVE n + 1 \in X
    <3> SUFFICES ASSUME n + 1 <= m, NEW i \in 1 .. n + 1
                 PROVE  b[n + 1][1][i] = part(i, b[i - 1][2])[1]
      OBVIOUS
    <3>1. n + 1 \in 1 .. m /\ (n + 1) - 1 = n /\ n \in 0 .. m /\ n + 1 \in 0 .. m
      BY <1>0
    <3> DEFINE p == part(n + 1, b[n][2])[1]
    <3>2. b[n + 1][1] = Append(b[n][1], p)
      BY <1>10, <3>1
    <3>3. b[n][1] \in Seq(U) /\ Len(b[n][1]) = n /\ b[n + 1][1] \in Seq(U) /\ Len(b[n + 1][1]) = n + 1
      BY <1>12, <3>1
    <3>4. CASE i = n + 1
      <4>1. Append(b[n][1], p)[n + 1] = p
        <5> HIDE DEF p
        <5> QED  BY <3>3
      <4> QED  BY <3>2, <3>4, <4>1, <3>1
    <3>5. CASE i # n + 1
      <4>1. i \in 1 .. n
        BY <3>5
      <4>2. Append(b[n][1], p)[i] = b[n][1][i]
        <5> HIDE DEF p
        <5> QED  BY <3>3, <4>1
      <4>3. Same(n)
        BY <2>2, <3>1
      <4> QED  BY <3>2, <4>1, <4>2, <4>3
    <3> QED  BY <3>4, <3>5
  <2> HIDE DEF X
  <2> QED  BY <2>1, <2>2, Inductive
<1>14. \A n \in 0 .. m : /\ b[n][2] \in SUBSET I /\ visited \subseteq b[n][2]
                         /\ b[n][1] \in Seq({b[n][1][i] : i \in 1 .. n})
                         /\ Len(b[n][1]) = n /\ Same(n)
  <2> TAKE n \in 0 .. m
  <2>1. n \in Nat /\ n <= m
    BY <1>0
  <2> HIDE DEF m, Same
  <2>2. Same(n)
    BY <1>13, <2>1
  <2> HIDE DEF U, X
  <2>3. b[n][1] \in Seq(U) /\ Len(b[n][1]) = n
    BY <1>12
  <2>4. b[n][1] \in Seq({b[n][1][i] : i \in 1 .. n})
    BY <2>3
  <2> QED  BY <1>12, <2>2, <2>4
<1>15. \A n \in 1 .. m : LET p == Call(node, list[n], b[n - 1][2])
                         IN  b[n] = <<Append(b[n - 1][1], p[1]), p[2]>>
  <2> HIDE DEF m
  <2> QED  BY <1>10
<1>16. \A n \in 0 .. m :
         /\ b[n][2] \in SUBSET I /\ visited \subseteq b[n][2]
         /\ b[n][1] \in Seq({b[n][1][i] : i \in 1 .. n}) /\ Len(b[n][1]) = n
         /\ \A i \in 1 .. n : b[n][1][i] = Call(node, list[i], b[i - 1][2])[1]
  <2> TAKE n \in 0 .. m
  <2>1. Same(n)
    <3> HIDE DEF m, Same
    <3> QED  BY <1>14
  <2> HIDE DEF m, Same
  <2>2. \A i \in 1 .. n : b[n][1][i] = Call(node, list[i], b[i - 1][2])[1]
    BY <2>1 DEF Same
  <2> QED  BY <1>14, <2>2
<1>17. b[0] = <<<<>>, visited>>
  BY <1>9
<1>18. BuiltRuns(b, node, list, visited, I)
  <2> HIDE DEF next, part, Same, base
  <2> QED  BY <1>15, <1>16, <1>17 DEF BuiltRuns
<1> QED  BY <1>7, <1>18

\* Both make the same calls for a list.
Agree(node, other, list, visited, I) ==
  \A i \in 1 .. Len(list) : \A W \in SUBSET I :
    visited \subseteq W => Call(other, list[i], W) = Call(node, list[i], W)

\* The nodes of a list depend on the calls for its actors alone.
LEMMA SameBuilt ==
  ASSUME NEW node, NEW other, NEW S, NEW list \in Seq(S), NEW I, NEW visited \in SUBSET I,
         Grows(node, list, visited, I), Agree(node, other, list, visited, I)
  PROVE  Built(other, list, visited)[Len(list)] = Built(node, list, visited)[Len(list)]
<1> DEFINE m == Len(list)
           b == Built(node, list, visited)
           d == Built(other, list, visited)
           V == [n \in 0 .. m |-> {b[n]}]
<1>0. m \in Nat
  OBVIOUS
<1>1. Grows(other, list, visited, I)
  BY DEF Grows, Agree
<1>2. /\ b[0] = <<<<>>, visited>>
      /\ \A n \in 1 .. m : LET p == Call(node, list[n], b[n - 1][2])
                           IN  b[n] = <<Append(b[n - 1][1], p[1]), p[2]>>
      /\ \A n \in 0 .. m : b[n][2] \in SUBSET I /\ visited \subseteq b[n][2]
  <2>1. BuiltRuns(b, node, list, visited, I)
    BY Builds
  <2> HIDE DEF b
  <2> QED  BY <2>1 DEF BuiltRuns
<1>3. /\ d[0] = <<<<>>, visited>>
      /\ \A n \in 1 .. m : LET p == Call(other, list[n], d[n - 1][2])
                           IN  d[n] = <<Append(d[n - 1][1], p[1]), p[2]>>
  <2>1. BuiltRuns(d, other, list, visited, I)
    BY <1>1, Builds
  <2> HIDE DEF d
  <2> QED  BY <2>1 DEF BuiltRuns
<1> HIDE DEF b, d
<1>4. d[0] \in V[0]
  BY <1>0, <1>2, <1>3
<1>5. ASSUME NEW n \in 1 .. m, d[n - 1] \in V[n - 1] PROVE d[n] \in V[n]
  <2>1. n - 1 \in 0 .. m /\ n \in 0 .. m
    BY <1>0
  <2>2. d[n - 1] = b[n - 1]
    <3> HIDE DEF m
    <3> QED  BY <1>5, <2>1
  <2>3. Call(other, list[n], d[n - 1][2]) = Call(node, list[n], b[n - 1][2])
    <3>1. b[n - 1][2] \in SUBSET I /\ visited \subseteq b[n - 1][2]
      BY <1>2, <2>1
    <3> QED  BY <2>2, <3>1 DEF Agree
  <2>4. d[n] = b[n]
    BY <1>2, <1>3, <2>2, <2>3
  <2> HIDE DEF m
  <2> QED  BY <2>1, <2>4
<1>6. d[m] \in V[m]
  <2>1. \A n \in 0 .. m : d[n] \in V[n]
    <3> HIDE DEF V, m
    <3> QED  BY <1>0, <1>4, <1>5, Followed
  <2> HIDE DEF V, m
  <2> QED  BY <1>0, <2>1
<1>7. d[m] = b[m]
  <2> HIDE DEF m
  <2> QED  BY <1>0, <1>6
<1> QED  BY <1>7 DEF b, d

\* The actors of a list are its alone, by their ids.
Listed(actors) ==
  /\ actors \in Seq(ToSet(actors)) /\ Distinct(actors)
  /\ \A a, b \in ToSet(actors) : a.id = b.id => a = b
  /\ \A a \in ToSet(actors) : NoId # a.id
NodeOf(actors) ==
  CHOOSE node : node = [s \in ToSet(actors) \X SUBSET Ids(actors) |-> buildNode(node, actors, s[1], s[2])]

LEMMA IdsListed ==
  ASSUME NEW actors, Listed(actors)
  PROVE  /\ \A x : x \in Ids(actors) <=> \E a \in ToSet(actors) : x = a.id
         /\ IsFiniteSet(Ids(actors)) /\ Cardinality(Ids(actors)) \in Nat
         /\ Cardinality(Ids(actors)) <= Len(actors)
<1> DEFINE f == [i \in 1 .. Len(actors) |-> actors[i].id]
<1>1. actors \in Seq(ToSet(actors)) /\ Len(actors) \in Nat /\ DOMAIN actors = 1 .. Len(actors)
  BY DEF Listed
<1>2. \A x : x \in ToSet(actors) <=> \E i \in 1 .. Len(actors) : x = actors[i]
  BY <1>1, ToSetOf
<1>3. Ids(actors) = {actors[i].id : i \in 1 .. Len(actors)}
  BY <1>1 DEF Ids
<1>4. \A x : x \in Ids(actors) <=> \E a \in ToSet(actors) : x = a.id
  BY <1>2, <1>3
<1>5. f \in Surjection(1 .. Len(actors), Ids(actors))
  BY <1>3 DEF Surjection
<1>6. IsFiniteSet(1 .. Len(actors)) /\ Cardinality(1 .. Len(actors)) = Len(actors)
  <2>1. \A l \in Nat : IsFiniteSet(1 .. l) /\ Cardinality(1 .. l) = IF 1 > l THEN 0 ELSE l - 1 + 1
    BY FS_Interval
  <2>2. \A l \in Nat : (IF 1 > l THEN 0 ELSE l - 1 + 1) = l
    OBVIOUS
  <2> QED  BY <1>1, <2>1, <2>2
<1>7. IsFiniteSet(Ids(actors)) /\ Cardinality(Ids(actors)) <= Len(actors)
  <2> HIDE DEF f
  <2> QED  BY <1>5, <1>6, FS_Surjection
<1>8. Cardinality(Ids(actors)) \in Nat
  BY <1>7, FS_CardinalityType
<1> QED  BY <1>4, <1>7, <1>8

LEMMA ChildrenListed ==
  ASSUME NEW actors, Listed(actors), NEW id
  PROVE  /\ ChildrenOf(actors, id) \in Seq(ToSet(actors)) /\ Distinct(ChildrenOf(actors, id))
         /\ ToSet(ChildrenOf(actors, id)) = {c \in ToSet(actors) : c.parent = id}
<1> DEFINE K == {a \in ToSet(actors) : a.parent = id}
<1>1. actors \in Seq(ToSet(actors)) /\ Distinct(actors)
  BY DEF Listed
<1>2. ChildrenOf(actors, id) = filter(actors, K)
  BY DEF ChildrenOf
<1> HIDE DEF K
<1>3. /\ filter(actors, K) \in Seq(ToSet(actors)) /\ Distinct(filter(actors, K))
      /\ ToSet(filter(actors, K)) = ToSet(actors) \cap K
  BY <1>1, Filtered
<1>4. ToSet(actors) \cap K = K
  BY DEF K
<1> QED  BY <1>2, <1>3, <1>4 DEF K

\* The children of an actor that are still to be visited.
Unvisited(actors, a, V) == filter(ChildrenOf(actors, a.id), {c \in ToSet(actors) : c.id \notin V})

LEMMA UnvisitedListed ==
  ASSUME NEW actors, Listed(actors), NEW a, NEW V
  PROVE  LET list == Unvisited(actors, a, V)
         IN  /\ list \in Seq(ToSet(actors)) /\ Distinct(list)
             /\ ToSet(list) = {c \in ToSet(actors) : c.parent = a.id /\ c.id \notin V}
             /\ \A i \in 1 .. Len(list) : /\ list[i] \in ToSet(actors)
                                          /\ list[i].parent = a.id /\ list[i].id \notin V
<1> DEFINE K == {c \in ToSet(actors) : c.id \notin V}
           children == ChildrenOf(actors, a.id)
           list == filter(children, K)
<1>1. /\ children \in Seq(ToSet(actors))
      /\ Distinct(children)
      /\ ToSet(children) = {c \in ToSet(actors) : c.parent = a.id}
  BY ChildrenListed
<1>2. list \in Seq(ToSet(actors)) /\ Distinct(list) /\ ToSet(list) = ToSet(children) \cap K
  <2> HIDE DEF K, children
  <2> QED  BY <1>1, Filtered
<1>3. ToSet(list) = {c \in ToSet(actors) : c.parent = a.id /\ c.id \notin V}
  <2> HIDE DEF list, children
  <2> QED  BY <1>1, <1>2
<1>4. Unvisited(actors, a, V) = list
  BY DEF Unvisited
<1>5. \A i \in 1 .. Len(list) : list[i] \in ToSet(list)
  <2> HIDE DEF list
  <2> QED  BY <1>2, ToSetOf
<1> HIDE DEF list
<1> QED  BY <1>2, <1>3, <1>4, <1>5

\* With one id more there are fewer left.
LEMMA Fewer ==
  ASSUME NEW I, IsFiniteSet(I), NEW V \in SUBSET I, NEW W \in SUBSET I, V \subseteq W,
         NEW x \in I, x \notin V
  PROVE  /\ Cardinality(I \ V) \in Nat /\ Cardinality(I \ (W \cup {x})) \in Nat
         /\ Cardinality(I \ (W \cup {x})) < Cardinality(I \ V)
<1> DEFINE A == I \ V
           B == I \ (W \cup {x})
<1>1. A \in SUBSET I /\ B \in SUBSET A /\ A # B
  OBVIOUS
<1> HIDE DEF A, B
<1>2. IsFiniteSet(A) /\ IsFiniteSet(B)
  <2>1. IsFiniteSet(A)
    BY <1>1, FS_Subset
  <2> QED  BY <1>1, <2>1, FS_Subset
<1>3. Cardinality(A) \in Nat /\ Cardinality(B) \in Nat
  BY <1>2, FS_CardinalityType
<1>4. Cardinality(B) <= Cardinality(A) /\ Cardinality(A) # Cardinality(B)
  BY <1>1, <1>2, FS_Subset
<1>5. Cardinality(B) < Cardinality(A)
  BY <1>3, <1>4
<1> QED  BY <1>3, <1>5 DEF A, B

\* The nodes of actors are defined, whatever has been visited, and only visit more.
LEMMA Noded ==
  ASSUME NEW actors, Listed(actors)
  PROVE  \A a \in ToSet(actors) : \A V \in SUBSET Ids(actors) :
           /\ NodeOf(actors)[<<a, V>>] = buildNode(NodeOf(actors), actors, a, V)
           /\ NodeOf(actors)[<<a, V>>][2] \in SUBSET Ids(actors)
           /\ V \subseteq NodeOf(actors)[<<a, V>>][2]
<1> DEFINE I == Ids(actors)
           A == ToSet(actors)
           All == A \X SUBSET I
           At1(g, s) == buildNode(g, actors, s[1], s[2])
           Left(s) == Cardinality(I \ s[2])
           D(k) == {s \in All : Left(s) < k}
           Adds(g, s) == g[s][2] \in SUBSET I /\ s[2] \subseteq g[s][2]
           Solves(g, k) == /\ g = [s \in D(k) |-> At1(g, s)]
                           /\ \A s \in D(k) : Adds(g, s)
           X == {k \in Nat : \E g : Solves(g, k)}
<1>0. IsFiniteSet(I) /\ Cardinality(I) \in Nat /\ \A x : x \in I <=> \E a \in A : x = a.id
  BY IdsListed
<1>1. \A s \in All : /\ s = <<s[1], s[2]>> /\ s[1] \in A /\ s[2] \in SUBSET I
                     /\ Left(s) \in Nat /\ Left(s) < Cardinality(I) + 1
  <2> TAKE s \in All
  <2>1. s = <<s[1], s[2]>> /\ s[1] \in A /\ s[2] \in SUBSET I
    OBVIOUS
  <2>2. I \ s[2] \in SUBSET I
    OBVIOUS
  <2>3. IsFiniteSet(I \ s[2]) /\ Left(s) <= Cardinality(I)
    <3> HIDE DEF I, All
    <3> QED  BY <1>0, <2>2, FS_Subset
  <2>4. Left(s) \in Nat
    BY <2>3, FS_CardinalityType
  <2> HIDE DEF All, I, Left, A
  <2> QED  BY <1>0, <2>1, <2>3, <2>4
\* A node calls for what leaves less.
<1>2. ASSUME NEW k \in Nat, NEW s \in D(k + 1), NEW c \in A, c.id \notin s[2],
             NEW W \in SUBSET I, s[2] \subseteq W
      PROVE  <<c, W \cup {c.id}>> \in D(k)
  <2>1. s[2] \in SUBSET I /\ Left(s) \in Nat /\ Left(s) < k + 1
    BY <1>1
  <2>2. c.id \in I
    BY <1>0
  <2> DEFINE t == <<c, W \cup {c.id}>>
  <2>3. t \in All /\ t[2] = W \cup {c.id}
    <3> HIDE DEF A, I
    <3> QED  BY <2>2
  <2>4. Cardinality(I \ (W \cup {c.id})) \in Nat /\ Cardinality(I \ (W \cup {c.id})) < Left(s)
    <3> HIDE DEF I, A, D
    <3> QED  BY <1>0, <1>2, <2>1, <2>2, Fewer
  <2>5. Left(t) \in Nat /\ Left(t) < Left(s)
    <3> HIDE DEF t, I
    <3> QED  BY <2>3, <2>4
  <2>6. Left(t) < k
    <3> HIDE DEF t, I, Left
    <3> QED  BY <2>1, <2>5
  <2> HIDE DEF t, All, Left
  <2>7. t \in D(k)
    BY <2>3, <2>6
  <2> QED  BY <2>7 DEF t
<1>3. 0 \in X
  <2>1. D(0) = {}
    <3> HIDE DEF All, Left
    <3>1. \A l \in Nat : ~ (l < 0)
      OBVIOUS
    <3> QED  BY <1>1, <3>1
  <2>2. Solves([s \in {} |-> 0], 0)
    <3> HIDE DEF D, Adds
    <3> QED  BY <2>1
  <2> HIDE DEF Solves
  <2> QED  BY <2>2
\* Functions that agree on D(k) build what is in D(k + 1) alike.
<1>4. ASSUME NEW k \in Nat, NEW g, \A s \in D(k) : Adds(g, s), NEW s \in D(k + 1)
      PROVE  /\ At1(g, s)[2] \in SUBSET I /\ s[2] \subseteq At1(g, s)[2]
             /\ \A h : (\A x \in D(k) : h[x] = g[x]) => At1(h, s) = At1(g, s)
  <2> DEFINE V == s[2]
             list == Unvisited(actors, s[1], V)
  <2>1. V \in SUBSET I /\ s[1] \in A
    BY <1>1
  <2>2. list \in Seq(A) /\ \A i \in 1 .. Len(list) : list[i] \in A /\ list[i].id \notin V
    BY UnvisitedListed
  <2>3. ASSUME NEW i \in 1 .. Len(list), NEW W \in SUBSET I, V \subseteq W
        PROVE  <<list[i], W \cup {list[i].id}>> \in D(k)
    <3>1. list[i] \in A /\ list[i].id \notin s[2] /\ s[2] \subseteq W
      BY <2>2, <2>3
    <3> HIDE DEF list, D, A, I
    <3> QED  BY <1>2, <3>1
  <2>4. Grows(g, list, V, I)
    <3> SUFFICES ASSUME NEW i \in 1 .. Len(list), NEW W \in SUBSET I, V \subseteq W
                 PROVE  /\ Call(g, list[i], W)[2] \in SUBSET I
                        /\ W \cup {list[i].id} \subseteq Call(g, list[i], W)[2]
      BY DEF Grows
    <3> DEFINE t == <<list[i], W \cup {list[i].id}>>
    <3>1. t \in D(k) /\ t[2] = W \cup {list[i].id} /\ g[t] = Call(g, list[i], W)
      <4>1. t \in D(k)
        <5> HIDE DEF D, list, V
        <5> QED  BY <2>3
      <4> QED  BY <4>1 DEF Call
    <3>2. Adds(g, t)
      <4> HIDE DEF t, D, Adds
      <4> QED  BY <1>4, <3>1
    <3> HIDE DEF t, D, list, V, I
    <3> QED  BY <3>1, <3>2
  <2>5. \A f : At1(f, s) = <<[id |-> s[1].id, children |-> Built(f, list, V)[Len(list)][1]],
                             Built(f, list, V)[Len(list)][2]>>
    BY DEF buildNode, Unvisited
  <2>6. At1(g, s)[2] \in SUBSET I /\ V \subseteq At1(g, s)[2]
    <3> DEFINE b == Built(g, list, V)
    <3>1. BuiltRuns(b, g, list, V, I)
      <4> HIDE DEF list, V, I, A
      <4> QED  BY <2>1, <2>2, <2>4, Builds
    <3>2. Len(list) \in 0 .. Len(list)
      <4> HIDE DEF list
      <4> QED  BY <2>2
    <3>3. b[Len(list)][2] \in SUBSET I /\ V \subseteq b[Len(list)][2]
      <4> HIDE DEF b, list, V, I
      <4> QED  BY <3>1, <3>2 DEF BuiltRuns
    <3>4. At1(g, s)[2] = b[Len(list)][2]
      <4> HIDE DEF At1, list, V
      <4> QED  BY <2>5
    <3> HIDE DEF At1, b, list, V, I
    <3> QED  BY <3>3, <3>4
  <2>7. ASSUME NEW h, \A x \in D(k) : h[x] = g[x] PROVE At1(h, s) = At1(g, s)
    <3>1. ASSUME NEW i \in 1 .. Len(list), NEW W \in SUBSET I, V \subseteq W
          PROVE  Call(h, list[i], W) = Call(g, list[i], W)
      <4>1. <<list[i], W \cup {list[i].id}>> \in D(k)
        <5> HIDE DEF D, list, V
        <5> QED  BY <2>3, <3>1
      <4> HIDE DEF D, list, V
      <4> QED  BY <2>7, <4>1 DEF Call
    <3>2. Built(h, list, V)[Len(list)] = Built(g, list, V)[Len(list)]
      <4> HIDE DEF D, list, V, I, A
      <4>1. Agree(g, h, list, V, I)
        BY <3>1 DEF Agree
      <4> QED  BY <2>1, <2>2, <2>4, <4>1, SameBuilt
    <3> HIDE DEF At1, list, V
    <3> QED  BY <2>5, <3>2
  <2> HIDE DEF D, At1, I
  <2> QED  BY <2>6, <2>7
<1>5. ASSUME NEW k \in Nat, NEW s \in D(k) PROVE s \in D(k + 1)
  <2>1. Left(s) \in Nat /\ s \in All /\ Left(s) < k
    BY <1>1
  <2> HIDE DEF All, Left
  <2>2. Left(s) < k + 1
    BY <2>1
  <2> QED  BY <2>1, <2>2
<1>6. ASSUME NEW k \in Nat, k \in X PROVE k + 1 \in X
  <2>1. PICK g : Solves(g, k)
    <3> HIDE DEF Solves
    <3> QED  BY <1>6
  <2> DEFINE h == [s \in D(k + 1) |-> At1(g, s)]
  <2> HIDE DEF D, At1
  <2>2. \A s \in D(k) : h[s] = g[s]
    <3> TAKE s \in D(k)
    <3>1. g[s] = At1(g, s)
      BY <2>1
    <3> QED  BY <1>5, <3>1
  <2>3. \A s \in D(k) : Adds(g, s)
    BY <2>1
  <2>4. \A s \in D(k + 1) : h[s] = At1(g, s)
    OBVIOUS
  <2> HIDE DEF h
  <2>5. \A s \in D(k + 1) : At1(h, s) = At1(g, s) /\ At1(g, s)[2] \in SUBSET I /\ s[2] \subseteq At1(g, s)[2]
    <3> HIDE DEF Adds, I
    <3> QED  BY <1>4, <2>2, <2>3
  <2>6. h = [s \in D(k + 1) |-> At1(h, s)]
    BY <2>5 DEF h
  <2>7. \A s \in D(k + 1) : Adds(h, s)
    <3> HIDE DEF I
    <3> QED  BY <2>4, <2>5
  <2>8. Solves(h, k + 1)
    <3> HIDE DEF Adds
    <3> QED  BY <2>6, <2>7
  <2> HIDE DEF Solves
  <2> QED  BY <2>8
<1> DEFINE K == Cardinality(I) + 1
<1>7. K \in X
  <2>1. K \in Nat
    <3> HIDE DEF I
    <3> QED  BY <1>0
  <2> HIDE DEF X, K
  <2> QED  BY <1>3, <1>6, <2>1, Inductive
<1>8. D(K) = All
  <2> HIDE DEF All, I, Left
  <2> QED  BY <1>1
<1> DEFINE Solution(g) == g = [s \in All |-> At1(g, s)]
           node == CHOOSE g : Solution(g)
<1>9. Solution(node)
  <2>1. PICK g : Solves(g, K)
    <3> HIDE DEF Solves, K
    <3> QED  BY <1>7
  <2>2. Solution(g)
    <3> HIDE DEF D, At1, K, All, Adds
    <3> QED  BY <1>8, <2>1
  <2> HIDE DEF Solution
  <2> QED  BY <2>2
<1>10. NodeOf(actors) = node
  BY DEF NodeOf
<1> HIDE DEF node
<1>11. \A s \in All : node[s] = At1(node, s)
  <2> HIDE DEF At1, All
  <2> QED  BY <1>9
<1> DEFINE Y == {k \in Nat : \A s \in D(k) : Adds(node, s)}
<1>12. \A k \in Nat : k \in Y
  <2>1. 0 \in Y
    <3>1. D(0) = {}
      <4> HIDE DEF All, Left
      <4>1. \A l \in Nat : ~ (l < 0)
        OBVIOUS
      <4> QED  BY <1>1, <4>1
    <3> HIDE DEF D, Adds
    <3> QED  BY <3>1
  <2>2. ASSUME NEW k \in Nat, k \in Y PROVE k + 1 \in Y
    <3>1. \A s \in D(k) : Adds(node, s)
      <4> HIDE DEF D, Adds
      <4> QED  BY <2>2
    <3>2. \A s \in D(k + 1) : s \in All
      OBVIOUS
    <3> HIDE DEF D, At1, All
    <3>3. \A s \in D(k + 1) : At1(node, s)[2] \in SUBSET I /\ s[2] \subseteq At1(node, s)[2]
      <4> HIDE DEF Adds, I
      <4> QED  BY <1>4, <3>1
    <3>4. \A s \in D(k + 1) : Adds(node, s)
      <4> HIDE DEF I
      <4> QED  BY <1>11, <3>2, <3>3
    <3> HIDE DEF Adds
    <3> QED  BY <3>4
  <2> HIDE DEF Y
  <2> QED  BY <2>1, <2>2, Inductive
<1>13. \A s \in D(K) : Adds(node, s)
  <2>1. K \in Nat
    <3> HIDE DEF I
    <3> QED  BY <1>0
  <2> HIDE DEF K, D, Adds
  <2> QED  BY <1>12, <2>1
<1>14. ASSUME NEW a \in A, NEW V \in SUBSET I
       PROVE  /\ node[<<a, V>>] = buildNode(node, actors, a, V)
              /\ node[<<a, V>>][2] \in SUBSET I /\ V \subseteq node[<<a, V>>][2]
  <2> DEFINE s == <<a, V>>
  <2>1. s \in All /\ s[1] = a /\ s[2] = V
    OBVIOUS
  <2>2. node[s] = At1(node, s) /\ Adds(node, s)
    <3> HIDE DEF s, At1, All, D, K, Adds
    <3> QED  BY <1>8, <1>11, <1>13, <2>1
  <2> HIDE DEF s, All, I
  <2> QED  BY <2>1, <2>2 DEF s
<1> QED  BY <1>10, <1>14

-----------------------------------------------------------------------------
(* get_actor_tree: no child has been visited when its parent's node is built. *)

Rooted(actors, a) == a.parent = NoId \/ a.parent \notin Ids(actors)

\* What has been visited hangs from a root.
Down(actors, V) == \A x \in ToSet(actors) : x.id \in V => Rooted(actors, x) \/ x.parent \in V

\* a has been visited and its children have not.
Fresh(actors, a, V) ==
  /\ a \in ToSet(actors) /\ a.id \in V /\ V \in SUBSET Ids(actors) /\ Down(actors, V)
  /\ \A c \in ToSet(actors) : c.parent = a.id => c.id \notin V

\* What W adds to V hangs from R.
Under(actors, R, V, W) ==
  \A x \in ToSet(actors) : x.id \in W \ V => x.parent \in R \cup (W \ V)
UnderOrIn(actors, R, V, W) ==
  \A x \in ToSet(actors) : x.id \in W \ V => x.id \in R \/ x.parent \in R \cup (W \ V)

\* Roots, or children of one visited actor, which are still to come.
Ready(actors, list, V) ==
  /\ V \in SUBSET Ids(actors) /\ Down(actors, V)
  /\ list \in Seq(ToSet(actors)) /\ Distinct(list)
  /\ \A j \in 1 .. Len(list) :
       /\ \A c \in ToSet(actors) : c.parent = list[j].id => c.id \notin V
       /\ list[j].id \in V \/ list[j].parent \in V
       /\ \A i \in 1 .. Len(list) : list[j].parent # list[i].id

\* The calls for a list visit only what hangs from it.
Keeps(node, actors, list, V) ==
  \A i \in 1 .. Len(list) : \A W \in SUBSET Ids(actors) :
    V \subseteq W /\ Fresh(actors, list[i], W \cup {list[i].id}) =>
      Under(actors, {list[i].id}, W \cup {list[i].id}, Call(node, list[i], W)[2])

\* When R of the list has been built from V to W, e is next.
Next1(actors, R, e, V, W) ==
  /\ W \in SUBSET Ids(actors) /\ V \subseteq W /\ R \subseteq W /\ Down(actors, V)
  /\ UnderOrIn(actors, R, V, W)
  /\ e \in ToSet(actors) /\ e.id \notin R /\ e.parent \notin R \cup {e.id}
  /\ e.id \in V \/ e.parent \in V
  /\ \A c \in ToSet(actors) : c.parent = e.id => c.id \notin V \cup R
  /\ \A x \in ToSet(actors) : x.id \in R => x.id \in V \/ x.parent \in V

\* What visits in M only what hangs from e leaves it built.
Carried(actors, R, e, V, W) ==
  \A M \in SUBSET Ids(actors) :
    W \cup {e.id} \subseteq M /\ Under(actors, {e.id}, W \cup {e.id}, M) =>
      R \cup {e.id} \subseteq M /\ UnderOrIn(actors, R \cup {e.id}, V, M)

LEMMA NextIsFresh ==
  ASSUME NEW actors, Listed(actors), NEW R, NEW e, NEW V, NEW W, Next1(actors, R, e, V, W)
  PROVE  Fresh(actors, e, W \cup {e.id}) /\ Carried(actors, R, e, V, W)
<1> DEFINE A == ToSet(actors)
<1>0. \A x : x \in Ids(actors) <=> \E a \in A : x = a.id
  BY IdsListed
<1>1. \A a, b \in A : a.id = b.id => a = b
  BY DEF Listed
<1>2. \A a \in A : NoId # a.id
  BY DEF Listed
<1> USE DEF Next1
<1>3. e \in A /\ e.id \in Ids(actors)
  BY <1>0
<1>4. ASSUME NEW c \in A, c.parent = e.id PROVE c.id \notin W \cup {e.id}
  <2>1. ~ Rooted(actors, c)
    BY <1>2, <1>3, <1>4 DEF Rooted
  <2>2. c.id \notin V \cup R
    BY <1>4
  <2>3. c.id # e.id
    BY <1>1, <1>3, <1>4
  <2>4. ASSUME c.id \in W PROVE FALSE
    <3>1. e.id \in W \ V
      BY <1>4, <2>2, <2>4 DEF UnderOrIn
    <3>2. e.parent \in V
      BY <3>1
    <3> QED  BY <1>3, <3>1, <3>2 DEF UnderOrIn
  <2> QED  BY <2>3, <2>4
<1>5. Down(actors, W \cup {e.id})
  <2> SUFFICES ASSUME NEW x \in A, x.id \in W \cup {e.id}, ~ Rooted(actors, x)
               PROVE  x.parent \in W \cup {e.id}
    BY DEF Down
  <2>1. CASE x.id \in V
    BY <2>1 DEF Down
  <2>2. CASE x.id \in W \ V
    <3>1. x.id \in R \/ x.parent \in R \cup (W \ V)
      BY <2>2 DEF UnderOrIn
    <3> QED  BY <2>2, <3>1
  <2>3. CASE x.id = e.id
    <3>1. x = e
      BY <1>1, <1>3, <2>3
    <3>2. CASE e.id \in V
      BY <2>1, <3>1, <3>2
    <3> QED  BY <3>1, <3>2 DEF Down
  <2> QED  BY <2>1, <2>2, <2>3
<1>6. Fresh(actors, e, W \cup {e.id})
  <2>1. W \cup {e.id} \in SUBSET Ids(actors)
    BY <1>3
  <2> QED  BY <1>3, <1>4, <1>5, <2>1 DEF Fresh
<1>7. ASSUME NEW M \in SUBSET Ids(actors), W \cup {e.id} \subseteq M,
             Under(actors, {e.id}, W \cup {e.id}, M)
      PROVE  R \cup {e.id} \subseteq M /\ UnderOrIn(actors, R \cup {e.id}, V, M)
  <2>1. R \cup {e.id} \subseteq M
    BY <1>7
  <2> SUFFICES ASSUME NEW x \in A, x.id \in M \ V, x.id \notin R \cup {e.id}
               PROVE  x.parent \in (R \cup {e.id}) \cup (M \ V)
    BY <2>1 DEF UnderOrIn
  <2>2. CASE x.id \in W
    <3>1. x.parent \in R \cup (W \ V)
      BY <2>2 DEF UnderOrIn
    <3> QED  BY <1>7, <3>1
  <2>3. CASE x.id \notin W
    <3>1. x.parent \in {e.id} \cup (M \ (W \cup {e.id}))
      BY <1>7, <2>3 DEF Under
    <3> QED  BY <3>1
  <2> QED  BY <2>2, <2>3
<1> QED  BY <1>6, <1>7 DEF Carried

\* b builds each actor of the list freshly, and visits what hangs from them.
BuiltFresh(b, actors, list, V) ==
  /\ \A i \in 1 .. Len(list) : Fresh(actors, list[i], b[i - 1][2] \cup {list[i].id})
  /\ {list[i].id : i \in 1 .. Len(list)} \subseteq b[Len(list)][2]
  /\ UnderOrIn(actors, {list[i].id : i \in 1 .. Len(list)}, V, b[Len(list)][2])

LEMMA ListFresh ==
  ASSUME NEW actors, Listed(actors), NEW node, NEW list, NEW V, Ready(actors, list, V),
         Grows(node, list, V, Ids(actors)), Keeps(node, actors, list, V)
  PROVE  BuiltFresh(Built(node, list, V), actors, list, V)
<1> DEFINE b == Built(node, list, V)
           m == Len(list)
           R(n) == {list[i].id : i \in 1 .. n}
           Q(n) == R(n) \subseteq b[n][2] /\ UnderOrIn(actors, R(n), V, b[n][2])
           X == {n \in Nat : n <= m => Q(n)}
<1>0. /\ V \in SUBSET Ids(actors) /\ Down(actors, V)
      /\ list \in Seq(ToSet(actors)) /\ Distinct(list) /\ m \in Nat
      /\ \A i \in 1 .. m : list[i] \in ToSet(actors)
  BY DEF Ready
<1>1. BuiltRuns(b, node, list, V, Ids(actors))
  BY <1>0, Builds
<1> HIDE DEF b
<1>2. /\ b[0][2] = V
      /\ \A n \in 1 .. m : b[n][2] = Call(node, list[n], b[n - 1][2])[2]
      /\ \A n \in 0 .. m : b[n][2] \in SUBSET Ids(actors) /\ V \subseteq b[n][2]
  <2>1. b[0][2] = V
    BY <1>1 DEF BuiltRuns
  <2>2. ASSUME NEW n \in 1 .. m PROVE b[n][2] = Call(node, list[n], b[n - 1][2])[2]
    <3> DEFINE p == Call(node, list[n], b[n - 1][2])
    <3>1. b[n] = <<Append(b[n - 1][1], p[1]), p[2]>>
      BY <1>1 DEF BuiltRuns
    <3> HIDE DEF p
    <3>2. b[n][2] = p[2]
      BY <3>1
    <3> QED  BY <3>2 DEF p
  <2>3. \A n \in 0 .. m : b[n][2] \in SUBSET Ids(actors) /\ V \subseteq b[n][2]
    BY <1>1 DEF BuiltRuns
  <2> HIDE DEF m
  <2> QED  BY <2>1, <2>2, <2>3
\* The n-th actor is next when those before it are built.
<1>3. ASSUME NEW n \in 1 .. m, Q(n - 1)
      PROVE  Next1(actors, R(n - 1), list[n], V, b[n - 1][2])
  <2>1. n - 1 \in 0 .. m /\ \A i \in 1 .. n - 1 : i \in 1 .. m /\ i # n
    BY <1>0
  <2>2. b[n - 1][2] \in SUBSET Ids(actors) /\ V \subseteq b[n - 1][2]
    BY <1>2, <2>1
  <2>3. \A x \in R(n - 1) : \E i \in 1 .. m : i # n /\ x = list[i].id
    BY <2>1
  <2>4. list[n] \in ToSet(actors)
    BY <1>0
  <2>5. \A i \in 1 .. m : i # n => list[i].id # list[n].id
    <3> TAKE i \in 1 .. m
    <3>1. list[i] \in ToSet(actors)
      BY <1>0
    <3> HIDE DEF m
    <3> QED  BY <1>0, <2>4, <3>1 DEF Listed, Distinct, m
  <2>6. list[n].id \notin R(n - 1)
    <3> HIDE DEF R, m
    <3> QED  BY <2>3, <2>5
  <2>7. /\ \A c \in ToSet(actors) : c.parent = list[n].id => c.id \notin V
        /\ list[n].id \in V \/ list[n].parent \in V
        /\ \A i \in 1 .. m : list[n].parent # list[i].id
    BY DEF Ready
  <2>8. list[n].parent \notin R(n - 1) \cup {list[n].id}
    <3> HIDE DEF R, m
    <3> QED  BY <2>3, <2>7
  <2>9. ASSUME NEW x \in ToSet(actors), x.id \in R(n - 1)
        PROVE  x.parent # list[n].id /\ (x.id \in V \/ x.parent \in V)
    <3>1. PICK i \in 1 .. m : x.id = list[i].id
      <4> HIDE DEF R, m
      <4> QED  BY <2>3, <2>9
    <3>2. x = list[i]
      <4>1. list[i] \in ToSet(actors)
        BY <1>0
      <4> QED  BY <3>1, <4>1 DEF Listed
    <3>3. list[i].id \in V \/ list[i].parent \in V
      BY DEF Ready
    <3>4. list[i].parent # list[n].id
      BY DEF Ready
    <3> QED  BY <3>2, <3>3, <3>4
  <2> HIDE DEF R, m
  <2>10. \A c \in ToSet(actors) : c.parent = list[n].id => c.id \notin V \cup R(n - 1)
    BY <2>7, <2>9
  <2> QED  BY <1>0, <1>3, <2>2, <2>4, <2>6, <2>7, <2>8, <2>9, <2>10 DEF Next1
<1>4. ASSUME NEW n \in 1 .. m, Q(n - 1)
      PROVE  Fresh(actors, list[n], b[n - 1][2] \cup {list[n].id}) /\ Q(n)
  <2> DEFINE W == b[n - 1][2]
             M == b[n][2]
             e == list[n]
  <2>1. n - 1 \in 0 .. m /\ n \in 0 .. m
    BY <1>0
  <2>2. Next1(actors, R(n - 1), e, V, W)
    <3> HIDE DEF R, m, Q
    <3> QED  BY <1>3, <1>4
  <2>3. R(n) = R(n - 1) \cup {e.id}
    <3>1. \A i : i \in 1 .. n <=> i \in 1 .. n - 1 \/ i = n
      BY <1>0
    <3> QED  BY <3>1
  <2>4. W \in SUBSET Ids(actors) /\ V \subseteq W /\ M = Call(node, e, W)[2] /\ M \in SUBSET Ids(actors)
    <3> HIDE DEF m
    <3> QED  BY <1>2, <2>1
  <2>5. W \cup {e.id} \subseteq M
    <3> HIDE DEF W, M
    <3> QED  BY <2>4 DEF Grows
  <2>6. Fresh(actors, e, W \cup {e.id})
    <3> HIDE DEF W, M, R
    <3> QED  BY <2>2, NextIsFresh
  <2>7. Under(actors, {e.id}, W \cup {e.id}, M)
    <3> HIDE DEF W, M
    <3> QED  BY <2>4, <2>6 DEF Keeps
  <2>8. R(n - 1) \cup {e.id} \subseteq M /\ UnderOrIn(actors, R(n - 1) \cup {e.id}, V, M)
    <3>1. Carried(actors, R(n - 1), e, V, W)
      <4> HIDE DEF W, R
      <4> QED  BY <2>2, NextIsFresh
    <3> HIDE DEF W, M, R
    <3> QED  BY <2>4, <2>5, <2>7, <3>1 DEF Carried
  <2> HIDE DEF R
  <2> QED  BY <2>3, <2>6, <2>8
<1>5. \A n \in Nat : n \in X
  <2>1. 0 \in X
    <3>1. R(0) = {}
      OBVIOUS
    <3>2. UnderOrIn(actors, R(0), V, b[0][2])
      <4> HIDE DEF R
      <4> QED  BY <1>2 DEF UnderOrIn
    <3> HIDE DEF R
    <3> QED  BY <3>1, <3>2
  <2>2. ASSUME NEW n \in Nat, n \in X PROVE n + 1 \in X
    <3> SUFFICES ASSUME n + 1 <= m PROVE Q(n + 1)
      OBVIOUS
    <3>1. n + 1 \in 1 .. m /\ (n + 1) - 1 = n /\ n <= m
      BY <1>0
    <3>2. Q((n + 1) - 1)
      <4> HIDE DEF Q, m
      <4> QED  BY <2>2, <3>1
    <3> HIDE DEF Q, m
    <3> QED  BY <1>4, <3>1, <3>2
  <2> HIDE DEF X
  <2> QED  BY <2>1, <2>2, Inductive
<1>6. \A n \in 0 .. m : Q(n)
  <2> TAKE n \in 0 .. m
  <2>1. n \in Nat /\ n <= m
    BY <1>0
  <2> HIDE DEF Q, m
  <2> QED  BY <1>5, <2>1
<1>7. \A n \in 1 .. m : Fresh(actors, list[n], b[n - 1][2] \cup {list[n].id})
  <2> TAKE n \in 1 .. m
  <2>1. n - 1 \in 0 .. m
    BY <1>0
  <2> HIDE DEF Q, m
  <2> QED  BY <1>4, <1>6, <2>1
<1>8. m \in 0 .. m
  BY <1>0
<1>9. Q(m)
  <2> HIDE DEF Q, m
  <2> QED  BY <1>6, <1>8
<1> QED  BY <1>7, <1>9 DEF BuiltFresh, b

\* The children of an actor whose children are not visited are ready to be built.
LEMMA ChildrenReady ==
  ASSUME NEW actors, Listed(actors), NEW a, NEW V, Fresh(actors, a, V)
  PROVE  Ready(actors, Unvisited(actors, a, V), V)
<1> DEFINE list == Unvisited(actors, a, V)
<1>1. /\ list \in Seq(ToSet(actors)) /\ Distinct(list)
      /\ \A i \in 1 .. Len(list) : list[i] \in ToSet(actors) /\ list[i].parent = a.id /\ list[i].id \notin V
  BY UnvisitedListed
<1>2. V \in SUBSET Ids(actors) /\ Down(actors, V) /\ a.id \in V
  BY DEF Fresh
<1> HIDE DEF list
<1>3. ASSUME NEW j \in 1 .. Len(list), NEW c \in ToSet(actors), c.parent = list[j].id
      PROVE  c.id \notin V
  <2>1. list[j] \in ToSet(actors) /\ list[j].id \notin V
    BY <1>1
  <2>2. list[j].id \in Ids(actors) /\ NoId # list[j].id
    BY <2>1, IdsListed DEF Listed
  <2> QED  BY <1>2, <1>3, <2>1, <2>2 DEF Down, Rooted
<1>4. Ready(actors, list, V)
  BY <1>1, <1>2, <1>3 DEF Ready
<1> QED  BY <1>4 DEF list

\* A node calls for a list as it grows.
LEMMA NodesGrow ==
  ASSUME NEW actors, Listed(actors), NEW list \in Seq(ToSet(actors)), NEW V
  PROVE  Grows(NodeOf(actors), list, V, Ids(actors))
<1> SUFFICES ASSUME NEW i \in 1 .. Len(list), NEW W \in SUBSET Ids(actors), V \subseteq W
             PROVE  LET r == Call(NodeOf(actors), list[i], W)[2]
                    IN  r \in SUBSET Ids(actors) /\ W \cup {list[i].id} \subseteq r
  BY DEF Grows
<1>1. list[i] \in ToSet(actors)
  OBVIOUS
<1>2. W \cup {list[i].id} \in SUBSET Ids(actors)
  BY <1>1, IdsListed
<1> DEFINE M == W \cup {list[i].id}
<1>3. /\ NodeOf(actors)[<<list[i], M>>][2] \in SUBSET Ids(actors)
      /\ M \subseteq NodeOf(actors)[<<list[i], M>>][2]
  <2> HIDE DEF M
  <2>1. M \in SUBSET Ids(actors)
    BY <1>2 DEF M
  <2> QED  BY <1>1, <2>1, Noded
<1> QED  BY <1>3 DEF Call

\* A node visits only what hangs from its actor.
LEMMA NodesKeep ==
  ASSUME NEW actors, Listed(actors)
  PROVE  \A a, V : Fresh(actors, a, V) => Under(actors, {a.id}, V, NodeOf(actors)[<<a, V>>][2])
<1> DEFINE I == Ids(actors)
           node == NodeOf(actors)
           Left(V) == Cardinality(I \ V)
           X == {k \in Nat : \A a \in ToSet(actors), V \in SUBSET I :
                   Left(V) < k /\ Fresh(actors, a, V) => Under(actors, {a.id}, V, node[<<a, V>>][2])}
<1>0. IsFiniteSet(I) /\ Cardinality(I) \in Nat
  BY IdsListed
<1>1. \A V \in SUBSET I : Left(V) \in Nat /\ Left(V) < Cardinality(I) + 1
  <2> TAKE V \in SUBSET I
  <2>1. IsFiniteSet(I \ V) /\ Left(V) <= Cardinality(I)
    <3>1. I \ V \in SUBSET I
      OBVIOUS
    <3> HIDE DEF I
    <3> QED  BY <1>0, <3>1, FS_Subset
  <2>2. Left(V) \in Nat
    BY <2>1, FS_CardinalityType
  <2> HIDE DEF I, Left
  <2> QED  BY <1>0, <2>1, <2>2
<1>2. 0 \in X
  <2>1. \A l \in Nat : ~ (l < 0)
    OBVIOUS
  <2>2. \A V \in SUBSET I : ~ (Left(V) < 0)
    <3> HIDE DEF I, Left
    <3> QED  BY <1>1, <2>1
  <2> HIDE DEF I, Left, node
  <2> QED  BY <2>2
<1>3. ASSUME NEW k \in Nat, k \in X PROVE k + 1 \in X
  <2> SUFFICES ASSUME NEW a \in ToSet(actors), NEW V \in SUBSET I, Left(V) < k + 1, Fresh(actors, a, V)
               PROVE  Under(actors, {a.id}, V, node[<<a, V>>][2])
    <3> HIDE DEF I, Left, node
    <3> QED  OBVIOUS
  <2> DEFINE list == Unvisited(actors, a, V)
             b == Built(node, list, V)
             M == b[Len(list)][2]
  <2>1. /\ list \in Seq(ToSet(actors))
        /\ \A i \in 1 .. Len(list) : list[i] \in ToSet(actors) /\ list[i].parent = a.id /\ list[i].id \notin V
    BY UnvisitedListed
  <2>2. Ready(actors, list, V)
    BY ChildrenReady
  <2>3. Grows(node, list, V, I)
    <3> HIDE DEF list
    <3> QED  BY <2>1, NodesGrow
  <2>4. Keeps(node, actors, list, V)
    <3> SUFFICES ASSUME NEW i \in 1 .. Len(list), NEW W \in SUBSET I, V \subseteq W,
                        Fresh(actors, list[i], W \cup {list[i].id})
                 PROVE  Under(actors, {list[i].id}, W \cup {list[i].id}, Call(node, list[i], W)[2])
      BY DEF Keeps
    <3> DEFINE N == W \cup {list[i].id}
    <3>1. list[i] \in ToSet(actors) /\ list[i].id \notin V /\ list[i].id \in I /\ N \in SUBSET I
      <4>1. list[i] \in ToSet(actors) /\ list[i].id \notin V
        BY <2>1
      <4>2. list[i].id \in I
        <5> HIDE DEF list
        <5> QED  BY <4>1, IdsListed
      <4> HIDE DEF list, I
      <4> QED  BY <4>1, <4>2
    <3>2. Left(N) \in Nat /\ Left(V) \in Nat /\ Left(N) < Left(V)
      <4> HIDE DEF list, I
      <4> QED  BY <1>0, <3>1, Fewer
    <3>3. Left(N) < k
      <4> HIDE DEF N, Left, I
      <4> QED  BY <3>2
    <3>4. Under(actors, {list[i].id}, N, node[<<list[i], N>>][2])
      <4>1. Fresh(actors, list[i], N)
        OBVIOUS
      <4> HIDE DEF N, Left, I, list, node
      <4> QED  BY <1>3, <3>1, <3>3, <4>1
    <3> QED  BY <3>4 DEF Call
  <2>5. BuiltFresh(b, actors, list, V)
    <3> HIDE DEF list, node
    <3> QED  BY <2>2, <2>3, <2>4, ListFresh
  <2>6. node[<<a, V>>][2] = M
    <3>1. node[<<a, V>>] = buildNode(node, actors, a, V)
      BY Noded
    <3> HIDE DEF node
    <3> QED  BY <3>1 DEF buildNode, Unvisited
  <2> DEFINE R == {list[i].id : i \in 1 .. Len(list)}
  <2>7. R \subseteq M /\ UnderOrIn(actors, R, V, M)
    <3> HIDE DEF b, list
    <3> QED  BY <2>5 DEF BuiltFresh
  <2>8. R \cap V = {}
    <3> HIDE DEF list
    <3> QED  BY <2>1
  <2>9. ASSUME NEW x \in ToSet(actors), x.id \in R PROVE x.parent = a.id
    <3>1. PICK i \in 1 .. Len(list) : x.id = list[i].id
      BY <2>9
    <3>2. list[i] \in ToSet(actors) /\ list[i].parent = a.id
      BY <2>1
    <3> QED  BY <3>1, <3>2 DEF Listed
  <2>10. Under(actors, {a.id}, V, M)
    <3> HIDE DEF R, M
    <3> QED  BY <2>7, <2>8, <2>9 DEF Under, UnderOrIn
  <2> HIDE DEF M
  <2> QED  BY <2>6, <2>10
<1>4. ASSUME NEW a, NEW V, Fresh(actors, a, V)
      PROVE  Under(actors, {a.id}, V, node[<<a, V>>][2])
  <2>1. a \in ToSet(actors) /\ V \in SUBSET I
    BY <1>4 DEF Fresh
  <2> DEFINE K == Cardinality(I) + 1
  <2>2. K \in Nat
    <3> HIDE DEF I
    <3> QED  BY <1>0
  <2>3. K \in X
    <3> HIDE DEF X, K
    <3> QED  BY <1>2, <1>3, <2>2, Inductive
  <2>4. Left(V) < K
    <3> HIDE DEF I, Left
    <3> QED  BY <1>1, <2>1
  <2> HIDE DEF I, Left, K, node
  <2> QED  BY <1>4, <2>1, <2>3, <2>4
<1> QED  BY <1>4

-----------------------------------------------------------------------------
(* get_actor_tree: what a node shows. *)

\* A node of an actor that is built when k ids or more have been visited.
PlacedNode(actors, t, k) ==
  \E a, V : Fresh(actors, a, V) /\ k <= Cardinality(V) /\ t = NodeOf(actors)[<<a, V>>][1]

\* The nodes of a list of actors, in their order.
Family(actors, nodes, list, k) ==
  /\ list \in Seq(ToSet(actors)) /\ Distinct(list)
  /\ Len(nodes) = Len(list) /\ DOMAIN nodes = 1 .. Len(list)
  /\ \A i \in 1 .. Len(list) : nodes[i].id = list[i].id /\ PlacedNode(actors, nodes[i], k)

LEMMA NodeShows ==
  ASSUME NEW actors, Listed(actors), NEW a \in ToSet(actors), NEW V \in SUBSET Ids(actors)
  PROVE  LET list == Unvisited(actors, a, V)
             node == NodeOf(actors)[<<a, V>>][1]
         IN  /\ node.id = a.id
             /\ node.children = Built(NodeOf(actors), list, V)[Len(list)][1]
<1>1. NodeOf(actors)[<<a, V>>] = buildNode(NodeOf(actors), actors, a, V)
  BY Noded
<1> QED  BY <1>1 DEF buildNode, Unvisited

LEMMA BuiltFamily ==
  ASSUME NEW actors, Listed(actors), NEW list, NEW V, Ready(actors, list, V), NEW k \in Nat,
         \A i \in 1 .. Len(list) : k <= Cardinality(V \cup {list[i].id})
  PROVE  Family(actors, Built(NodeOf(actors), list, V)[Len(list)][1], list, k)
<1> DEFINE node == NodeOf(actors)
           b == Built(node, list, V)
           m == Len(list)
           nodes == b[m][1]
<1>0. /\ list \in Seq(ToSet(actors)) /\ Distinct(list) /\ m \in Nat /\ V \in SUBSET Ids(actors)
      /\ \A i \in 1 .. m : list[i] \in ToSet(actors)
  BY DEF Ready
<1>1. Grows(node, list, V, Ids(actors))
  BY <1>0, NodesGrow
<1>2. Keeps(node, actors, list, V)
  BY NodesKeep DEF Keeps, Call
<1>3. BuiltFresh(b, actors, list, V)
  <2> HIDE DEF node
  <2> QED  BY <1>1, <1>2, ListFresh
<1>4. BuiltRuns(b, node, list, V, Ids(actors))
  <2> HIDE DEF node
  <2> QED  BY <1>0, <1>1, Builds
<1> HIDE DEF b
<1>5. m \in 0 .. m
  BY <1>0
<1>6. /\ nodes \in Seq({nodes[i] : i \in 1 .. m}) /\ Len(nodes) = m
      /\ \A i \in 1 .. m : nodes[i] = Call(node, list[i], b[i - 1][2])[1]
  BY <1>4, <1>5 DEF BuiltRuns
<1>7. ASSUME NEW i \in 1 .. m
      PROVE  nodes[i].id = list[i].id /\ PlacedNode(actors, nodes[i], k)
  <2> DEFINE W == b[i - 1][2] \cup {list[i].id}
  <2>1. Fresh(actors, list[i], W)
    <3> HIDE DEF m
    <3> QED  BY <1>3, <1>7 DEF BuiltFresh, m
  <2>2. list[i] \in ToSet(actors) /\ W \in SUBSET Ids(actors)
    <3> HIDE DEF W
    <3> QED  BY <2>1 DEF Fresh
  <2>3. nodes[i] = node[<<list[i], W>>][1]
    <3> HIDE DEF nodes, m
    <3> QED  BY <1>6 DEF Call
  <2>4. nodes[i].id = list[i].id
    <3>1. node[<<list[i], W>>][1].id = list[i].id
      <4> HIDE DEF W
      <4> QED  BY <2>2, NodeShows
    <3> HIDE DEF nodes, W, node
    <3> QED  BY <2>3, <3>1
  <2>5. k <= Cardinality(W)
    <3> DEFINE N == V \cup {list[i].id}
    <3>1. i - 1 \in 0 .. m
      BY <1>0
    <3>2. V \subseteq b[i - 1][2]
      <4> HIDE DEF m
      <4> QED  BY <1>4, <3>1 DEF BuiltRuns, m
    <3>3. N \in SUBSET W
      BY <3>2
    <3>4. k <= Cardinality(N)
      OBVIOUS
    <3> HIDE DEF N, W
    <3>5. IsFiniteSet(W)
      BY <2>2, IdsListed, FS_Subset
    <3>6. IsFiniteSet(N) /\ Cardinality(N) <= Cardinality(W)
      BY <3>3, <3>5, FS_Subset
    <3>7. Cardinality(N) \in Nat /\ Cardinality(W) \in Nat
      BY <3>5, <3>6, FS_CardinalityType
    <3> QED  BY <3>4, <3>6, <3>7
  <2> HIDE DEF W, nodes, m
  <2> QED  BY <2>1, <2>3, <2>4, <2>5 DEF PlacedNode
<1>8. DOMAIN nodes = 1 .. m
  <2> HIDE DEF nodes, m
  <2> QED  BY <1>6
<1>9. Family(actors, nodes, list, k)
  <2> HIDE DEF nodes
  <2> QED  BY <1>0, <1>6, <1>7, <1>8 DEF Family
<1> QED  BY <1>9 DEF b

\* A node shows its actor and the family of all its children, one level below it.
ShowsFamily(actors, t, k) ==
  \E a \in ToSet(actors) : \E list :
    /\ t.id = a.id /\ ToSet(list) = {c \in ToSet(actors) : c.parent = a.id}
    /\ Family(actors, t.children, list, k + 1)

LEMMA NodeFamily ==
  ASSUME NEW actors, Listed(actors), NEW t, NEW k \in Nat, PlacedNode(actors, t, k)
  PROVE  k <= Cardinality(Ids(actors)) /\ ShowsFamily(actors, t, k)
<1> PICK a, V : Fresh(actors, a, V) /\ k <= Cardinality(V) /\ t = NodeOf(actors)[<<a, V>>][1]
  BY DEF PlacedNode
<1> DEFINE list == Unvisited(actors, a, V)
<1>1. /\ a \in ToSet(actors) /\ a.id \in V /\ V \in SUBSET Ids(actors)
      /\ \A c \in ToSet(actors) : c.parent = a.id => c.id \notin V
  BY DEF Fresh
<1>2. IsFiniteSet(V) /\ Cardinality(V) <= Cardinality(Ids(actors))
  BY <1>1, IdsListed, FS_Subset
<1>3. Cardinality(V) \in Nat /\ Cardinality(Ids(actors)) \in Nat
  BY <1>2, IdsListed, FS_CardinalityType
<1>4. k <= Cardinality(Ids(actors))
  BY <1>2, <1>3
<1>5. /\ list \in Seq(ToSet(actors))
      /\ ToSet(list) = {c \in ToSet(actors) : c.parent = a.id /\ c.id \notin V}
      /\ \A i \in 1 .. Len(list) : list[i].id \notin V
  BY UnvisitedListed
<1>6. Ready(actors, list, V)
  BY ChildrenReady
<1>7. t.id = a.id /\ t.children = Built(NodeOf(actors), list, V)[Len(list)][1]
  BY <1>1, NodeShows
<1> HIDE DEF list
<1>8. ASSUME NEW i \in 1 .. Len(list) PROVE k + 1 <= Cardinality(V \cup {list[i].id})
  <2>1. Cardinality(V \cup {list[i].id}) = Cardinality(V) + 1
    BY <1>2, <1>5, FS_AddElement
  <2> QED  BY <1>3, <2>1
<1>9. Family(actors, t.children, list, k + 1)
  <2>1. k + 1 \in Nat
    OBVIOUS
  <2> QED  BY <1>6, <1>7, <1>8, <2>1, BuiltFamily
<1>10. ToSet(list) = {c \in ToSet(actors) : c.parent = a.id}
  BY <1>1, <1>5
<1> QED  BY <1>1, <1>4, <1>7, <1>9, <1>10 DEF ShowsFamily

\* The tree is the family of the roots.
LEMMA RootFamily ==
  ASSUME NEW actors, Listed(actors)
  PROVE  LET roots == Roots(actors)
         IN  /\ ToSet(roots) = {a \in ToSet(actors) : Rooted(actors, a)}
             /\ Family(actors, Built(NodeOf(actors), roots, Ids(roots))[Len(roots)][1], roots, 1)
<1> DEFINE K == {a \in ToSet(actors) : a.parent = NoId \/ a.parent \notin Ids(actors)}
           roots == filter(actors, K)
           V == Ids(roots)
<1>1. Roots(actors) = roots
  BY DEF Roots
<1>2. /\ roots \in Seq(ToSet(actors))
      /\ Distinct(roots)
      /\ ToSet(roots) = {a \in ToSet(actors) : Rooted(actors, a)}
  <2>1. actors \in Seq(ToSet(actors)) /\ Distinct(actors)
    BY DEF Listed
  <2> HIDE DEF K
  <2>2. roots \in Seq(ToSet(actors)) /\ Distinct(roots) /\ ToSet(roots) = ToSet(actors) \cap K
    BY <2>1, Filtered
  <2>3. ToSet(actors) \cap K = {a \in ToSet(actors) : Rooted(actors, a)}
    BY DEF K, Rooted
  <2> QED  BY <2>2, <2>3
<1> HIDE DEF roots
<1>3. \A i \in 1 .. Len(roots) : roots[i] \in ToSet(actors) /\ Rooted(actors, roots[i])
  <2>1. \A i \in 1 .. Len(roots) : roots[i] \in ToSet(roots)
    BY <1>2, ToSetOf
  <2> QED  BY <1>2, <2>1
<1>4. V = {roots[i].id : i \in 1 .. Len(roots)}
  BY <1>2 DEF Ids
<1>5. \A x \in ToSet(actors) : x.id \in V => Rooted(actors, x)
  <2> TAKE x \in ToSet(actors)
  <2> HAVE x.id \in V
  <2>1. PICK i \in 1 .. Len(roots) : x.id = roots[i].id
    BY <1>4
  <2> QED  BY <1>3, <2>1 DEF Listed
<1>6. V \in SUBSET Ids(actors)
  BY <1>3, <1>4, IdsListed
<1>7. ASSUME NEW j \in 1 .. Len(roots)
      PROVE  /\ \A c \in ToSet(actors) : c.parent = roots[j].id => c.id \notin V
             /\ roots[j].id \in V
             /\ \A i \in 1 .. Len(roots) : roots[j].parent # roots[i].id
  <2>1. \A i \in 1 .. Len(roots) : roots[i].id \in Ids(actors) /\ NoId # roots[i].id
    BY <1>3, IdsListed DEF Listed
  <2>2. roots[j].id \in V
    BY <1>4
  <2> HIDE DEF V
  <2>3. \A c \in ToSet(actors) : c.parent = roots[j].id => c.id \notin V
    BY <1>5, <2>1 DEF Rooted
  <2>4. \A i \in 1 .. Len(roots) : roots[j].parent # roots[i].id
    BY <1>3, <2>1 DEF Rooted
  <2> QED  BY <2>2, <2>3, <2>4
<1> HIDE DEF V
<1>8. Ready(actors, roots, V)
  BY <1>2, <1>5, <1>6, <1>7 DEF Ready, Down
<1>9. ASSUME NEW i \in 1 .. Len(roots) PROVE 1 <= Cardinality(V \cup {roots[i].id})
  <2> DEFINE N == V \cup {roots[i].id}
  <2>1. N = V
    BY <1>7
  <2>2. IsFiniteSet(V)
    BY <1>6, IdsListed, FS_Subset
  <2>3. Cardinality(V) \in Nat /\ Cardinality(V) # 0
    <3>1. V # {}
      BY <1>7
    <3> QED  BY <2>2, <3>1, FS_CardinalityType, FS_EmptySet
  <2> HIDE DEF N
  <2>4. 1 <= Cardinality(N)
    BY <2>1, <2>3
  <2> QED  BY <2>4 DEF N
<1>10. Family(actors, Built(NodeOf(actors), roots, V)[Len(roots)][1], roots, 1)
  BY <1>8, <1>9, BuiltFamily
<1> QED  BY <1>1, <1>2, <1>10 DEF V

\* The nodes inside a placed one, with their places; level[n] holds those n below
\* the tree's own.
Within(p) == {<<Append(p[1], i), p[2].children[i]>> : i \in DOMAIN p[2].children}
NodesRuns(level, tree, depth) ==
  /\ level[0] = {<<<<i>>, tree[i]>> : i \in DOMAIN tree}
  /\ \A n \in 1 .. depth : level[n] = UNION {Within(p) : p \in level[n - 1]}
  /\ Nodes(tree, depth) = UNION {level[n] : n \in 0 .. depth}

\* The levels of a tree are defined.
LEMMA NodesLevels ==
  ASSUME NEW tree, NEW depth \in Nat
  PROVE  \E level : NodesRuns(level, tree, depth)
<1> DEFINE base == {<<<<i>>, tree[i]>> : i \in DOMAIN tree}
           E(g, n) == IF n = 0 THEN base ELSE UNION {Within(p) : p \in g[n - 1]}
           Solves(g, k) == g = [n \in 0 .. k |-> E(g, n)]
           X == {k \in Nat : \E g : Solves(g, k)}
           level == CHOOSE g : Solves(g, depth)
<1>1. 0 \in X
  <2>1. Solves([n \in 0 .. 0 |-> base], 0)
    <3> HIDE DEF base
    <3> QED  OBVIOUS
  <2> HIDE DEF Solves
  <2> QED  BY <2>1
<1>2. ASSUME NEW k \in Nat, k \in X PROVE k + 1 \in X
  <2>1. PICK g : Solves(g, k)
    <3> HIDE DEF Solves
    <3> QED  BY <1>2
  <2> DEFINE h == [n \in 0 .. k + 1 |-> E(g, n)]
  <2>2. \A n \in 0 .. k : g[n] = E(g, n)
    <3> HIDE DEF E
    <3> QED  BY <2>1
  <2>3. \A n \in 0 .. k : h[n] = g[n]
    <3> HIDE DEF E
    <3>1. \A n \in 0 .. k : n \in 0 .. k + 1
      OBVIOUS
    <3> QED  BY <2>2, <3>1
  <2>4. ASSUME NEW n \in 0 .. k + 1 PROVE E(h, n) = E(g, n)
    <3>1. n # 0 => n - 1 \in 0 .. k
      OBVIOUS
    <3> HIDE DEF h
    <3> QED  BY <2>3, <3>1
  <2>5. Solves(h, k + 1)
    <3> HIDE DEF E
    <3> QED  BY <2>4
  <2> HIDE DEF h, Solves
  <2> QED  BY <2>5
<1>3. depth \in X
  <2> HIDE DEF X
  <2> QED  BY <1>1, <1>2, Inductive
<1>4. Solves(level, depth)
  <2> HIDE DEF Solves
  <2> QED  BY <1>3
<1>5. Nodes(tree, depth) = UNION {level[n] : n \in 0 .. depth}
  BY DEF Nodes, Within
<1> HIDE DEF level
<1>6. \A n \in 0 .. depth : level[n] = E(level, n)
  <2> HIDE DEF E
  <2> QED  BY <1>4
<1>7. level[0] = base
  <2>1. 0 \in 0 .. depth
    OBVIOUS
  <2>2. E(level, 0) = base
    OBVIOUS
  <2> HIDE DEF E
  <2> QED  BY <1>6, <2>1, <2>2
<1>8. \A n \in 1 .. depth : level[n] = UNION {Within(p) : p \in level[n - 1]}
  <2> TAKE n \in 1 .. depth
  <2>1. n \in 0 .. depth /\ n # 0
    OBVIOUS
  <2> HIDE DEF base
  <2> QED  BY <1>6, <2>1
<1> QED  BY <1>5, <1>7, <1>8 DEF NodesRuns

-----------------------------------------------------------------------------
(* get_actor_tree: the nodes of the whole tree. *)

LEMMA LenOfDistinct ==
  ASSUME NEW S, NEW s \in Seq(S), Distinct(s)
  PROVE  IsFiniteSet(ToSet(s)) /\ Cardinality(ToSet(s)) = Len(s)
<1> DEFINE f == [i \in 1 .. Len(s) |-> s[i]]
<1>1. \A x : x \in ToSet(s) <=> \E i \in 1 .. Len(s) : x = s[i]
  BY ToSetOf
<1>2. f \in Bijection(1 .. Len(s), ToSet(s))
  BY <1>1 DEF Bijection, Injection, Surjection, IsInjective, Distinct
<1>3. ExistsBijection(1 .. Len(s), ToSet(s))
  BY <1>2 DEF ExistsBijection
<1>4. IsFiniteSet(1 .. Len(s)) /\ Cardinality(1 .. Len(s)) = Len(s)
  <2>1. \A l \in Nat : IsFiniteSet(1 .. l) /\ Cardinality(1 .. l) = IF 1 > l THEN 0 ELSE l - 1 + 1
    BY FS_Interval
  <2>2. \A l \in Nat : (IF 1 > l THEN 0 ELSE l - 1 + 1) = l
    OBVIOUS
  <2>3. Len(s) \in Nat
    OBVIOUS
  <2> QED  BY <2>1, <2>2, <2>3
<1> QED  BY <1>3, <1>4, FS_Bijection

\* The nodes show each actor of K once.
Shows(actors, nodes, K, k) ==
  /\ \A i \in DOMAIN nodes : /\ PlacedNode(actors, nodes[i], k)
                             /\ \E c \in K : c.id = nodes[i].id
  /\ \A i, j \in DOMAIN nodes : nodes[i].id = nodes[j].id => i = j
  /\ \A c \in K : \E i \in DOMAIN nodes : nodes[i].id = c.id
  /\ Len(nodes) = Cardinality(K)

LEMMA FamilyShows ==
  ASSUME NEW actors, Listed(actors), NEW nodes, NEW list, NEW k, Family(actors, nodes, list, k)
  PROVE  Shows(actors, nodes, ToSet(list), k)
<1>1. /\ list \in Seq(ToSet(actors)) /\ Distinct(list) /\ DOMAIN nodes = 1 .. Len(list)
      /\ Len(nodes) = Len(list)
      /\ \A i \in 1 .. Len(list) : nodes[i].id = list[i].id /\ PlacedNode(actors, nodes[i], k)
  BY DEF Family
<1>2. \A x : x \in ToSet(list) <=> \E i \in 1 .. Len(list) : x = list[i]
  BY <1>1, ToSetOf
<1>3. Len(nodes) = Cardinality(ToSet(list))
  BY <1>1, LenOfDistinct
<1>4. ASSUME NEW i \in 1 .. Len(list), NEW j \in 1 .. Len(list), nodes[i].id = nodes[j].id
      PROVE  i = j
  <2>1. list[i] \in ToSet(actors) /\ list[j] \in ToSet(actors) /\ list[i].id = list[j].id
    BY <1>1, <1>4
  <2> QED  BY <1>1, <2>1 DEF Listed, Distinct
<1> QED  BY <1>1, <1>2, <1>3, <1>4 DEF Shows

\* A placed node shows each child of its actor once.
LEMMA NodeShowsChildren ==
  ASSUME NEW actors, Listed(actors), NEW t, NEW k \in Nat, PlacedNode(actors, t, k)
  PROVE  /\ k <= Cardinality(Ids(actors)) /\ t.id \in Ids(actors)
         /\ Shows(actors, t.children, {c \in ToSet(actors) : c.parent = t.id}, k + 1)
<1>1. k <= Cardinality(Ids(actors)) /\ ShowsFamily(actors, t, k)
  BY NodeFamily
<1>2. PICK a \in ToSet(actors) :
        \E list : /\ t.id = a.id /\ ToSet(list) = {c \in ToSet(actors) : c.parent = a.id}
                  /\ Family(actors, t.children, list, k + 1)
  BY <1>1 DEF ShowsFamily
<1>3. PICK list : /\ t.id = a.id /\ ToSet(list) = {c \in ToSet(actors) : c.parent = a.id}
                  /\ Family(actors, t.children, list, k + 1)
  BY <1>2
<1>4. Shows(actors, t.children, ToSet(list), k + 1)
  BY <1>3, FamilyShows
<1>5. t.id \in Ids(actors)
  BY <1>3, IdsListed
<1> QED  BY <1>1, <1>3, <1>4, <1>5

\* level holds placed nodes.
LEMMA LevelsPlaced ==
  ASSUME NEW actors, Listed(actors), NEW tree, NEW depth \in Nat, NEW level,
         NodesRuns(level, tree, depth),
         Shows(actors, tree, {a \in ToSet(actors) : Rooted(actors, a)}, 1)
  PROVE  \A n \in 0 .. depth : \A p \in level[n] : PlacedNode(actors, p[2], n + 1)
<1> DEFINE Q(n) == \A p \in level[n] : PlacedNode(actors, p[2], n + 1)
           X == {n \in Nat : n <= depth => Q(n)}
<1>1. 0 \in X
  <2>1. ASSUME NEW p \in level[0] PROVE PlacedNode(actors, p[2], 0 + 1)
    <3>1. \E i \in DOMAIN tree : p = <<<<i>>, tree[i]>>
      BY <2>1 DEF NodesRuns
    <3>2. \E i \in DOMAIN tree : p[2] = tree[i]
      BY <3>1
    <3>3. PlacedNode(actors, p[2], 1)
      BY <3>2 DEF Shows
    <3>4. 0 + 1 = 1
      OBVIOUS
    <3> QED  BY <3>3, <3>4
  <2> QED  BY <2>1
<1>2. ASSUME NEW n \in Nat, n \in X PROVE n + 1 \in X
  <2> SUFFICES ASSUME n + 1 <= depth, NEW p \in level[n + 1] PROVE PlacedNode(actors, p[2], (n + 1) + 1)
    OBVIOUS
  <2>1. n + 1 \in 1 .. depth /\ (n + 1) - 1 = n
    OBVIOUS
  <2>2. Q(n)
    <3> HIDE DEF Q
    <3> QED  BY <1>2, <2>1
  <2>3. level[n + 1] = UNION {Within(q) : q \in level[(n + 1) - 1]}
    BY <2>1 DEF NodesRuns
  <2>4. PICK q \in level[n] : p \in Within(q)
    BY <2>1, <2>3
  <2>5. PICK i \in DOMAIN q[2].children : p = <<Append(q[1], i), q[2].children[i]>>
    BY <2>4 DEF Within
  <2>6. PlacedNode(actors, q[2], n + 1) /\ n + 1 \in Nat
    BY <2>2
  <2>7. Shows(actors, q[2].children, {c \in ToSet(actors) : c.parent = q[2].id}, (n + 1) + 1)
    BY <2>6, NodeShowsChildren
  <2>8. p[2] = q[2].children[i]
    BY <2>5
  <2> QED  BY <2>5, <2>7, <2>8 DEF Shows
<1>3. \A n \in Nat : n \in X
  <2> HIDE DEF X
  <2> QED  BY <1>1, <1>2, Inductive
<1> QED  BY <1>3

\* p is where a root of the tree is, or where a child of a node of above is.
AtRoot(actors, tree, p) ==
  \E i \in DOMAIN tree, c \in ToSet(actors) :
    p = <<<<i>>, tree[i]>> /\ c.id = p[2].id /\ Rooted(actors, c)
AtChild(actors, above, p) ==
  \E q \in above, c \in ToSet(actors) :
    /\ \E i \in DOMAIN q[2].children : p = <<Append(q[1], i), q[2].children[i]>>
    /\ c.id = p[2].id /\ c.parent = q[2].id /\ q[2].id \in Ids(actors)

\* The levels of a tree that shows each rooted actor once.
Levelled(actors, tree, level, depth) ==
  /\ Listed(actors) /\ depth \in Nat /\ NodesRuns(level, tree, depth)
  /\ Shows(actors, tree, {a \in ToSet(actors) : Rooted(actors, a)}, 1)

LEMMA RootsLevel ==
  ASSUME NEW actors, NEW tree, NEW level, NEW depth, Levelled(actors, tree, level, depth), NEW p
  PROVE  p \in level[0] <=> AtRoot(actors, tree, p)
<1>1. p \in level[0] <=> \E i \in DOMAIN tree : p = <<<<i>>, tree[i]>>
  BY DEF Levelled, NodesRuns
<1>2. ASSUME NEW i \in DOMAIN tree, p = <<<<i>>, tree[i]>>
      PROVE  \E c \in ToSet(actors) : c.id = p[2].id /\ Rooted(actors, c)
  <2>1. p[2] = tree[i]
    BY <1>2
  <2>2. \E c \in {a \in ToSet(actors) : Rooted(actors, a)} : c.id = tree[i].id
    BY DEF Levelled, Shows
  <2> QED  BY <2>1, <2>2
<1> QED  BY <1>1, <1>2 DEF AtRoot

LEMMA ChildrenLevel ==
  ASSUME NEW actors, NEW tree, NEW level, NEW depth, Levelled(actors, tree, level, depth),
         NEW n \in 1 .. depth, NEW p
  PROVE  /\ p \in level[n] <=> AtChild(actors, level[n - 1], p)
         /\ n - 1 \in 0 .. depth /\ (n - 1) + 1 = n
<1>1. n - 1 \in 0 .. depth /\ (n - 1) + 1 = n /\ n \in Nat /\ n - 1 \in Nat
  BY DEF Levelled
<1>2. level[n] = UNION {Within(q) : q \in level[n - 1]}
  BY DEF Levelled, NodesRuns
<1>3. \A q \in level[n - 1] : PlacedNode(actors, q[2], (n - 1) + 1)
  BY <1>1, LevelsPlaced DEF Levelled
<1>4. p \in level[n] <=> \E q \in level[n - 1] : \E i \in DOMAIN q[2].children :
                           p = <<Append(q[1], i), q[2].children[i]>>
  BY <1>2 DEF Within
<1>5. ASSUME NEW q \in level[n - 1], NEW i \in DOMAIN q[2].children,
             p = <<Append(q[1], i), q[2].children[i]>>
      PROVE  q[2].id \in Ids(actors) /\ \E c \in ToSet(actors) : c.id = p[2].id /\ c.parent = q[2].id
  <2>1. PlacedNode(actors, q[2], n)
    BY <1>1, <1>3
  <2>2. /\ q[2].id \in Ids(actors)
        /\ Shows(actors, q[2].children, {c \in ToSet(actors) : c.parent = q[2].id}, n + 1)
    BY <1>1, <2>1, NodeShowsChildren DEF Levelled
  <2>3. p[2] = q[2].children[i]
    BY <1>5
  <2> QED  BY <2>2, <2>3 DEF Shows
<1> QED  BY <1>1, <1>4, <1>5 DEF AtChild

\* A node of a level has a place of its own.
LEMMA PlacedOnce ==
  ASSUME NEW actors, NEW tree, NEW level, NEW depth, Levelled(actors, tree, level, depth)
  PROVE  \A n, m \in 0 .. depth : \A p \in level[n], q \in level[m] : p[2].id = q[2].id => p = q
<1> DEFINE Q(n) == \A m \in 0 .. depth : \A p \in level[n], q \in level[m] : p[2].id = q[2].id => p = q
           X == {n \in Nat : n <= depth => Q(n)}
<1>1. \A a, b \in ToSet(actors) : a.id = b.id => a = b
  BY DEF Levelled, Listed
<1>2. NoId \notin Ids(actors)
  BY IdsListed DEF Levelled, Listed
<1>3. ASSUME NEW p, NEW q, NEW above, p[2].id = q[2].id, AtRoot(actors, tree, p), AtChild(actors, above, q)
      PROVE  FALSE
  <2>1. PICK c \in ToSet(actors) : c.id = p[2].id /\ Rooted(actors, c)
    BY <1>3 DEF AtRoot
  <2>2. PICK d \in ToSet(actors) : d.id = q[2].id /\ d.parent \in Ids(actors)
    BY <1>3 DEF AtChild
  <2>3. c = d
    BY <1>1, <1>3, <2>1, <2>2
  <2> QED  BY <1>2, <2>1, <2>2, <2>3 DEF Rooted
<1>4. ASSUME NEW p, NEW q, p[2].id = q[2].id, AtRoot(actors, tree, p), AtRoot(actors, tree, q)
      PROVE  p = q
  <2>1. PICK i \in DOMAIN tree : p = <<<<i>>, tree[i]>>
    BY <1>4 DEF AtRoot
  <2>2. PICK j \in DOMAIN tree : q = <<<<j>>, tree[j]>>
    BY <1>4 DEF AtRoot
  <2>3. p[2] = tree[i] /\ q[2] = tree[j]
    BY <2>1, <2>2
  <2>4. i = j
    BY <1>4, <2>3 DEF Levelled, Shows
  <2> QED  BY <2>1, <2>2, <2>4
<1>5. 0 \in X
  <2> SUFFICES ASSUME NEW m \in 0 .. depth, NEW p \in level[0], NEW q \in level[m], p[2].id = q[2].id
               PROVE  p = q
    OBVIOUS
  <2>1. AtRoot(actors, tree, p)
    BY RootsLevel
  <2>2. CASE m = 0
    BY <1>4, <2>1, <2>2, RootsLevel
  <2>3. CASE m # 0
    <3>1. m \in 1 .. depth
      BY <2>3 DEF Levelled
    <3>2. AtChild(actors, level[m - 1], q)
      BY <3>1, ChildrenLevel
    <3> QED  BY <1>3, <2>1, <3>2
  <2> QED  BY <2>2, <2>3
<1>6. ASSUME NEW n \in Nat, n \in X PROVE n + 1 \in X
  <2> SUFFICES ASSUME n + 1 <= depth, NEW m \in 0 .. depth, NEW p \in level[n + 1], NEW q \in level[m],
                      p[2].id = q[2].id
               PROVE  p = q
    OBVIOUS
  <2>1. n + 1 \in 1 .. depth /\ (n + 1) - 1 = n /\ n <= depth
    BY DEF Levelled
  <2>2. Q(n)
    <3> HIDE DEF Q
    <3> QED  BY <1>6, <2>1
  <2>3. AtChild(actors, level[n], p)
    BY <2>1, ChildrenLevel
  <2>4. CASE m = 0
    <3>1. AtRoot(actors, tree, q)
      BY <2>4, RootsLevel
    <3> QED  BY <1>3, <2>3, <3>1
  <2>5. CASE m # 0
    <3>1. m \in 1 .. depth /\ m - 1 \in 0 .. depth
      BY <2>5 DEF Levelled
    <3>2. AtChild(actors, level[m - 1], q)
      BY <3>1, ChildrenLevel
    <3>3. PICK r \in level[n], c \in ToSet(actors) :
            /\ \E i \in DOMAIN r[2].children : p = <<Append(r[1], i), r[2].children[i]>>
            /\ c.id = p[2].id /\ c.parent = r[2].id
      BY <2>3 DEF AtChild
    <3>4. PICK s \in level[m - 1], d \in ToSet(actors) :
            /\ \E j \in DOMAIN s[2].children : q = <<Append(s[1], j), s[2].children[j]>>
            /\ d.id = q[2].id /\ d.parent = s[2].id
      BY <3>2 DEF AtChild
    <3>5. c = d
      BY <1>1, <3>3, <3>4
    <3>6. r = s
      BY <2>2, <3>1, <3>3, <3>4, <3>5
    <3>7. PICK i \in DOMAIN r[2].children : p = <<Append(r[1], i), r[2].children[i]>>
      BY <3>3
    <3>8. PICK j \in DOMAIN r[2].children : q = <<Append(r[1], j), r[2].children[j]>>
      BY <3>4, <3>6
    <3>9. p[2] = r[2].children[i] /\ q[2] = r[2].children[j]
      BY <3>7, <3>8
    <3>10. PlacedNode(actors, r[2], n + 1) /\ n + 1 \in Nat
      <4>1. n \in 0 .. depth
        BY <2>1 DEF Levelled
      <4> QED  BY <4>1, LevelsPlaced DEF Levelled
    <3>11. Shows(actors, r[2].children, {x \in ToSet(actors) : x.parent = r[2].id}, (n + 1) + 1)
      BY <3>10, NodeShowsChildren DEF Levelled
    <3>12. i = j
      BY <3>9, <3>11 DEF Shows
    <3> QED  BY <3>7, <3>8, <3>12
  <2> QED  BY <2>4, <2>5
<1>7. \A n \in Nat : n \in X
  <2> HIDE DEF X
  <2> QED  BY <1>5, <1>6, Inductive
<1> QED  BY <1>7 DEF Levelled

\* The ids a chain of parents connects to a root: those in each set that holds
\* the roots and is closed under children.
RootedIds(actors) == {a.id : a \in {b \in ToSet(actors) : Rooted(actors, b)}}
Closed(actors, S) == RootedIds(actors) \subseteq S /\ \A a \in ToSet(actors) : a.parent \in S => a.id \in S

LEMMA LevelsClosed ==
  ASSUME NEW actors, NEW tree, NEW level, NEW depth, Levelled(actors, tree, level, depth),
         NEW S, Closed(actors, S)
  PROVE  \A n \in 0 .. depth : \A p \in level[n] : p[2].id \in S
<1> DEFINE Q(n) == \A p \in level[n] : p[2].id \in S
           X == {n \in Nat : n <= depth => Q(n)}
<1>1. 0 \in X
  <2>1. ASSUME NEW p \in level[0] PROVE p[2].id \in S
    <3>1. AtRoot(actors, tree, p)
      BY RootsLevel
    <3> QED  BY <3>1 DEF AtRoot, Closed, RootedIds
  <2> QED  BY <2>1
<1>2. ASSUME NEW n \in Nat, n \in X PROVE n + 1 \in X
  <2> SUFFICES ASSUME n + 1 <= depth, NEW p \in level[n + 1] PROVE p[2].id \in S
    OBVIOUS
  <2>1. n + 1 \in 1 .. depth /\ (n + 1) - 1 = n /\ n <= depth
    BY DEF Levelled
  <2>2. Q(n)
    <3> HIDE DEF Q
    <3> QED  BY <1>2, <2>1
  <2>3. AtChild(actors, level[n], p)
    BY <2>1, ChildrenLevel
  <2> QED  BY <2>2, <2>3 DEF AtChild, Closed
<1>3. \A n \in Nat : n \in X
  <2> HIDE DEF X
  <2> QED  BY <1>1, <1>2, Inductive
<1> QED  BY <1>3 DEF Levelled

\* A node is a node of a level; it is no deeper than there are actors.
LEMMA NodeOfLevel ==
  ASSUME NEW actors, NEW tree, NEW level, NEW depth, Levelled(actors, tree, level, depth)
  PROVE  /\ \A p : p \in Nodes(tree, depth) <=> \E n \in 0 .. depth : p \in level[n]
         /\ \A n \in 0 .. depth : \A p \in level[n] :
              /\ n + 1 <= Cardinality(Ids(actors)) /\ p[2].id \in Ids(actors)
              /\ Shows(actors, p[2].children, {c \in ToSet(actors) : c.parent = p[2].id}, (n + 1) + 1)
<1>1. \A p : p \in Nodes(tree, depth) <=> \E n \in 0 .. depth : p \in level[n]
  BY DEF Levelled, NodesRuns
<1>2. ASSUME NEW n \in 0 .. depth, NEW p \in level[n]
      PROVE  /\ n + 1 <= Cardinality(Ids(actors)) /\ p[2].id \in Ids(actors)
             /\ Shows(actors, p[2].children, {c \in ToSet(actors) : c.parent = p[2].id}, (n + 1) + 1)
  <2>1. \A m \in 0 .. depth : \A q \in level[m] : PlacedNode(actors, q[2], m + 1)
    BY LevelsPlaced DEF Levelled
  <2>2. PlacedNode(actors, p[2], n + 1) /\ n + 1 \in Nat
    BY <2>1
  <2> QED  BY <2>2, NodeShowsChildren DEF Levelled
<1> QED  BY <1>1, <1>2

\* The ids on the levels are closed themselves.
LEMMA ShownClosed ==
  ASSUME NEW actors, NEW tree, NEW level, NEW depth, Levelled(actors, tree, level, depth),
         Cardinality(Ids(actors)) <= depth
  PROVE  Closed(actors, {p[2].id : p \in Nodes(tree, depth)})
<1> DEFINE shown == {p[2].id : p \in Nodes(tree, depth)}
<1>0. Cardinality(Ids(actors)) \in Nat
  BY IdsListed DEF Levelled
<1>1. ASSUME NEW c \in ToSet(actors), Rooted(actors, c) PROVE c.id \in shown
  <2>1. PICK i \in DOMAIN tree : tree[i].id = c.id
    BY <1>1 DEF Levelled, Shows
  <2> DEFINE p == <<<<i>>, tree[i]>>
  <2>2. p[2] = tree[i]
    OBVIOUS
  <2>3. AtRoot(actors, tree, p)
    BY <1>1, <2>1 DEF AtRoot
  <2>4. p \in level[0]
    <3> HIDE DEF p
    <3> QED  BY <2>3, RootsLevel
  <2>5. 0 \in 0 .. depth
    BY DEF Levelled
  <2> HIDE DEF p
  <2> QED  BY <2>1, <2>2, <2>4, <2>5, NodeOfLevel
<1>2. ASSUME NEW c \in ToSet(actors), c.parent \in shown PROVE c.id \in shown
  <2>1. PICK q \in Nodes(tree, depth) : q[2].id = c.parent
    BY <1>2
  <2>2. PICK n \in 0 .. depth : q \in level[n]
    BY <2>1, NodeOfLevel
  <2>3. /\ n + 1 <= Cardinality(Ids(actors)) /\ q[2].id \in Ids(actors)
        /\ Shows(actors, q[2].children, {x \in ToSet(actors) : x.parent = q[2].id}, (n + 1) + 1)
    BY <2>2, NodeOfLevel
  <2>4. n + 1 \in 1 .. depth /\ (n + 1) - 1 = n /\ n + 1 \in 0 .. depth
    BY <1>0, <2>3 DEF Levelled
  <2>5. c \in {x \in ToSet(actors) : x.parent = q[2].id}
    BY <2>1
  <2>6. PICK i \in DOMAIN q[2].children : q[2].children[i].id = c.id
    BY <2>3, <2>5 DEF Shows
  <2> DEFINE p == <<Append(q[1], i), q[2].children[i]>>
  <2>7. p[2] = q[2].children[i] /\ p = <<Append(q[1], i), q[2].children[i]>>
    OBVIOUS
  <2>8. p[2].id = c.id
    BY <2>6, <2>7
  <2> HIDE DEF p
  <2>9. AtChild(actors, level[n], p)
    BY <2>1, <2>2, <2>3, <2>7, <2>8 DEF AtChild
  <2>10. p \in level[n + 1]
    BY <2>4, <2>9, ChildrenLevel
  <2> QED  BY <2>4, <2>8, <2>10, NodeOfLevel
<1> QED  BY <1>1, <1>2 DEF Closed, RootedIds

\* The tree of the actors, as TreeShowsEveryChain means it.
IsForest(actors, tree, depth) ==
  LET placed == Nodes(tree, depth)
      shown  == {p[2].id : p \in placed}
  IN  /\ Cardinality(placed) = Cardinality(shown)
      /\ shown = {id \in Ids(actors) : \A S \in SUBSET Ids(actors) : Closed(actors, S) => id \in S}
      /\ \A p \in placed :
           /\ p[2].id \in Ids(actors)
           /\ Len(p[2].children) = Cardinality({c \in ToSet(actors) : c.parent = p[2].id})
           /\ \A i \in DOMAIN p[2].children :
                \E c \in ToSet(actors) : c.id = p[2].children[i].id /\ c.parent = p[2].id

LEMMA Forest ==
  ASSUME NEW actors, NEW tree, NEW depth \in Nat, Listed(actors), Cardinality(Ids(actors)) <= depth,
         Shows(actors, tree, {a \in ToSet(actors) : Rooted(actors, a)}, 1)
  PROVE  IsForest(actors, tree, depth)
<1>1. PICK level : NodesRuns(level, tree, depth)
  BY NodesLevels
<1>2. Levelled(actors, tree, level, depth)
  BY <1>1 DEF Levelled
<1> DEFINE placed == Nodes(tree, depth)
           shown  == {p[2].id : p \in placed}
           f == [p \in placed |-> p[2].id]
<1>3. \A p \in placed : p[2].id \in Ids(actors)
  <2>1. /\ \A p : p \in placed <=> \E n \in 0 .. depth : p \in level[n]
        /\ \A n \in 0 .. depth : \A p \in level[n] : p[2].id \in Ids(actors)
    BY <1>2, NodeOfLevel
  <2> HIDE DEF placed
  <2> QED  BY <2>1
<1>4. shown \in SUBSET Ids(actors) /\ Closed(actors, shown)
  BY <1>2, <1>3, ShownClosed
<1>5. ASSUME NEW S \in SUBSET Ids(actors), Closed(actors, S) PROVE shown \subseteq S
  <2>1. \A n \in 0 .. depth : \A p \in level[n] : p[2].id \in S
    BY <1>2, <1>5, LevelsClosed
  <2> QED  BY <1>2, <2>1, NodeOfLevel
<1>6. shown = {id \in Ids(actors) : \A S \in SUBSET Ids(actors) : Closed(actors, S) => id \in S}
  <2> HIDE DEF shown
  <2> QED  BY <1>4, <1>5
<1>7. Cardinality(placed) = Cardinality(shown)
  <2>1. \A p, q \in placed : p[2].id = q[2].id => p = q
    BY <1>2, NodeOfLevel, PlacedOnce
  <2>2. f \in Bijection(placed, shown)
    <3> HIDE DEF placed
    <3> QED  BY <2>1 DEF Bijection, Injection, Surjection, IsInjective
  <2>3. f \in Injection(placed, shown) /\ f \in Surjection(placed, shown)
    <3> HIDE DEF placed, shown, f
    <3> QED  BY <2>2 DEF Bijection
  <2>4. IsFiniteSet(shown)
    <3> HIDE DEF shown
    <3> QED  BY <1>4, IdsListed, FS_Subset
  <2> HIDE DEF placed, shown, f
  <2>5. IsFiniteSet(placed) /\ Cardinality(placed) <= Cardinality(shown)
    BY <2>3, <2>4, FS_Injection
  <2>6. Cardinality(shown) <= Cardinality(placed)
    BY <2>3, <2>5, FS_Surjection
  <2>7. Cardinality(shown) \in Nat /\ Cardinality(placed) \in Nat
    BY <2>4, <2>5, FS_CardinalityType
  <2> QED  BY <2>5, <2>6, <2>7
<1>8. ASSUME NEW p \in placed
      PROVE  /\ Len(p[2].children) = Cardinality({c \in ToSet(actors) : c.parent = p[2].id})
             /\ \A i \in DOMAIN p[2].children :
                  \E c \in ToSet(actors) : c.id = p[2].children[i].id /\ c.parent = p[2].id
  <2>1. \E k : Shows(actors, p[2].children, {c \in ToSet(actors) : c.parent = p[2].id}, k)
    BY <1>2, <1>8, NodeOfLevel
  <2>2. PICK k : Shows(actors, p[2].children, {c \in ToSet(actors) : c.parent = p[2].id}, k)
    BY <2>1
  <2> QED  BY <2>2 DEF Shows
<1> QED  BY <1>3, <1>6, <1>7, <1>8 DEF IsForest

-----------------------------------------------------------------------------
(* get_actor_tree: a store's answer. *)

LEMMA OwnMembers ==
  ASSUME NEW S, NEW s \in Seq(S)
  PROVE  s \in Seq(ToSet(s))
<1>1. \A i \in 1 .. Len(s) : s[i] \in ToSet(s)
  BY ToSetOf
<1>2. s \in [1 .. Len(s) -> ToSet(s)] /\ Len(s) \in Nat
  BY <1>1
<1> QED  BY <1>2, SeqDef

\* What ReadAssumption says of the store of a question about a tree.
IsRead(store) ==
  /\ IsStore(store)
  /\ \A a, b \in ToSet(store) : NoId # b.id /\ (a.parent = b.id => a.connection = b.connection)

LEMMA StoreListed ==
  ASSUME NEW store, IsRead(store)
  PROVE  Listed(store)
<1>1. store \in Seq(ToSet(store)) /\ \A i, j \in 1 .. Len(store) : store[i].id = store[j].id => i = j
  BY DEF IsRead, IsStore
<1>2. \A x : x \in ToSet(store) <=> \E i \in 1 .. Len(store) : x = store[i]
  BY <1>1, ToSetOf
<1>3. Distinct(store)
  BY <1>1 DEF Distinct
<1>4. \A a, b \in ToSet(store) : a.id = b.id => a = b
  <2> TAKE a, b \in ToSet(store)
  <2>1. PICK i \in 1 .. Len(store) : a = store[i]
    BY <1>2
  <2>2. PICK j \in 1 .. Len(store) : b = store[j]
    BY <1>2
  <2> QED  BY <1>1, <2>1, <2>2
<1>5. \A b \in ToSet(store) : NoId # b.id
  BY DEF IsRead
<1> QED  BY <1>1, <1>3, <1>4, <1>5 DEF Listed

LEMMA ActorsListed ==
  ASSUME NEW store, IsRead(store), NEW connection
  PROVE  LET actors == listActors(store, "any", connection)
         IN  /\ Listed(actors) /\ Len(actors) <= Len(store)
             /\ ToSet(actors) = {a \in ToSet(store) : connection \in {"any", a.connection}}
<1> DEFINE K == {a \in ToSet(store) : /\ "any" \in {"any", a.status}
                                      /\ connection \in {"any", a.connection}}
           At1 == {i \in 1 .. Len(store) : store[i] \in K}
           actors == filter(store, K)
<1>1. store \in Seq(ToSet(store)) /\ Distinct(store) /\ Len(store) \in Nat
  BY StoreListed DEF Listed
<1>2. listActors(store, "any", connection) = actors
  BY DEF listActors
<1>3. K = {a \in ToSet(store) : connection \in {"any", a.connection}}
  OBVIOUS
<1>4. /\ actors \in Seq(ToSet(store)) /\ Len(actors) = Cardinality(At1)
      /\ ToSet(actors) = ToSet(store) \cap K /\ Distinct(actors)
  <2> HIDE DEF K
  <2>1. /\ filter(store, K) \in Seq(ToSet(store))
        /\ Len(filter(store, K)) = Cardinality({i \in 1 .. Len(store) : store[i] \in K})
        /\ ToSet(filter(store, K)) = ToSet(store) \cap K
        /\ Distinct(store) => Distinct(filter(store, K))
    BY <1>1, Filtered, Zenon
  <2> QED  BY <1>1, <2>1
<1>5. Cardinality(At1) <= Len(store)
  <2>1. \A l \in Nat : IsFiniteSet(1 .. l) /\ Cardinality(1 .. l) = IF 1 > l THEN 0 ELSE l - 1 + 1
    BY FS_Interval
  <2>2. \A l \in Nat : (IF 1 > l THEN 0 ELSE l - 1 + 1) = l
    OBVIOUS
  <2>3. IsFiniteSet(1 .. Len(store)) /\ Cardinality(1 .. Len(store)) = Len(store)
    BY <1>1, <2>1, <2>2
  <2>4. At1 \in SUBSET (1 .. Len(store))
    OBVIOUS
  <2> HIDE DEF At1
  <2> QED  BY <2>3, <2>4, FS_Subset
<1>6. ToSet(actors) = {a \in ToSet(store) : connection \in {"any", a.connection}}
  <2> HIDE DEF actors
  <2> QED  BY <1>3, <1>4
<1> HIDE DEF actors, K, At1
<1>7. actors \in Seq(ToSet(actors))
  BY <1>4, OwnMembers
<1>8. Listed(actors)
  BY <1>4, <1>7, StoreListed DEF Listed
<1> QED  BY <1>2, <1>4, <1>5, <1>6, <1>8

\* An actor's children are in its connection: the store counts those listed.
LEMMA CountsChildren ==
  ASSUME NEW store, IsRead(store), NEW connection, NEW id \in Ids(listActors(store, "any", connection))
  PROVE  getChildCount(store, id)
           = Cardinality({c \in ToSet(listActors(store, "any", connection)) : c.parent = id})
<1> DEFINE actors == listActors(store, "any", connection)
           K == {c \in ToSet(store) : c.parent = id}
           kept == filter(store, K)
<1>1. Listed(actors) /\ ToSet(actors) = {a \in ToSet(store) : connection \in {"any", a.connection}}
  BY ActorsListed
<1>2. store \in Seq(ToSet(store)) /\ Distinct(store) /\ DOMAIN store = 1 .. Len(store)
  BY StoreListed DEF Listed
<1> HIDE DEF actors
<1>3. PICK b \in ToSet(actors) : b.id = id
  BY <1>1, IdsListed DEF actors
<1>4. K = {c \in ToSet(actors) : c.parent = id}
  BY <1>1, <1>3 DEF IsRead
<1>5. {i \in DOMAIN store : store[i].parent = id} = {i \in 1 .. Len(store) : store[i] \in K}
  <2>1. \A i \in 1 .. Len(store) : store[i] \in ToSet(store)
    BY <1>2, ToSetOf
  <2> QED  BY <1>2, <2>1
<1>6. ToSet(store) \cap K = K
  OBVIOUS
<1> HIDE DEF K
<1>7. /\ kept \in Seq(ToSet(store)) /\ Len(kept) = Cardinality({i \in 1 .. Len(store) : store[i] \in K})
      /\ ToSet(kept) = K /\ Distinct(kept)
  BY <1>2, <1>6, Filtered
<1> HIDE DEF kept
<1>8. Cardinality(K) = Len(kept)
  BY <1>7, LenOfDistinct
<1> QED  BY <1>4, <1>5, <1>7, <1>8 DEF getChildCount, actors

LEMMA ResourcesOf ==
  ASSUME NEW S, NEW s \in Seq(S)
  PROVE  ToSet(snapshotResources(s)) = {a.id : a \in ToSet(s)}
<1> DEFINE r == [i \in 1 .. Len(s) |-> s[i].id]
<1>1. snapshotResources(s) = r
  BY DEF snapshotResources
<1>2. ToSet(r) = {s[i].id : i \in 1 .. Len(s)}
  BY DEF ToSet
<1>3. \A x : x \in ToSet(s) <=> \E i \in 1 .. Len(s) : x = s[i]
  BY ToSetOf
<1> HIDE DEF r
<1> QED  BY <1>1, <1>2, <1>3

LEMMA DefinitionResources ==
  ASSUME NEW store, IsRead(store)
  PROVE  ToSet(definitionResources(store)) = {a.id : a \in {b \in ToSet(store) : b.defined}}
<1> DEFINE K == {a \in ToSet(store) : a.defined}
<1>1. store \in Seq(ToSet(store)) /\ ToSet(store) \cap K = K
  BY DEF IsRead, IsStore
<1>2. filter(store, K) \in Seq(ToSet(store)) /\ ToSet(filter(store, K)) = K
  <2> HIDE DEF K
  <2> QED  BY <1>1, Filtered
<1>3. ToSet(snapshotResources(filter(store, K))) = {a.id : a \in K}
  <2> HIDE DEF K
  <2> QED  BY <1>2, ResourcesOf
<1> QED  BY <1>3 DEF definitionResources

LEMMA ActorTreeIs ==
  ASSUME NEW store, IsRead(store), NEW connection
  PROVE  IsForest(listActors(store, "any", connection), getActorTree(store, connection).tree, Len(store))
<1> DEFINE actors == listActors(store, "any", connection)
           roots == Roots(actors)
           tree == Built(NodeOf(actors), roots, Ids(roots))[Len(roots)][1]
<1>1. getActorTree(store, connection).tree = tree
  BY DEF getActorTree, NodeOf
<1>2. Listed(actors) /\ Len(actors) <= Len(store)
  BY ActorsListed
<1> HIDE DEF actors
<1>3. ToSet(roots) = {a \in ToSet(actors) : Rooted(actors, a)} /\ Family(actors, tree, roots, 1)
  BY <1>2, RootFamily
<1>4. Shows(actors, tree, {a \in ToSet(actors) : Rooted(actors, a)}, 1)
  <2> HIDE DEF tree, roots
  <2> QED  BY <1>2, <1>3, FamilyShows
<1>5. Len(store) \in Nat /\ Cardinality(Ids(actors)) <= Len(store)
  <2>1. Len(store) \in Nat /\ Len(actors) \in Nat
    BY <1>2, StoreListed DEF Listed
  <2>2. Cardinality(Ids(actors)) \in Nat /\ Cardinality(Ids(actors)) <= Len(actors)
    BY <1>2, IdsListed
  <2> QED  BY <1>2, <2>1, <2>2
<1> HIDE DEF tree
<1>6. IsForest(actors, tree, Len(store))
  BY <1>2, <1>4, <1>5, Forest
<1> QED  BY <1>1, <1>6 DEF actors

\* An actor is a root of its list when it is one of its store.
LEMMA SameRoots ==
  ASSUME NEW store, IsRead(store), NEW connection, NEW a \in ToSet(listActors(store, "any", connection))
  PROVE  Rooted(listActors(store, "any", connection), a) <=> a.parent = NoId \/ a.parent \notin Ids(store)
<1> DEFINE actors == listActors(store, "any", connection)
<1>1. Listed(actors) /\ ToSet(actors) = {b \in ToSet(store) : connection \in {"any", b.connection}}
  BY ActorsListed
<1>2. Listed(store)
  BY StoreListed
<1> HIDE DEF actors
<1>3. /\ \A x : x \in Ids(actors) <=> \E b \in ToSet(actors) : x = b.id
      /\ \A x : x \in Ids(store) <=> \E b \in ToSet(store) : x = b.id
  BY <1>1, <1>2, IdsListed
<1>4. a \in ToSet(actors)
  BY DEF actors
<1>5. a.parent \in Ids(actors) <=> a.parent \in Ids(store)
  BY <1>1, <1>3, <1>4 DEF IsRead
<1> QED  BY <1>5 DEF Rooted, actors

LEMMA TreeShows ==
  ASSUME question \in Question, question.kind = "read", reply = answer(question)
  PROVE  TreeShowsEveryChain
<1> DEFINE store  == question.store
           list   == listActors(store, "any", question.connection)
           actors == ToSet(list)
           tree   == getActorTree(store, question.connection).tree
           placed == Nodes(tree, Len(store))
           nodes  == {p[2] : p \in placed}
           shown  == {n.id : n \in nodes}
           rooted == {a.id : a \in {b \in actors : b.parent = NoId \/ b.parent \notin Ids(store)}}
           closed == {S \in SUBSET {a.id : a \in actors} :
                        rooted \subseteq S /\ \A a \in actors : a.parent \in S => a.id \in S}
<1>1. reply.tree = tree
  BY DEF answer
<1>2. IsRead(store)
  BY ReadAssumption DEF IsRead
<1>3. /\ Listed(list)
      /\ Ids(list) = {a.id : a \in actors}
  <2>1. Listed(list)
    BY <1>2, ActorsListed
  <2> HIDE DEF list
  <2> QED  BY <2>1, IdsListed
<1>4. IsForest(list, tree, Len(store))
  BY <1>2, ActorTreeIs
<1>5. shown = {p[2].id : p \in placed}
  OBVIOUS
<1>6. rooted = RootedIds(list)
  <2>1. \A a \in actors : Rooted(list, a) <=> a.parent = NoId \/ a.parent \notin Ids(store)
    BY <1>2, SameRoots
  <2> HIDE DEF list
  <2> QED  BY <2>1 DEF RootedIds
<1>7. closed = {S \in SUBSET Ids(list) : Closed(list, S)}
  <2> HIDE DEF list, rooted
  <2> QED  BY <1>3, <1>6 DEF Closed
<1>8. \A id \in Ids(list) : getChildCount(store, id) = Cardinality({c \in actors : c.parent = id})
  BY <1>2, CountsChildren
<1>9. ToSet(definitionResources(store)) = {a.id : a \in {b \in ToSet(store) : b.defined}}
  BY <1>2, DefinitionResources
<1> HIDE DEF list, tree, rooted
<1>10. /\ Cardinality(placed) = Cardinality({p[2].id : p \in placed})
       /\ {p[2].id : p \in placed} = {id \in Ids(list) : \A S \in SUBSET Ids(list) : Closed(list, S) => id \in S}
       /\ \A p \in placed :
            /\ p[2].id \in Ids(list)
            /\ Len(p[2].children) = Cardinality({c \in actors : c.parent = p[2].id})
            /\ \A i \in DOMAIN p[2].children :
                 \E c \in actors : c.id = p[2].children[i].id /\ c.parent = p[2].id
  BY <1>4 DEF IsForest
<1>11. shown = {id \in {a.id : a \in actors} : \A S \in closed : id \in S}
  <2> HIDE DEF shown, closed, placed
  <2> QED  BY <1>3, <1>5, <1>7, <1>10
<1>12. \A n \in nodes :
         /\ Len(n.children) = getChildCount(store, n.id)
         /\ \A i \in DOMAIN n.children : \E a \in actors : a.id = n.children[i].id /\ a.parent = n.id
  <2> TAKE n \in nodes
  <2>1. PICK p \in placed : n = p[2]
    OBVIOUS
  <2> HIDE DEF placed, nodes
  <2> QED  BY <1>8, <1>10, <2>1
<1>13. Cardinality(placed) = Cardinality(shown)
  BY <1>5, <1>10
<1> HIDE DEF placed, nodes, shown, closed
<1> QED  BY <1>1, <1>9, <1>11, <1>12, <1>13
         DEF TreeShowsEveryChain, placed, nodes, shown, closed, rooted, list, tree

\* The tree shows every actor that a chain of parents connects to a root, once,
\* under its parent, with all its children.
THEOREM TreeShowsEveryChainHolds == Spec => []TreeShowsEveryChain
<1>1. ReadInv => TreeShowsEveryChain
  <2> SUFFICES ASSUME ReadInv, Answered("read") PROVE TreeShowsEveryChain
    BY DEF TreeShowsEveryChain
  <2> QED  BY TreeShows DEF ReadInv, Answered
<1> QED  BY <1>1, AnswersOnly, PTL

================================================================================
