------------------------- MODULE EventEligibilityProofs -------------------------
(***************************************************************************)
(* Proofs about EventEligibility for any machines, events and limits: the   *)
(* analysis of a tree agrees with what a running actor selects in it. Both  *)
(* are followed along the tree of active states, from the leaves up.        *)
(***************************************************************************)
EXTENDS EventEligibility, FiniteSetTheorems, WellFoundedInduction, TLAPS

-----------------------------------------------------------------------------
(* Numbers. *)

LEMMA LeastNumber ==
  ASSUME NEW T \in SUBSET Nat, T # {}
  PROVE  \E n \in T : \A m \in T : n <= m
<1> DEFINE R == {ss \in Nat \X Nat : ss[1] < ss[2]}
<1>1. IsWellFoundedOn(R, Nat)
  BY NatLessThanWellFounded DEF OpToRel
<1>2. PICK n \in T : \A m \in T : <<m, n>> \notin R
  <2> HIDE DEF R
  <2> QED  BY <1>1, WFMin
<1>3. ASSUME NEW m \in T PROVE n <= m
  <2>1. m \in Nat /\ n \in Nat /\ ~(m < n)
    BY <1>2
  <2> QED  BY <2>1
<1> QED  BY <1>3

\* Induction over a set of naturals.
LEMMA Inductive ==
  ASSUME NEW X, 0 \in X, \A n \in Nat : n \in X => n + 1 \in X
  PROVE  \A n \in Nat : n \in X
<1> DEFINE bad == {n \in Nat : n \notin X}
<1> SUFFICES ASSUME bad # {} PROVE FALSE
  OBVIOUS
<1>1. PICK n \in bad : \A m \in bad : n <= m
  <2>1. bad \in SUBSET Nat
    OBVIOUS
  <2> HIDE DEF bad
  <2> QED  BY <2>1, LeastNumber
<1>2. n \in Nat /\ n # 0 /\ n - 1 \in Nat /\ (n - 1) + 1 = n
  OBVIOUS
<1>3. n - 1 \notin bad
  BY <1>1, <1>2
<1> QED  BY <1>2, <1>3

\* A finite set of naturals has a bound.
LEMMA Bound ==
  ASSUME NEW T \in SUBSET Nat, IsFiniteSet(T)
  PROVE  \E M \in Nat : \A n \in T : n <= M
<1>0. PICK l \in Nat : ExistsSurjection(1 .. l, T)
  BY FS_NatSurjection
<1>1. PICK f : f \in Surjection(1 .. l, T)
  BY <1>0 DEF ExistsSurjection
<1>2. f \in [1 .. l -> T] /\ \A t \in T : \E i \in 1 .. l : f[i] = t
  BY <1>1 DEF Surjection
<1> DEFINE X == {k \in Nat : k <= l => \E M \in Nat : \A i \in 1 .. k : f[i] <= M}
<1>3. 0 \in X
  OBVIOUS
<1>4. ASSUME NEW k \in Nat, k \in X PROVE k + 1 \in X
  <2> SUFFICES ASSUME k + 1 <= l PROVE \E M \in Nat : \A i \in 1 .. k + 1 : f[i] <= M
    OBVIOUS
  <2>1. PICK M \in Nat : \A i \in 1 .. k : f[i] <= M
    BY <1>4
  <2>2. f[k + 1] \in Nat /\ \A i \in 1 .. k + 1 : i = k + 1 \/ i \in 1 .. k
    <3>1. k + 1 \in 1 .. l
      OBVIOUS
    <3>2. f[k + 1] \in T
      BY <1>2, <3>1
    <3>3. \A i \in 1 .. k + 1 : i = k + 1 \/ i \in 1 .. k
      OBVIOUS
    <3> HIDE DEF X
    <3>4. f[k + 1] \in Nat
      BY <3>2
    <3> QED  BY <3>3, <3>4
  <2>3. \A i \in 1 .. k : f[i] \in Nat
    <3> TAKE i \in 1 .. k
    <3>1. i \in 1 .. l
      OBVIOUS
    <3>2. f[i] \in T
      BY <1>2, <3>1
    <3> QED  BY <3>2
  <2>4. \A i \in 1 .. k + 1 : f[i] <= M + f[k + 1]
    <3> TAKE i \in 1 .. k + 1
    <3>1. CASE i = k + 1
      BY <2>2, <3>1
    <3>2. CASE i \in 1 .. k
      BY <2>1, <2>2, <2>3, <3>2
    <3> QED  BY <2>2, <3>1, <3>2
  <2>5. M + f[k + 1] \in Nat
    BY <2>2
  <2> QED  BY <2>4, <2>5
<1>5. l \in X
  <2> HIDE DEF X
  <2> QED  BY <1>3, <1>4, Inductive
<1>6. PICK M \in Nat : \A i \in 1 .. l : f[i] <= M
  BY <1>5
<1> QED  BY <1>2, <1>6

-----------------------------------------------------------------------------
(* The tree of states. *)

\* A set of states with all their ancestors.
IsTree(S) == S \subseteq Node /\ 0 \in S /\ \A n \in S \ {0} : Parent[n] \in S

\* Inside follows the parents.
LEMMA InsideIs ==
  ASSUME NEW n, NEW S, S \subseteq Node
  PROVE  \E w : /\ Inside(n, S) = {m \in S : w[m]}
                /\ \A m \in Node : w[m] <=> m # 0 /\ (Parent[m] = n \/ w[Parent[m]])
<1> DEFINE Solves(g) == g = [m \in Node |-> m # 0 /\ (Parent[m] = n \/ g[Parent[m]])]
           Under(K) == \A m \in Node \ {0} : Parent[m] = n \/ Parent[m] \in K => m \in K
           L == {m \in Node \ {0} : \A K \in SUBSET Node : Under(K) => m \in K}
           f == [m \in Node |-> m \in L]
           w == CHOOSE g : Solves(g)
<1>1. \A m \in Node \ {0} : Parent[m] \in Node
  BY ParentAssumption
<1>2. Under(L)
  OBVIOUS
<1>3. ASSUME NEW m \in L PROVE Parent[m] = n \/ Parent[m] \in L
  <2> SUFFICES ASSUME Parent[m] # n, Parent[m] \notin L PROVE FALSE
    OBVIOUS
  <2> DEFINE K == L \ {m}
  <2>1. Under(K)
    <3> SUFFICES ASSUME NEW k \in Node \ {0}, Parent[k] = n \/ Parent[k] \in K PROVE k \in K
      OBVIOUS
    <3>1. k \in L
      BY <1>2
    <3>2. k # m
      OBVIOUS
    <3> QED  BY <3>1, <3>2
  <2>2. K \in SUBSET Node
    OBVIOUS
  <2> QED  BY <2>1, <2>2
<1>4. ASSUME NEW m \in Node PROVE f[m] <=> m # 0 /\ (Parent[m] = n \/ f[Parent[m]])
  <2>1. m # 0 => (f[Parent[m]] <=> Parent[m] \in L)
    BY <1>1
  <2>2. f[m] <=> m \in L
    OBVIOUS
  <2> HIDE DEF f
  <2>3. m \in L => m # 0
    OBVIOUS
  <2>4. m # 0 /\ (Parent[m] = n \/ Parent[m] \in L) => m \in L
    BY <1>2
  <2> HIDE DEF L
  <2> QED  BY <1>3, <2>1, <2>2, <2>3, <2>4
<1>5. Solves(f)
  <2>1. f = [m \in Node |-> f[m]] /\ \A m \in Node : f[m] \in BOOLEAN
    OBVIOUS
  <2> HIDE DEF f
  <2> QED  BY <1>4, <2>1, Zenon
<1>6. Solves(w)
  <2> HIDE DEF Solves
  <2> QED  BY <1>5
<1>7. Inside(n, S) = {m \in S : w[m]}
  BY DEF Inside
<1> HIDE DEF w
<1>8. \A m \in Node : w[m] <=> m # 0 /\ (Parent[m] = n \/ w[Parent[m]])
  BY <1>6, Zenon
<1> QED  BY <1>7, <1>8

LEMMA InsideStep ==
  ASSUME NEW S, IsTree(S), NEW n, NEW d
  PROVE  /\ d \in Inside(n, S) <=> d \in S \ {0} /\ (Parent[d] = n \/ Parent[d] \in Inside(n, S))
<1>1. PICK w : /\ Inside(n, S) = {m \in S : w[m]}
               /\ \A m \in Node : w[m] <=> m # 0 /\ (Parent[m] = n \/ w[Parent[m]])
  BY InsideIs DEF IsTree
<1>2. d \in S \ {0} => Parent[d] \in S /\ d \in Node
  BY DEF IsTree
<1>3. d \in S => d \in Node
  BY DEF IsTree
<1> QED  BY <1>1, <1>2, <1>3

\* What holds of a state if it holds of its parent holds of every state.
LEMMA DownTheTree ==
  ASSUME NEW S, IsTree(S), NEW K, \A d \in S : (d # 0 => Parent[d] \in K) => d \in K
  PROVE  S \subseteq K
<1> DEFINE bad == {d \in S : d \notin K}
<1> SUFFICES ASSUME bad # {} PROVE FALSE
  OBVIOUS
<1>1. S \subseteq Nat
  BY NodeAssumption DEF IsTree
<1>2. PICK d \in bad : \A e \in bad : d <= e
  <2>1. bad \in SUBSET Nat
    BY <1>1
  <2> HIDE DEF bad
  <2> QED  BY <2>1, LeastNumber
<1>3. d # 0 /\ Parent[d] \notin K
  OBVIOUS
<1>4. d \in S /\ d \in Nat /\ Parent[d] \in S
  BY <1>1, <1>3 DEF IsTree
<1>5. Parent[d] \in bad /\ Parent[d] \in Nat
  BY <1>1, <1>3, <1>4
<1>6. Parent[d] < d
  BY <1>3, <1>4, ParentAssumption DEF IsTree
<1> HIDE DEF bad
<1> QED  BY <1>2, <1>4, <1>5, <1>6

LEMMA AllInsideRoot ==
  ASSUME NEW S, IsTree(S)
  PROVE  S = {0} \cup Inside(0, S)
<1> DEFINE K == {0} \cup Inside(0, S)
<1>1. \A d \in S : (d # 0 => Parent[d] \in K) => d \in K
  BY InsideStep
<1>2. S \subseteq K
  <2> HIDE DEF K
  <2> QED  BY <1>1, DownTheTree
<1>3. 0 \in S /\ Inside(0, S) \subseteq S
  BY InsideStep DEF IsTree
<1> QED  BY <1>2, <1>3

LEMMA InsideFurther ==
  ASSUME NEW S, IsTree(S), NEW n, NEW c \in Inside(n, S)
  PROVE  Inside(c, S) \subseteq Inside(n, S)
<1> DEFINE K == {d \in S : d \in Inside(c, S) => d \in Inside(n, S)}
<1>1. ASSUME NEW d \in S, d # 0 => Parent[d] \in K PROVE d \in K
  BY <1>1, InsideStep
<1>2. S \subseteq K
  <2> HIDE DEF K
  <2> QED  BY <1>1, DownTheTree
<1>3. \A d : d \in Inside(c, S) => d \in S
  BY InsideStep
<1> QED  BY <1>2, <1>3

\* What is inside a state is one of its children or inside one.
LEMMA InsideChildren ==
  ASSUME NEW S, IsTree(S), NEW n
  PROVE  Inside(n, S) = UNION {{c} \cup Inside(c, S) : c \in ChildrenIn(n, S)}
<1> DEFINE U == UNION {{c} \cup Inside(c, S) : c \in ChildrenIn(n, S)}
           K == {d \in S : d \in Inside(n, S) => d \in U}
<1>1. ASSUME NEW d \in S, d # 0 => Parent[d] \in K PROVE d \in K
  <2> SUFFICES ASSUME d \in Inside(n, S) PROVE d \in U
    OBVIOUS
  <2>1. d # 0 /\ (Parent[d] = n \/ Parent[d] \in Inside(n, S))
    BY InsideStep
  <2>2. CASE Parent[d] = n
    <3>1. d \in ChildrenIn(n, S)
      BY <2>1, <2>2 DEF ChildrenIn
    <3> QED  BY <3>1
  <2>3. CASE Parent[d] \in Inside(n, S)
    <3>1. PICK c \in ChildrenIn(n, S) : Parent[d] = c \/ Parent[d] \in Inside(c, S)
      BY <1>1, <2>1, <2>3
    <3>2. d \in Inside(c, S)
      BY <2>1, <3>1, InsideStep
    <3> QED  BY <3>2
  <2> QED  BY <2>1, <2>2, <2>3
<1>2. S \subseteq K
  <2> HIDE DEF K
  <2> QED  BY <1>1, DownTheTree
<1>3. ASSUME NEW c \in ChildrenIn(n, S) PROVE c \in Inside(n, S) /\ Inside(c, S) \subseteq Inside(n, S)
  <2>1. c \in Inside(n, S)
    BY InsideStep DEF ChildrenIn
  <2> QED  BY <2>1, InsideFurther
<1>4. \A d : d \in Inside(n, S) => d \in S
  BY InsideStep
<1> QED  BY <1>2, <1>3, <1>4

-----------------------------------------------------------------------------
(* The transitions of one state. *)

\* The analysis and the actor match descriptors alike.
LEMMA MatchesDescribes ==
  ASSUME NEW event \in Seq(STRING), NEW d \in Seq(STRING)
  PROVE  Matches(event, d) <=> Describes(d, event)
<1> DEFINE n == Len(d)
           prefix == SubSeq(d, 1, n - 1)
           Covers == /\ n > 1 /\ d[n] = "*" /\ "*" \notin Range(prefix)
                     /\ Len(prefix) <= Len(event) /\ prefix = SubSeq(event, 1, Len(prefix))
           Wild == \E i \in 1 .. n : /\ d[i] = "*" /\ i = n /\ i - 1 <= Len(event)
                                     /\ \A j \in 1 .. i - 1 : d[j] = event[j] /\ d[j] # "*"
<1>1. Matches(event, d) <=> d = event \/ d = <<"*">> \/ Covers
  BY DEF Matches
<1>2. Describes(d, event) <=> d = event \/ Wild
  BY DEF Describes
<1>3. n \in Nat /\ Len(event) \in Nat
  OBVIOUS
<1>4. Wild <=> /\ n \in 1 .. n /\ d[n] = "*" /\ n - 1 <= Len(event)
               /\ \A j \in 1 .. n - 1 : d[j] = event[j] /\ d[j] # "*"
  OBVIOUS
<1>5. d = <<"*">> <=> n = 1 /\ d[n] = "*"
  OBVIOUS
<1>6. CASE n = 0
  BY <1>1, <1>2, <1>3, <1>4, <1>5, <1>6
<1>7. CASE n = 1
  <2>1. Wild <=> d[n] = "*"
    BY <1>3, <1>4, <1>7
  <2>2. ~Covers
    BY <1>7
  <2> HIDE DEF Wild, Covers
  <2> QED  BY <1>1, <1>2, <1>5, <1>7, <2>1, <2>2
<1>8. CASE n > 1
  <2>1. Len(prefix) = n - 1 /\ DOMAIN prefix = 1 .. n - 1 /\ \A j \in 1 .. n - 1 : prefix[j] = d[j]
    BY <1>3, <1>8
  <2>2. "*" \notin Range(prefix) <=> \A j \in 1 .. n - 1 : d[j] # "*"
    <3> HIDE DEF prefix
    <3> QED  BY <2>1 DEF Range
  <2>3. ASSUME n - 1 <= Len(event)
        PROVE  prefix = SubSeq(event, 1, n - 1) <=> \A j \in 1 .. n - 1 : d[j] = event[j]
    <3> DEFINE other == SubSeq(event, 1, n - 1)
    <3>1. Len(other) = n - 1 /\ \A j \in 1 .. n - 1 : other[j] = event[j]
      BY <1>3, <1>8, <2>3
    <3>2. prefix \in Seq(STRING) /\ other \in Seq(STRING)
      BY <1>3, <1>8, <2>3
    <3>3. prefix = other <=> \A j \in 1 .. n - 1 : prefix[j] = other[j]
      <4>1. n - 1 \in Nat
        BY <1>3, <1>8
      <4> HIDE DEF prefix, other
      <4> QED  BY <2>1, <3>1, <3>2, <4>1
    <3> HIDE DEF prefix, other
    <3> QED  BY <2>1, <3>1, <3>3 DEF other
  <2>4. n \in 1 .. n
    BY <1>3, <1>8
  <2>5. Covers <=> Wild
    <3> HIDE DEF prefix, Wild
    <3> QED  BY <1>4, <1>8, <2>1, <2>2, <2>3, <2>4
  <2>6. d # <<"*">>
    BY <1>5, <1>8
  <2> HIDE DEF Covers, Wild
  <2> QED  BY <1>1, <1>2, <2>5, <2>6
<1>9. n = 0 \/ n = 1 \/ n > 1
  <2>1. \A l \in Nat : l = 0 \/ l = 1 \/ l > 1
    OBVIOUS
  <2> HIDE DEF n
  <2> QED  BY <1>3, <2>1
<1> HIDE DEF Covers, Wild, n
<1> QED  BY <1>6, <1>7, <1>8, <1>9

\* Of two descriptors that match an event but do not name it one is longer.
LEMMA LongerDescriptor ==
  ASSUME NEW event \in Seq(STRING), NEW d \in Seq(STRING), NEW e \in Seq(STRING),
         Describes(d, event), d # event, Describes(e, event), e # event, Len(d) = Len(e)
  PROVE  d = e
<1>1. d[Len(d)] = "*" /\ Len(d) \in Nat /\ \A j \in 1 .. Len(d) - 1 : d[j] = event[j]
  BY DEF Describes
<1>2. e[Len(e)] = "*" /\ \A j \in 1 .. Len(e) - 1 : e[j] = event[j]
  BY DEF Describes
<1>3. \A j \in 1 .. Len(d) : j = Len(d) \/ j \in 1 .. Len(d) - 1
  BY <1>1
<1>4. \A j \in 1 .. Len(d) : d[j] = e[j]
  BY <1>1, <1>2, <1>3
<1> QED  BY <1>4

\* A matching descriptor is at most one segment longer than the event.
LEMMA ShortDescriptor ==
  ASSUME NEW event \in Seq(STRING), NEW d \in Seq(STRING), Describes(d, event)
  PROVE  Len(d) <= Len(event) + 1
BY DEF Describes

\* What a definition reports of a state's handlers: all of them, but the first
\* transition of a list may be unreadable.
Reports(on, handlers) ==
  \/ on = Absent /\ DOMAIN handlers = {}
  \/ /\ on # Absent /\ DOMAIN on = DOMAIN handlers
     /\ \A d \in DOMAIN handlers :
          /\ on[d] = <<>> <=> handlers[d] = <<>>
          /\ on[d] # <<>> => on[d][1] \in {handlers[d][1], Malformed}

IsHandlers(handlers) ==
  /\ DOMAIN handlers \subseteq Seq(STRING)
  /\ \A d \in DOMAIN handlers : handlers[d] \in Seq(Transition)

Tried(on, event) ==
  {d \in IF event \in DOMAIN on THEN {event}
         ELSE {x \in DOMAIN on \ {event} : Matches(event, x)} : on[d] # <<>>}
First(on, event) == CHOOSE d \in Tried(on, event) : \A x \in Tried(on, event) : Len(d) >= Len(x)

\* Of the descriptors tried one is the longest.
LEMMA FirstIs ==
  ASSUME NEW event \in Seq(STRING), NEW on, DOMAIN on \subseteq Seq(STRING), Tried(on, event) # {}
  PROVE  /\ First(on, event) \in Tried(on, event)
         /\ \A x \in Tried(on, event) : Len(First(on, event)) >= Len(x)
<1> DEFINE T == Tried(on, event)
           short(d) == Len(event) + 1 - Len(d)
           lengths == {short(d) : d \in T}
<1>1. \A d \in T : d \in Seq(STRING) /\ Len(d) \in Nat /\ Len(d) <= Len(event) + 1
  <2> TAKE d \in T
  <2>1. d \in Seq(STRING) /\ (d = event \/ Matches(event, d))
    BY DEF Tried
  <2>2. Len(d) <= Len(event) + 1
    <3>1. CASE d = event
      BY <3>1
    <3>2. CASE Matches(event, d)
      BY <2>1, <3>2, MatchesDescribes, ShortDescriptor
    <3> QED  BY <2>1, <3>1, <3>2
  <2> QED  BY <2>1, <2>2
<1>2. lengths \in SUBSET Nat /\ lengths # {}
  <2>1. \A d \in T : short(d) \in Nat
    BY <1>1
  <2> HIDE DEF T, short
  <2> QED  BY <2>1 DEF T
<1>3. PICK l \in lengths : \A k \in lengths : l <= k
  <2> HIDE DEF lengths
  <2> QED  BY <1>2, LeastNumber
<1>4. PICK d \in T : l = short(d)
  OBVIOUS
<1>5. \A x \in T : short(d) <= short(x)
  <2> HIDE DEF short
  <2> QED  BY <1>3, <1>4
<1>6. \A x \in T : Len(d) >= Len(x)
  BY <1>1, <1>5
<1> HIDE DEF T
<1> QED  BY <1>6 DEF First, T

Considered(handlers, event, v) ==
  {x \in DOMAIN handlers :
     IF event \in DOMAIN handlers /\ (v = "5.28" \/ handlers[event] # <<>>)
     THEN x = event ELSE Describes(x, event)}
Open(handlers, event, v) == {x \in Considered(handlers, event, v) : handlers[x] # <<>>}

LEMMA CandidateIs ==
  ASSUME NEW n, NEW event, NEW v, IsHandlers(machine[n].on), NEW s \in Candidates(machine, n, event, v)
  PROVE  \E d \in Open(machine[n].on, event, v) : \E i \in Nat \ {0} :
           /\ s = <<n, d, i>> /\ s[1] = n /\ s[2] = d /\ s[3] = i
           /\ d \in Seq(STRING)
<1> DEFINE on == machine[n].on
<1>1. PICK d \in Considered(on, event, v) : \E j \in DOMAIN on[d] : s = <<n, d, j>>
  BY DEF Candidates, Considered
<1>2. PICK i \in DOMAIN on[d] : s = <<n, d, i>>
  BY <1>1
<1>3. d \in DOMAIN on
  BY DEF Considered
<1>4. d \in Seq(STRING) /\ on[d] \in Seq(Transition)
  BY <1>3 DEF IsHandlers
<1>5. i \in 1 .. Len(on[d]) /\ Len(on[d]) \in Nat
  BY <1>4
<1>6. i \in Nat \ {0} /\ on[d] # <<>>
  BY <1>4, <1>5
<1>7. s[1] = n /\ s[2] = d /\ s[3] = i
  BY <1>2
<1> QED  BY <1>2, <1>4, <1>6, <1>7 DEF Open

\* The first transition of the longest list with any is taken, if its guard passes.
LEMMA OwnLead ==
  ASSUME NEW n, NEW event, NEW v, NEW passing, IsHandlers(machine[n].on),
         NEW d \in Open(machine[n].on, event, v),
         \A x \in Open(machine[n].on, event, v) \ {d} : Len(d) > Len(x),
         machine[n].on[d][1] = "guarded" => <<n, d, 1>> \in passing
  PROVE  OwnChoice(machine, n, event, v, passing) = {<<n, d, 1>>}
<1> DEFINE on == machine[n].on
           C == Candidates(machine, n, event, v)
           open == {s \in C : TransitionAt(machine, s) = "guarded" => s \in passing}
           s0 == <<n, d, 1>>
<1>0. OwnChoice(machine, n, event, v, passing) = {s \in open : \A t \in open \ {s} : Before(s, t)}
  BY DEF OwnChoice
<1>1. s0[1] = n /\ s0[2] = d /\ s0[3] = 1
  OBVIOUS
<1>2. s0 \in C
  <2>1. d \in DOMAIN on /\ on[d] \in Seq(Transition) /\ on[d] # <<>>
    BY DEF Open, Considered, IsHandlers
  <2>2. 1 \in DOMAIN on[d]
    BY <2>1
  <2>3. d \in {x \in DOMAIN on : IF event \in DOMAIN on /\ (v = "5.28" \/ on[event] # <<>>)
                                 THEN x = event ELSE Describes(x, event)}
    BY DEF Open, Considered
  <2> QED  BY <2>2, <2>3 DEF Candidates
<1>3. s0 \in open
  <2>1. TransitionAt(machine, s0) = on[d][1]
    BY <1>1 DEF TransitionAt
  <2> HIDE DEF C, s0
  <2> QED  BY <1>2, <2>1 DEF s0
<1>4. ASSUME NEW t \in open, t # s0 PROVE Before(s0, t) /\ ~Before(t, s0)
  <2>1. t \in C
    OBVIOUS
  <2>2. PICK e \in Open(on, event, v) : \E j \in Nat \ {0} :
          t = <<n, e, j>> /\ t[1] = n /\ t[2] = e /\ t[3] = j /\ e \in Seq(STRING)
    BY <2>1, CandidateIs
  <2>3. PICK i \in Nat \ {0} : t = <<n, e, i>> /\ t[2] = e /\ t[3] = i /\ e \in Seq(STRING)
    BY <2>2
  <2>4. d \in Seq(STRING)
    BY DEF Open, Considered, IsHandlers
  <2>5. Len(d) \in Nat /\ Len(e) \in Nat
    BY <2>3, <2>4
  <2>6. CASE e = d
    <3>1. i # 1
      BY <1>4, <2>3, <2>6
    <3>2. i > 1
      BY <3>1
    <3> HIDE DEF s0
    <3> QED  BY <1>1, <2>3, <2>5, <2>6, <3>2 DEF Before
  <2>7. CASE e # d
    <3>1. Len(d) > Len(e)
      BY <2>2, <2>7
    <3> HIDE DEF s0
    <3> QED  BY <1>1, <2>3, <2>5, <2>7, <3>1 DEF Before
  <2> QED  BY <2>6, <2>7
<1> HIDE DEF open, s0
<1> QED  BY <1>0, <1>3, <1>4 DEF s0

LEMMA OwnNone ==
  ASSUME NEW n, NEW event, NEW v, NEW passing, IsHandlers(machine[n].on),
         Open(machine[n].on, event, v) = {}
  PROVE  OwnChoice(machine, n, event, v, passing) = {}
<1>1. Candidates(machine, n, event, v) = {}
  BY CandidateIs
<1> QED  BY <1>1 DEF OwnChoice

VersionDependent(on, event) ==
  /\ event \in DOMAIN on /\ on[event] = <<>>
  /\ {d \in DOMAIN on \ {event} : Matches(event, d)} # {}

\* The analysis tries what the actor considers, in either release.
LEMMA TriedIsOpen ==
  ASSUME NEW event \in Seq(STRING), NEW v, NEW on, NEW handlers, IsHandlers(handlers),
         Reports(on, handlers), on # Absent, ~VersionDependent(on, event)
  PROVE  Open(handlers, event, v) = Tried(on, event)
<1>1. DOMAIN on = DOMAIN handlers /\ \A d \in DOMAIN handlers : on[d] = <<>> <=> handlers[d] = <<>>
  BY DEF Reports
<1>2. \A d \in DOMAIN handlers : Matches(event, d) <=> Describes(d, event)
  <2> TAKE d \in DOMAIN handlers
  <2>1. d \in Seq(STRING)
    BY DEF IsHandlers
  <2> QED  BY <2>1, MatchesDescribes
<1>3. CASE event \in DOMAIN on /\ on[event] # <<>>
  BY <1>1, <1>3 DEF Open, Considered, Tried
<1>4. CASE event \in DOMAIN on /\ on[event] = <<>>
  <2>1. \A d \in DOMAIN handlers \ {event} : ~Describes(d, event)
    BY <1>1, <1>2, <1>4 DEF VersionDependent
  <2>2. Open(handlers, event, v) = {}
    BY <1>1, <1>4, <2>1 DEF Open, Considered
  <2>3. Tried(on, event) = {}
    BY <1>1, <1>4 DEF Tried
  <2> QED  BY <2>2, <2>3
<1>5. CASE event \notin DOMAIN on
  BY <1>1, <1>2, <1>5 DEF Open, Considered, Tried
<1> QED  BY <1>3, <1>4, <1>5

LEMMA FirstIsLongest ==
  ASSUME NEW event \in Seq(STRING), NEW on, DOMAIN on \subseteq Seq(STRING), Tried(on, event) # {}
  PROVE  /\ First(on, event) \in Tried(on, event)
         /\ \A x \in Tried(on, event) \ {First(on, event)} : Len(First(on, event)) > Len(x)
<1> DEFINE T == Tried(on, event)
           first == First(on, event)
<1>1. first \in T /\ \A x \in T : Len(first) >= Len(x)
  BY FirstIs
<1>2. ASSUME NEW x \in T, x # first PROVE Len(first) # Len(x)
  <2>1. event \notin DOMAIN on
    BY <1>1, <1>2 DEF Tried
  <2>2. \A d \in T : d # event /\ d \in Seq(STRING) /\ Describes(d, event)
    BY <2>1, MatchesDescribes DEF Tried
  <2> HIDE DEF T, first
  <2> QED  BY <1>1, <1>2, <2>2, LongerDescriptor
<1>3. \A x \in T : Len(x) \in Nat
  BY DEF Tried
<1>4. \A x \in T \ {first} : Len(first) > Len(x)
  <2> HIDE DEF T, first
  <2> QED  BY <1>1, <1>2, <1>3
<1> QED  BY <1>1, <1>4

Found(n, event) == <<n, First(definition.nodes[n].on, event)>>

\* The results Local can have, from the first transition of the list it takes.
LEMMA LocalIs ==
  ASSUME NEW n, NEW event
  PROVE  LET on == definition.nodes[n].on IN
         /\ on = Absent => Local(n, event) = None
         /\ on # Absent /\ VersionDependent(on, event)
              => Local(n, event) = Unavailable("version_dependent")
         /\ on # Absent /\ ~VersionDependent(on, event) /\ Tried(on, event) = {}
              => Local(n, event) = None
         /\ on # Absent /\ ~VersionDependent(on, event) /\ Tried(on, event) # {} =>
              LET lead == on[First(on, event)][1]
                  site == {Found(n, event)}
              IN  /\ lead = Malformed => Local(n, event) = Unavailable("definition_incomplete")
                  /\ lead = "guarded" =>
                       Local(n, event) = [Unavailable("guard_not_evaluated") EXCEPT !.matched = site]
                  /\ lead = "acts" =>
                       Local(n, event) = [canHandle |-> "yes", reason |-> "transition_found",
                                          matched |-> site, blocked |-> {}]
                  /\ lead = "forbidden" =>
                       Local(n, event) = [canHandle |-> "no", reason |-> "forbidden_transition",
                                          matched |-> {}, blocked |-> site]
<1> DEFINE on == definition.nodes[n].on
           lead == on[First(on, event)][1]
           site == {<<n, First(on, event)>>}
           Lead == CASE lead = Malformed -> Unavailable("definition_incomplete")
             [] lead = "guarded" ->
                  [Unavailable("guard_not_evaluated") EXCEPT !.matched = site]
             [] lead = "acts" ->
                  [canHandle |-> "yes", reason |-> "transition_found", matched |-> site, blocked |-> {}]
             [] lead = "forbidden" ->
                  [canHandle |-> "no", reason |-> "forbidden_transition", matched |-> {}, blocked |-> site]
<1>1. Local(n, event) =
        IF on = Absent THEN None
        ELSE IF VersionDependent(on, event) THEN Unavailable("version_dependent")
        ELSE IF Tried(on, event) = {} THEN None
        ELSE Lead
  BY Zenon DEF Local, VersionDependent, Tried, First
<1>2. Malformed \notin Transition
  BY SentinelAssumption
<1>3. /\ lead = Malformed => Lead = Unavailable("definition_incomplete")
      /\ lead = "guarded" => Lead = [Unavailable("guard_not_evaluated") EXCEPT !.matched = site]
      /\ lead = "acts" => Lead = [canHandle |-> "yes", reason |-> "transition_found",
                                  matched |-> site, blocked |-> {}]
      /\ lead = "forbidden" => Lead = [canHandle |-> "no", reason |-> "forbidden_transition",
                                       matched |-> {}, blocked |-> site]
  <2> HIDE DEF lead, site
  <2>1. Malformed # "guarded" /\ Malformed # "acts" /\ Malformed # "forbidden"
    BY <1>2 DEF Transition
  <2>2. CASE lead = Malformed
    BY <2>1, <2>2, Zenon
  <2>3. CASE lead = "guarded"
    BY <2>1, <2>3, Zenon
  <2>4. CASE lead = "acts"
    BY <2>1, <2>4, Zenon
  <2>5. CASE lead = "forbidden"
    BY <2>1, <2>5, Zenon
  <2> HIDE DEF Lead
  <2> QED  BY <2>2, <2>3, <2>4, <2>5
<1>4. site = {Found(n, event)}
  BY DEF Found
<1> HIDE DEF Lead
<1> QED  BY <1>1, <1>3, <1>4

LEMMA SitesOfOne ==
  ASSUME NEW n, NEW d
  PROVE  /\ machine[n].on[d][1] = "forbidden" =>
              Sites(machine, {<<n, d, 1>>}, TRUE) = {<<n, d>>} /\ Sites(machine, {<<n, d, 1>>}, FALSE) = {}
         /\ machine[n].on[d][1] # "forbidden" =>
              Sites(machine, {<<n, d, 1>>}, FALSE) = {<<n, d>>} /\ Sites(machine, {<<n, d, 1>>}, TRUE) = {}
<1> DEFINE s == <<n, d, 1>>
<1>1. s[1] = n /\ s[2] = d /\ s[3] = 1
  OBVIOUS
<1>2. TransitionAt(machine, s) = machine[n].on[d][1]
  BY <1>1 DEF TransitionAt
<1> HIDE DEF s
<1>3. machine[n].on[d][1] = "forbidden" =>
        Sites(machine, {s}, TRUE) = {<<n, d>>} /\ Sites(machine, {s}, FALSE) = {}
  BY <1>1, <1>2 DEF Sites
<1>4. machine[n].on[d][1] # "forbidden" =>
        Sites(machine, {s}, FALSE) = {<<n, d>>} /\ Sites(machine, {s}, TRUE) = {}
  BY <1>1, <1>2 DEF Sites
<1> QED  BY <1>3, <1>4 DEF s

SitesOfNone == \A f : Sites(machine, {}, f) = {}
LEMMA NoSites == SitesOfNone
BY DEF SitesOfNone, Sites

\* A result names what a selection takes, and answers by it.
Agrees(r, sel) == r.matched = Sites(machine, sel, FALSE) /\ r.blocked = Sites(machine, sel, TRUE)
Definite(r) == r.canHandle \in {"yes", "no"} /\ (r.canHandle = "yes" <=> r.matched # {})

Reported(n) == Reports(definition.nodes[n].on, machine[n].on) /\ IsHandlers(machine[n].on)

LEMMA LocalIsRight ==
  ASSUME NEW event \in Seq(STRING), NEW n, Reported(n), ~IsUnknown(Local(n, event))
  PROVE  /\ Definite(Local(n, event))
         /\ \A v, passing : Agrees(Local(n, event), OwnChoice(machine, n, event, v, passing))
<1> DEFINE on == definition.nodes[n].on
           handlers == machine[n].on
           r == Local(n, event)
           first == First(on, event)
<1>1. IsHandlers(handlers) /\ Reports(on, handlers)
  BY DEF Reported
<1>2. CASE on = Absent
  <2>1. r = None
    BY <1>2, LocalIs
  <2>2. \A v : Open(handlers, event, v) = {}
    BY <1>1, <1>2 DEF Reports, Open, Considered
  <2>3. \A v, passing : OwnChoice(machine, n, event, v, passing) = {}
    BY <1>1, <2>2, OwnNone
  <2> QED  BY <2>1, <2>3, NoSites DEF SitesOfNone, Agrees, Definite, None, Unavailable
<1>3. CASE on # Absent /\ VersionDependent(on, event)
  <2>1. r = Unavailable("version_dependent")
    BY <1>3, LocalIs
  <2> QED  BY <2>1 DEF IsUnknown, Unavailable
<1>4. CASE on # Absent /\ ~VersionDependent(on, event) /\ Tried(on, event) = {}
  <2>1. r = None
    BY <1>4, LocalIs
  <2>2. \A v : Open(handlers, event, v) = {}
    BY <1>1, <1>4, TriedIsOpen
  <2>3. \A v, passing : OwnChoice(machine, n, event, v, passing) = {}
    BY <1>1, <2>2, OwnNone
  <2> QED  BY <2>1, <2>3, NoSites DEF SitesOfNone, Agrees, Definite, None, Unavailable
<1>5. CASE on # Absent /\ ~VersionDependent(on, event) /\ Tried(on, event) # {}
  <2>1. DOMAIN on = DOMAIN handlers /\ DOMAIN on \subseteq Seq(STRING)
    BY <1>1, <1>5 DEF Reports, IsHandlers
  <2>2. /\ first \in Tried(on, event)
        /\ \A x \in Tried(on, event) \ {first} : Len(first) > Len(x)
    BY <1>5, <2>1, FirstIsLongest
  <2>3. on[first][1] \in {handlers[first][1], Malformed} /\ handlers[first][1] \in Transition
    <3>1. first \in DOMAIN handlers /\ on[first] # <<>>
      BY <2>1, <2>2 DEF Tried
    <3>2. handlers[first] # <<>> /\ handlers[first] \in Seq(Transition)
      BY <1>1, <1>5, <3>1 DEF Reports, IsHandlers
    <3>3. on[first][1] \in {handlers[first][1], Malformed}
      BY <1>1, <1>5, <3>1 DEF Reports
    <3>4. handlers[first][1] \in Transition
      BY <3>2
    <3> QED  BY <3>3, <3>4
  <2>4. on[first][1] # Malformed
    <3> SUFFICES ASSUME on[first][1] = Malformed PROVE FALSE
      OBVIOUS
    <3>1. r = Unavailable("definition_incomplete")
      BY <1>5, LocalIs
    <3> QED  BY <3>1 DEF IsUnknown, Unavailable
  <2>5. on[first][1] # "guarded"
    <3> SUFFICES ASSUME on[first][1] = "guarded" PROVE FALSE
      OBVIOUS
    <3>1. r = [Unavailable("guard_not_evaluated") EXCEPT !.matched = {Found(n, event)}]
      BY <1>5, LocalIs
    <3> QED  BY <3>1 DEF IsUnknown, Unavailable
  <2>6. \A v, passing : OwnChoice(machine, n, event, v, passing) = {<<n, first, 1>>}
    <3> TAKE v, passing
    <3>1. Open(handlers, event, v) = Tried(on, event)
      BY <1>1, <1>5, TriedIsOpen
    <3>2. first \in Open(handlers, event, v) /\ \A x \in Open(handlers, event, v) \ {first} : Len(first) > Len(x)
      BY <2>2, <3>1
    <3>3. handlers[first][1] # "guarded"
      BY <2>3, <2>4, <2>5
    <3> HIDE DEF first
    <3> QED  BY <1>1, <3>2, <3>3, OwnLead
  <2>7. Found(n, event) = <<n, first>>
    BY DEF Found
  <2>8. CASE handlers[first][1] = "acts"
    <3>1. r = [canHandle |-> "yes", reason |-> "transition_found", matched |-> {<<n, first>>}, blocked |-> {}]
      <4>1. on[first][1] = "acts"
        BY <2>3, <2>4, <2>8
      <4> QED  BY <1>5, <2>7, <4>1, LocalIs
    <3>2. /\ Sites(machine, {<<n, first, 1>>}, FALSE) = {<<n, first>>}
          /\ Sites(machine, {<<n, first, 1>>}, TRUE) = {}
      <4> HIDE DEF first
      <4> QED  BY <2>8, SitesOfOne
    <3> DEFINE own(v, passing) == OwnChoice(machine, n, event, v, passing)
    <3> HIDE DEF first, r, own
    <3>3. Definite(r)
      BY <3>1 DEF Definite
    <3>4. r.matched = Sites(machine, {<<n, first, 1>>}, FALSE) /\ r.blocked = Sites(machine, {<<n, first, 1>>}, TRUE)
      BY <3>1, <3>2
    <3>5. \A v, passing : own(v, passing) = {<<n, first, 1>>}
      BY <2>6 DEF own
    <3>6. \A v, passing : Agrees(r, own(v, passing))
      BY <3>4, <3>5 DEF Agrees
    <3> QED  BY <3>3, <3>6 DEF r, own
  <2>9. CASE handlers[first][1] = "forbidden"
    <3>1. r = [canHandle |-> "no", reason |-> "forbidden_transition", matched |-> {}, blocked |-> {<<n, first>>}]
      <4>1. on[first][1] = "forbidden"
        BY <2>3, <2>4, <2>9
      <4> QED  BY <1>5, <2>7, <4>1, LocalIs, SMTT(60)
    <3>2. /\ Sites(machine, {<<n, first, 1>>}, TRUE) = {<<n, first>>}
          /\ Sites(machine, {<<n, first, 1>>}, FALSE) = {}
      <4> HIDE DEF first
      <4> QED  BY <2>9, SitesOfOne
    <3> DEFINE own(v, passing) == OwnChoice(machine, n, event, v, passing)
    <3> HIDE DEF first, r, own
    <3>3. Definite(r)
      BY <3>1 DEF Definite
    <3>4. r.matched = Sites(machine, {<<n, first, 1>>}, FALSE) /\ r.blocked = Sites(machine, {<<n, first, 1>>}, TRUE)
      BY <3>1, <3>2
    <3>5. \A v, passing : own(v, passing) = {<<n, first, 1>>}
      BY <2>6 DEF own
    <3>6. \A v, passing : Agrees(r, own(v, passing))
      BY <3>4, <3>5 DEF Agrees
    <3> QED  BY <3>3, <3>6 DEF r, own
  <2> QED  BY <2>3, <2>4, <2>5, <2>8, <2>9 DEF Transition
<1> QED  BY <1>2, <1>3, <1>4, <1>5

\* The definition has all handlers of a state.
Whole(n) ==
  /\ IsHandlers(machine[n].on)
  /\ \/ definition.nodes[n].on = Absent /\ DOMAIN machine[n].on = {}
     \/ definition.nodes[n].on # Absent /\ definition.nodes[n].on = machine[n].on

LEMMA WholeReported ==
  ASSUME NEW n, Whole(n)
  PROVE  Reported(n)
BY DEF Whole, Reported, Reports

\* What an unknown result may come from: a guard, or a list the releases treat
\* differently.
Justified(r, event, sel) ==
  \/ /\ r.reason = "guard_not_evaluated" /\ r.matched # {}
     /\ r.matched \subseteq Sites(machine, sel, FALSE)
  \/ /\ r.reason = "version_dependent"
     /\ \E n \in configuration : event \in DOMAIN machine[n].on /\ machine[n].on[event] = <<>>

LEMMA LocalIsJustified ==
  ASSUME NEW event \in Seq(STRING), NEW n \in configuration, NEW v \in Versions,
         Whole(n), IsUnknown(Local(n, event))
  PROVE  Justified(Local(n, event), event,
                   OwnChoice(machine, n, event, v, Guards(machine, configuration, event)))
<1> DEFINE on == definition.nodes[n].on
           handlers == machine[n].on
           r == Local(n, event)
           first == First(on, event)
           passing == Guards(machine, configuration, event)
<1>1. IsHandlers(handlers) /\ Reports(on, handlers)
  BY WholeReported DEF Reported
<1>2. CASE on = Absent
  BY <1>2, LocalIs DEF IsUnknown, None, Unavailable
<1>3. CASE on # Absent /\ VersionDependent(on, event)
  <2>1. r = Unavailable("version_dependent")
    BY <1>3, LocalIs
  <2>2. event \in DOMAIN handlers /\ handlers[event] = <<>>
    BY <1>3 DEF Whole, VersionDependent
  <2>3. r.reason = "version_dependent"
    BY <2>1 DEF Unavailable
  <2> QED  BY <2>2, <2>3 DEF Justified
<1>4. CASE on # Absent /\ ~VersionDependent(on, event) /\ Tried(on, event) = {}
  BY <1>4, LocalIs DEF IsUnknown, None, Unavailable
<1>5. CASE on # Absent /\ ~VersionDependent(on, event) /\ Tried(on, event) # {}
  <2>1. on = handlers /\ DOMAIN on \subseteq Seq(STRING)
    BY <1>1, <1>5 DEF Whole, IsHandlers
  <2>2. /\ first \in Tried(on, event)
        /\ \A x \in Tried(on, event) \ {first} : Len(first) > Len(x)
    BY <1>5, <2>1, FirstIsLongest
  <2>3. handlers[first][1] \in Transition
    <3>1. first \in DOMAIN handlers /\ handlers[first] # <<>>
      BY <2>1, <2>2 DEF Tried
    <3>2. handlers[first] \in Seq(Transition)
      BY <1>1, <3>1 DEF IsHandlers
    <3> QED  BY <3>1, <3>2
  <2>4. handlers[first][1] # "acts"
    <3> SUFFICES ASSUME on[first][1] = "acts" PROVE FALSE
      BY <2>1
    <3>1. r = [canHandle |-> "yes", reason |-> "transition_found", matched |-> {Found(n, event)}, blocked |-> {}]
      BY <1>5, LocalIs
    <3> QED  BY <3>1 DEF IsUnknown
  <2>5. handlers[first][1] # "forbidden"
    <3> SUFFICES ASSUME on[first][1] = "forbidden" PROVE FALSE
      BY <2>1
    <3>1. r = [canHandle |-> "no", reason |-> "forbidden_transition", matched |-> {}, blocked |-> {Found(n, event)}]
      BY <1>5, LocalIs
    <3> QED  BY <3>1 DEF IsUnknown
  <2>6. handlers[first][1] = "guarded"
    BY <2>3, <2>4, <2>5 DEF Transition
  <2>7. r = [Unavailable("guard_not_evaluated") EXCEPT !.matched = {<<n, first>>}]
    <3>1. on[first][1] = "guarded"
      BY <2>1, <2>6
    <3>2. Found(n, event) = <<n, first>>
      BY DEF Found
    <3>3. r = [Unavailable("guard_not_evaluated") EXCEPT !.matched = {Found(n, event)}]
      BY <1>5, <3>1, LocalIs
    <3> HIDE DEF r, first
    <3> QED  BY <3>2, <3>3
  <2>8. Open(handlers, event, v) = Tried(on, event)
    BY <1>1, <1>5, TriedIsOpen
  <2>9. <<n, first, 1>> \in passing
    <3> DEFINE s == <<n, first, 1>>
    <3>1. s[1] = n /\ s[2] = first /\ s[3] = 1
      OBVIOUS
    <3>2. TransitionAt(machine, s) = "guarded"
      <4> HIDE DEF s, first
      <4> QED  BY <2>6, <3>1 DEF TransitionAt
    <3>3. s \in Candidates(machine, n, event, v)
      <4>1. first \in DOMAIN handlers /\ handlers[first] \in Seq(Transition) /\ handlers[first] # <<>>
        BY <1>1, <2>1, <2>2 DEF Tried, IsHandlers
      <4>2. 1 \in DOMAIN handlers[first]
        BY <4>1
      <4>3. first \in {x \in DOMAIN handlers :
                         IF event \in DOMAIN handlers /\ (v = "5.28" \/ handlers[event] # <<>>)
                         THEN x = event ELSE Describes(x, event)}
        <5>1. first \in Open(handlers, event, v)
          BY <2>2, <2>8
        <5> HIDE DEF first
        <5> QED  BY <5>1 DEF Open, Considered
      <4> HIDE DEF first
      <4> QED  BY <4>2, <4>3 DEF Candidates
    <3> HIDE DEF s
    <3> QED  BY <3>2, <3>3 DEF Guards, s
  <2>10. OwnChoice(machine, n, event, v, passing) = {<<n, first, 1>>}
    <3>1. first \in Open(handlers, event, v) /\ \A x \in Open(handlers, event, v) \ {first} : Len(first) > Len(x)
      BY <2>2, <2>8
    <3> HIDE DEF first, passing
    <3> QED  BY <1>1, <2>9, <3>1, OwnLead
  <2>11. Sites(machine, {<<n, first, 1>>}, FALSE) = {<<n, first>>}
    <3> HIDE DEF first
    <3> QED  BY <2>6, SitesOfOne
  <2>12. r.reason = "guard_not_evaluated" /\ r.matched = {<<n, first>>}
    BY <2>7 DEF Unavailable
  <2> HIDE DEF first, r, passing
  <2> QED  BY <2>10, <2>11, <2>12 DEF Justified, r, passing
<1> QED  BY <1>2, <1>3, <1>4, <1>5

-----------------------------------------------------------------------------
(* What a part of the tree selects. *)

LEMMA GreatestNumber ==
  ASSUME NEW T \in SUBSET Nat, T # {}, IsFiniteSet(T)
  PROVE  \E n \in T : \A m \in T : m <= n
<1>1. PICK M \in Nat : \A n \in T : n <= M
  BY Bound
<1> DEFINE rest == {M - n : n \in T}
<1>2. \A n \in T : M - n \in Nat
  BY <1>1
<1>3. PICK k \in rest : \A l \in rest : k <= l
  <2>1. rest \in SUBSET Nat /\ rest # {}
    BY <1>2
  <2> HIDE DEF rest
  <2> QED  BY <2>1, LeastNumber
<1>4. PICK n \in T : k = M - n
  OBVIOUS
<1>5. \A m \in T : M - n <= M - m
  BY <1>3, <1>4
<1> QED  BY <1>1, <1>4, <1>5

LEMMA InsideAbove ==
  ASSUME NEW S, IsTree(S), NEW n \in S, NEW d \in Inside(n, S)
  PROVE  d \in S /\ n < d
<1> DEFINE K == {e \in S : e \in Inside(n, S) => n < e}
<1>1. S \subseteq Nat
  BY NodeAssumption DEF IsTree
<1>2. ASSUME NEW e \in S, e # 0 => Parent[e] \in K PROVE e \in K
  <2> SUFFICES ASSUME e \in Inside(n, S) PROVE n < e
    OBVIOUS
  <2>1. e # 0 /\ (Parent[e] = n \/ Parent[e] \in Inside(n, S))
    BY InsideStep
  <2>2. e \in Nat /\ n \in Nat /\ Parent[e] < e /\ Parent[e] \in Nat
    BY <1>1, <2>1, ParentAssumption DEF IsTree
  <2>3. n <= Parent[e]
    BY <1>2, <2>1, <2>2
  <2> QED  BY <2>2, <2>3
<1>3. S \subseteq K
  <2> HIDE DEF K
  <2> QED  BY <1>2, DownTheTree
<1>4. d \in S
  BY InsideStep
<1> QED  BY <1>3, <1>4

\* What a state and those inside it select, and whether nothing inside it does.
Quiet(own, S, n) == \A d \in Inside(n, S) : own[d] = {}
Sel(own, S, n) == UNION {own[m] : m \in {k \in {n} \cup Inside(n, S) : Quiet(own, S, k)}}

LEMMA SelSplit ==
  ASSUME NEW S, IsTree(S), NEW own, NEW n
  PROVE  Sel(own, S, n) = (UNION {Sel(own, S, c) : c \in ChildrenIn(n, S)})
                          \cup (IF Quiet(own, S, n) THEN own[n] ELSE {})
<1> DEFINE quiet == {k \in {n} \cup Inside(n, S) : Quiet(own, S, k)}
           under(c) == {k \in {c} \cup Inside(c, S) : Quiet(own, S, k)}
<1>1. Inside(n, S) = UNION {{c} \cup Inside(c, S) : c \in ChildrenIn(n, S)}
  BY InsideChildren
<1>2. \A k : k \in quiet <=> \/ k = n /\ Quiet(own, S, n)
                             \/ \E c \in ChildrenIn(n, S) : k \in under(c)
  BY <1>1
<1>3. \A s : s \in Sel(own, S, n) <=> \E k \in quiet : s \in own[k]
  BY DEF Sel
<1>4. \A c, s : s \in Sel(own, S, c) <=> \E k \in under(c) : s \in own[k]
  BY DEF Sel
<1>5. \A s : s \in Sel(own, S, n) <=> \/ Quiet(own, S, n) /\ s \in own[n]
                                      \/ \E c \in ChildrenIn(n, S) : s \in Sel(own, S, c)
  <2> HIDE DEF quiet, under
  <2> QED  BY <1>2, <1>3, <1>4
<1> DEFINE below == UNION {Sel(own, S, c) : c \in ChildrenIn(n, S)}
<1>6. \A s : s \in below <=> \E c \in ChildrenIn(n, S) : s \in Sel(own, S, c)
  OBVIOUS
<1> HIDE DEF below
<1>7. \A s : s \in Sel(own, S, n) <=> s \in below \/ (Quiet(own, S, n) /\ s \in own[n])
  BY <1>5, <1>6
<1>8. Sel(own, S, n) = below \cup (IF Quiet(own, S, n) THEN own[n] ELSE {})
  <2>1. CASE Quiet(own, S, n)
    <3>1. \A s : s \in Sel(own, S, n) <=> s \in below \cup own[n]
      BY <1>7, <2>1
    <3>2. Sel(own, S, n) = below \cup own[n]
      BY <3>1, Zenon
    <3> QED  BY <2>1, <3>2
  <2>2. CASE ~Quiet(own, S, n)
    <3>1. \A s : s \in Sel(own, S, n) <=> s \in below \cup {}
      BY <1>7, <2>2
    <3>2. Sel(own, S, n) = below \cup {}
      BY <3>1, Zenon
    <3> QED  BY <2>2, <3>2
  <2> QED  BY <2>1, <2>2
<1> QED  BY <1>8 DEF below

LEMMA SelNone ==
  ASSUME NEW S, IsTree(S), IsFiniteSet(S), NEW own, NEW n \in S, Sel(own, S, n) = {}
  PROVE  own[n] = {} /\ Quiet(own, S, n)
<1> DEFINE T == {d \in {n} \cup Inside(n, S) : own[d] # {}}
<1> SUFFICES ASSUME T # {} PROVE FALSE
  BY DEF Quiet
<1>1. T \subseteq S /\ S \subseteq Nat
  BY InsideStep, NodeAssumption DEF IsTree
<1>2. PICK d \in T : \A e \in T : e <= d
  <2>1. IsFiniteSet(T) /\ T \in SUBSET Nat
    <3> HIDE DEF T
    <3> QED  BY <1>1, FS_Subset
  <2> HIDE DEF T
  <2> QED  BY <2>1, GreatestNumber
<1>3. ASSUME NEW e \in Inside(d, S) PROVE own[e] = {}
  <2>1. d \in S /\ e \in S /\ d < e
    BY <1>1, InsideAbove
  <2>2. e \in Inside(n, S)
    BY InsideFurther
  <2>3. e \notin T
    BY <1>1, <1>2, <2>1
  <2> QED  BY <2>2, <2>3
<1>4. d \in {n} \cup Inside(n, S) /\ Quiet(own, S, d) /\ own[d] # {}
  BY <1>3 DEF Quiet
<1> QED  BY <1>4 DEF Sel

LEMMA QuietSel ==
  ASSUME NEW S, IsTree(S), IsFiniteSet(S), NEW own, NEW n,
         \A c \in ChildrenIn(n, S) : Sel(own, S, c) = {}
  PROVE  Quiet(own, S, n)
<1>1. \A c \in ChildrenIn(n, S) : own[c] = {} /\ Quiet(own, S, c)
  BY SelNone DEF ChildrenIn
<1> QED  BY <1>1, InsideChildren DEF Quiet

Own(event, v, passing) == [n \in configuration |-> OwnChoice(machine, n, event, v, passing)]

LEMMA SelectionIsSel ==
  ASSUME NEW event, NEW v, NEW passing, IsTree(configuration)
  PROVE  Selection(machine, configuration, event, v, passing)
           = Sel(Own(event, v, passing), configuration, 0)
<1>1. configuration = {0} \cup Inside(0, configuration)
  BY AllInsideRoot
<1> QED  BY <1>1 DEF Selection, Sel, Quiet, Own

-----------------------------------------------------------------------------
(* visit() as a function of the states it comes to. *)

Result(g, event, n) ==
  IF Fault(n) # "none" THEN Unavailable(Fault(n)) ELSE Decide(n, [c \in Keys(n) |-> g[c]], event)

\* What visit() comes to is finite and it only goes down.
GoesDown ==
  /\ Reached \subseteq Nat /\ IsFiniteSet(Reached)
  /\ \A n \in Reached : Fault(n) = "none" => \A c \in Keys(n) : c \in Reached /\ n < c

LEMMA SameBelow ==
  ASSUME NEW event, NEW g, NEW h, NEW n, Fault(n) = "none" => \A c \in Keys(n) : g[c] = h[c]
  PROVE  Result(g, event, n) = Result(h, event, n)
<1>1. CASE Fault(n) # "none"
  BY <1>1 DEF Result
<1>2. CASE Fault(n) = "none"
  <2>1. [c \in Keys(n) |-> g[c]] = [c \in Keys(n) |-> h[c]]
    BY <1>2
  <2> QED  BY <1>2, <2>1 DEF Result
<1> QED  BY <1>1, <1>2

LEMMA VisitIs ==
  ASSUME NEW event, GoesDown
  PROVE  \E f : Visit(event) = f[0] /\ \A n \in Reached : f[n] = Result(f, event, n)
<1>1. PICK M \in Nat : \A n \in Reached : n <= M
  BY Bound DEF GoesDown
<1> DEFINE Step(g) == [n \in Reached |-> Result(g, event, n)]
           Solves(k, g) == \A n \in Reached : n + k > M => g[n] = Result(g, event, n)
           X == {k \in Nat : \E g : Solves(k, g)}
<1>2. 0 \in X
  <2>1. \A n \in Reached : n \in Nat /\ ~(n + 0 > M)
    BY <1>1 DEF GoesDown
  <2> QED  BY <2>1
<1>3. ASSUME NEW k \in Nat, k \in X PROVE k + 1 \in X
  <2>1. PICK g : Solves(k, g)
    BY <1>3
  <2>2. Solves(k + 1, Step(g))
    <3> SUFFICES ASSUME NEW n \in Reached, n + (k + 1) > M
                 PROVE  Step(g)[n] = Result(Step(g), event, n)
      OBVIOUS
    <3>1. Fault(n) = "none" => \A c \in Keys(n) : g[c] = Step(g)[c]
      <4> SUFFICES ASSUME Fault(n) = "none", NEW c \in Keys(n) PROVE g[c] = Step(g)[c]
        OBVIOUS
      <4>1. c \in Reached /\ n < c /\ c \in Nat /\ n \in Nat
        BY DEF GoesDown
      <4>2. c + k > M
        BY <4>1
      <4>3. Step(g)[c] = Result(g, event, c)
        BY <4>1
      <4> HIDE DEF Step
      <4> QED  BY <2>1, <4>1, <4>2, <4>3
    <3>2. Step(g)[n] = Result(g, event, n)
      OBVIOUS
    <3> HIDE DEF Step
    <3> QED  BY <3>1, <3>2, SameBelow
  <2> HIDE DEF Solves
  <2> QED  BY <2>2
<1>4. M + 1 \in X
  <2> HIDE DEF X
  <2> QED  BY <1>2, <1>3, Inductive
<1>5. PICK g : Solves(M + 1, g)
  BY <1>4
<1>6. \A n \in Reached : g[n] = Result(g, event, n)
  <2> TAKE n \in Reached
  <2>1. n \in Nat
    BY DEF GoesDown
  <2>2. n + (M + 1) > M
    BY <2>1
  <2> QED  BY <1>5, <2>2
<1> DEFINE h == [n \in Reached |-> g[n]]
           f == CHOOSE x : x = Step(x)
<1>7. h = Step(h)
  <2>1. ASSUME NEW n \in Reached PROVE g[n] = Result(h, event, n)
    <3>1. Fault(n) = "none" => \A c \in Keys(n) : g[c] = h[c]
      BY DEF GoesDown
    <3> HIDE DEF h
    <3>2. Result(g, event, n) = Result(h, event, n)
      BY <3>1, SameBelow
    <3> QED  BY <1>6, <3>2
  <2> QED  BY <2>1
<1>8. f = Step(f)
  <2> HIDE DEF Step, h
  <2> QED  BY <1>7
<1>9. Visit(event) = f[0]
  BY DEF Visit, Result
<1> HIDE DEF f
<1> QED  BY <1>8, <1>9

-----------------------------------------------------------------------------
(* From the children's results to a state's. *)

SitesOfUnion == \A X, f : Sites(machine, UNION X, f) = UNION {Sites(machine, x, f) : x \in X}
LEMMA UnionOfSites == SitesOfUnion
<1> SUFFICES ASSUME NEW X, NEW f
             PROVE  Sites(machine, UNION X, f) = UNION {Sites(machine, x, f) : x \in X}
  BY DEF SitesOfUnion
<1>1. \A x, s : s \in Sites(machine, x, f) <=>
        \E t \in x : (TransitionAt(machine, t) = "forbidden") = f /\ s = <<t[1], t[2]>>
  BY DEF Sites
<1>2. \A s : s \in Sites(machine, UNION X, f) <=> \E x \in X : s \in Sites(machine, x, f)
  BY <1>1
<1> QED  BY <1>2

LEMMA SitesGrow ==
  ASSUME NEW a, NEW b, a \subseteq b, NEW f
  PROVE  Sites(machine, a, f) \subseteq Sites(machine, b, f)
BY DEF Sites

LEMMA SitesShowAll ==
  ASSUME NEW sel, Sites(machine, sel, TRUE) = {}, Sites(machine, sel, FALSE) = {}
  PROVE  sel = {}
<1> SUFFICES ASSUME NEW s \in sel PROVE FALSE
  OBVIOUS
<1>1. CASE TransitionAt(machine, s) = "forbidden"
  <2>1. (TransitionAt(machine, s) = "forbidden") = TRUE
    BY <1>1
  <2>2. <<s[1], s[2]>> \in Sites(machine, sel, TRUE)
    BY <2>1 DEF Sites
  <2> QED  BY <2>2
<1>2. CASE TransitionAt(machine, s) # "forbidden"
  <2>1. (TransitionAt(machine, s) = "forbidden") = FALSE
    BY <1>2
  <2>2. <<s[1], s[2]>> \in Sites(machine, sel, FALSE)
    BY <2>1 DEF Sites
  <2> QED  BY <2>2
<1> QED  BY <1>1, <1>2

LEMMA SelOfChild ==
  ASSUME NEW S, IsTree(S), NEW own, NEW n, NEW c \in ChildrenIn(n, S)
  PROVE  /\ Sel(own, S, c) \subseteq Sel(own, S, n)
         /\ Quiet(own, S, n) => Sel(own, S, c) = {}
<1>1. Sel(own, S, c) \subseteq Sel(own, S, n)
  BY SelSplit
<1>2. ASSUME Quiet(own, S, n) PROVE Sel(own, S, c) = {}
  <2>1. {c} \cup Inside(c, S) \subseteq Inside(n, S)
    BY InsideChildren
  <2>2. \A k \in {c} \cup Inside(c, S) : own[k] = {}
    BY <1>2, <2>1 DEF Quiet
  <2> QED  BY <2>2 DEF Sel
<1> QED  BY <1>1, <1>2

LEMMA FirstUnknown ==
  ASSUME NEW n, NEW results, NEW event, DOMAIN results \subseteq Nat,
         NEW x \in DOMAIN results, IsUnknown(results[x])
  PROVE  \E c \in DOMAIN results : IsUnknown(results[c]) /\ Decide(n, results, event) = results[c]
<1> DEFINE unknown == {c \in DOMAIN results : IsUnknown(results[c])}
<1>1. \E c \in unknown : \A y \in unknown : c <= y
  <2>1. unknown \in SUBSET Nat /\ unknown # {}
    OBVIOUS
  <2> HIDE DEF unknown
  <2> QED  BY <2>1, LeastNumber
<1>2. PICK c \in unknown : c = CHOOSE d \in unknown : \A y \in unknown : d <= y
  <2> HIDE DEF unknown
  <2> QED  BY <1>1
<1>3. Decide(n, results, event) = results[c]
  BY <1>2 DEF Decide
<1> QED  BY <1>3

\* The states below are active, and what is said of each is right.
RightBelow(n, results, event) ==
  /\ DOMAIN results = ChildrenIn(n, configuration)
  /\ \A c \in ChildrenIn(n, configuration) : ~IsUnknown(results[c]) =>
       /\ Definite(results[c])
       /\ \A v, passing : Agrees(results[c], Sel(Own(event, v, passing), configuration, c))

ActiveTree == IsTree(configuration) /\ IsFiniteSet(configuration)

LEMMA OwnIs ==
  ASSUME NEW event, NEW v, NEW passing, NEW n \in configuration
  PROVE  Own(event, v, passing)[n] = OwnChoice(machine, n, event, v, passing)
BY DEF Own

LEMMA NothingBelow ==
  ASSUME NEW event, NEW n, NEW results, ActiveTree, RightBelow(n, results, event),
         \A c \in DOMAIN results : ~IsUnknown(results[c]) /\ ~Selected(results[c]), NEW v, NEW passing
  PROVE  /\ Quiet(Own(event, v, passing), configuration, n)
         /\ n \in configuration =>
              Sel(Own(event, v, passing), configuration, n) = OwnChoice(machine, n, event, v, passing)
<1> DEFINE own == Own(event, v, passing)
           S == configuration
<1>1. \A c \in ChildrenIn(n, S) : Sel(own, S, c) = {}
  <2> TAKE c \in ChildrenIn(n, S)
  <2>1. results[c].matched = {} /\ results[c].blocked = {}
    BY DEF RightBelow, Selected
  <2>2. Agrees(results[c], Sel(own, S, c))
    BY DEF RightBelow
  <2> HIDE DEF own
  <2> QED  BY <2>1, <2>2, SitesShowAll DEF Agrees
<1>2. Quiet(own, S, n)
  <2> HIDE DEF own
  <2> QED  BY <1>1, QuietSel DEF ActiveTree
<1>3. Sel(own, S, n) = (UNION {Sel(own, S, c) : c \in ChildrenIn(n, S)}) \cup own[n]
  <2> HIDE DEF own
  <2> QED  BY <1>2, SelSplit DEF ActiveTree
<1>4. Sel(own, S, n) = own[n]
  <2> HIDE DEF own
  <2> QED  BY <1>1, <1>3
<1> QED  BY <1>2, <1>4, OwnIs

LEMMA DecideRight ==
  ASSUME NEW event \in Seq(STRING), NEW n \in configuration, NEW results, ActiveTree,
         RightBelow(n, results, event), Reported(n), ~IsUnknown(Decide(n, results, event))
  PROVE  /\ Definite(Decide(n, results, event))
         /\ \A v, passing : Agrees(Decide(n, results, event), Sel(Own(event, v, passing), configuration, n))
<1> DEFINE S == configuration
           r == Decide(n, results, event)
           C == ChildrenIn(n, S)
           chosen == {x \in Range(results) : Selected(x)}
<1>1. DOMAIN results = C /\ C \subseteq S /\ S \subseteq Nat
  BY NodeAssumption DEF RightBelow, ChildrenIn, ActiveTree, IsTree
<1>2. ASSUME NEW c \in C PROVE ~IsUnknown(results[c])
  <2> SUFFICES ASSUME IsUnknown(results[c]) PROVE FALSE
    OBVIOUS
  <2>1. DOMAIN results \subseteq Nat /\ c \in DOMAIN results
    BY <1>1
  <2> QED  BY <2>1, FirstUnknown
<1>3. ASSUME NEW c \in C
      PROVE  /\ Definite(results[c])
             /\ \A v, passing : Agrees(results[c], Sel(Own(event, v, passing), S, c))
  BY <1>2 DEF RightBelow
<1>4. {c \in DOMAIN results : IsUnknown(results[c])} = {}
  BY <1>1, <1>2
<1>5. CASE chosen = {}
  <2>1. r = Local(n, event)
    BY <1>4, <1>5 DEF Decide
  <2>2. \A c \in DOMAIN results : ~IsUnknown(results[c]) /\ ~Selected(results[c])
    BY <1>1, <1>2, <1>5 DEF Range
  <2>3. \A v, passing : Sel(Own(event, v, passing), S, n) = OwnChoice(machine, n, event, v, passing)
    <3> TAKE v, passing
    <3> QED  BY <2>2, NothingBelow
  <2>4. ~IsUnknown(Local(n, event))
    BY <2>1
  <2>5. /\ Definite(Local(n, event))
        /\ \A v, passing : Agrees(Local(n, event), OwnChoice(machine, n, event, v, passing))
    BY <2>4, LocalIsRight
  <2> HIDE DEF r
  <2>6. Definite(r)
    BY <2>1, <2>5
  <2>7. \A v, passing : Agrees(r, Sel(Own(event, v, passing), S, n))
    <3> TAKE v, passing
    <3>1. Sel(Own(event, v, passing), S, n) = OwnChoice(machine, n, event, v, passing)
      BY <2>3
    <3>2. Agrees(Local(n, event), OwnChoice(machine, n, event, v, passing))
      BY <2>5
    <3>3. Agrees(r, OwnChoice(machine, n, event, v, passing))
      BY <2>1, <3>2, Zenon
    <3> QED  BY <3>1, <3>3, Zenon
  <2> QED  BY <2>6, <2>7 DEF r
<1>6. CASE chosen # {}
  <2>1. r = Merge(chosen)
    BY <1>4, <1>6 DEF Decide
  <2>2. \A x \in Range(results) : \E c \in C : x = results[c]
    BY <1>1 DEF Range
  <2>3. \A c \in C : results[c] \in Range(results)
    BY <1>1 DEF Range
  <2>4. /\ r.matched = UNION {x.matched : x \in chosen}
        /\ r.blocked = UNION {x.blocked : x \in chosen}
        /\ r.canHandle = IF \E x \in chosen : x.canHandle = "yes" THEN "yes" ELSE "no"
    BY <2>1 DEF Merge
  <2>5. \A x \in chosen : x.canHandle = "yes" <=> x.matched # {}
    BY <1>3, <2>2 DEF Definite
  <2>6. Definite(r)
    <3>1. (\E x \in chosen : x.canHandle = "yes") <=> r.matched # {}
      <4> HIDE DEF chosen, r
      <4> QED  BY <2>4, <2>5
    <3> HIDE DEF chosen, r
    <3> QED  BY <2>4, <3>1 DEF Definite
  <2>7. /\ UNION {x.matched : x \in chosen} = UNION {results[c].matched : c \in C}
        /\ UNION {x.blocked : x \in chosen} = UNION {results[c].blocked : c \in C}
    <3>1. \A x \in chosen : \E c \in C : x = results[c]
      BY <2>2
    <3>2. \A c \in C : results[c] \in chosen \/ (results[c].matched = {} /\ results[c].blocked = {})
      BY <2>3 DEF Selected
    <3> HIDE DEF chosen, C
    <3> QED  BY <3>1, <3>2
  <2>8. ASSUME NEW v, NEW passing PROVE Agrees(r, Sel(Own(event, v, passing), S, n))
    <3> DEFINE own == Own(event, v, passing)
               sel(c) == Sel(own, S, c)
               all == {sel(c) : c \in C}
    <3>1. \A c \in C : results[c].matched = Sites(machine, sel(c), FALSE)
                       /\ results[c].blocked = Sites(machine, sel(c), TRUE)
      BY <1>3 DEF Agrees
    <3>2. ~Quiet(own, S, n)
      <4>1. PICK c \in C : Selected(results[c])
        BY <1>6, <2>2
      <4>2. Sites(machine, sel(c), FALSE) # {} \/ Sites(machine, sel(c), TRUE) # {}
        <5> HIDE DEF sel
        <5> QED  BY <3>1, <4>1 DEF Selected
      <4>3. sel(c) # {}
        <5> HIDE DEF sel
        <5> QED  BY <4>2, NoSites DEF SitesOfNone
      <4> HIDE DEF own
      <4> QED  BY <4>3, SelOfChild DEF ActiveTree
    <3>3. sel(n) = UNION all
      <4>1. sel(n) = (UNION all) \cup (IF Quiet(own, S, n) THEN own[n] ELSE {})
        <5> HIDE DEF own
        <5> QED  BY SelSplit DEF ActiveTree
      <4> HIDE DEF own, sel, all
      <4> QED  BY <3>2, <4>1
    <3>4. \A f : Sites(machine, sel(n), f) = UNION {Sites(machine, x, f) : x \in all}
      <4> HIDE DEF all, sel
      <4> QED  BY <3>3, UnionOfSites DEF SitesOfUnion
    <3>5. \A f : UNION {Sites(machine, x, f) : x \in all} = UNION {Sites(machine, sel(c), f) : c \in C}
      <4> HIDE DEF sel, C
      <4> QED  OBVIOUS
    <3>6. UNION {results[c].matched : c \in C} = UNION {Sites(machine, sel(c), FALSE) : c \in C}
      <4> HIDE DEF sel, C
      <4> QED  BY <3>1
    <3>7. UNION {results[c].blocked : c \in C} = UNION {Sites(machine, sel(c), TRUE) : c \in C}
      <4> HIDE DEF sel, C
      <4> QED  BY <3>1
    <3> DEFINE m == UNION {results[c].matched : c \in C}
               b == UNION {results[c].blocked : c \in C}
               parts(f) == UNION {Sites(machine, sel(c), f) : c \in C}
    <3>8. r.matched = m /\ r.blocked = b
      BY <2>4, <2>7
    <3>9. m = parts(FALSE) /\ b = parts(TRUE) /\ \A f : Sites(machine, sel(n), f) = parts(f)
      <4> HIDE DEF all, sel, C
      <4> QED  BY <3>4, <3>5, <3>6, <3>7
    <3> HIDE DEF m, b, parts, r, sel
    <3>10. r.matched = Sites(machine, sel(n), FALSE) /\ r.blocked = Sites(machine, sel(n), TRUE)
      BY <3>8, <3>9
    <3> QED  BY <3>10 DEF Agrees, sel
  <2> QED  BY <2>6, <2>8
<1> QED  BY <1>5, <1>6

JustifiedBelow(n, results, event, v) ==
  \A c \in ChildrenIn(n, configuration) : IsUnknown(results[c]) =>
    Justified(results[c], event,
              Sel(Own(event, v, Guards(machine, configuration, event)), configuration, c))

LEMMA DecideJustified ==
  ASSUME NEW event \in Seq(STRING), NEW n \in configuration, NEW v \in Versions, NEW results, ActiveTree,
         RightBelow(n, results, event), JustifiedBelow(n, results, event, v), Whole(n),
         IsUnknown(Decide(n, results, event))
  PROVE  Justified(Decide(n, results, event), event,
                   Sel(Own(event, v, Guards(machine, configuration, event)), configuration, n))
<1> DEFINE S == configuration
           r == Decide(n, results, event)
           C == ChildrenIn(n, S)
           passing == Guards(machine, configuration, event)
           own == Own(event, v, passing)
           chosen == {x \in Range(results) : Selected(x)}
<1>1. DOMAIN results = C /\ C \subseteq Nat
  BY NodeAssumption DEF RightBelow, ChildrenIn, ActiveTree, IsTree
<1>2. CASE \E c \in C : IsUnknown(results[c])
  <2>1. PICK c \in C : IsUnknown(results[c]) /\ r = results[c]
    BY <1>1, <1>2, FirstUnknown
  <2>2. Justified(r, event, Sel(own, S, c))
    BY <2>1 DEF JustifiedBelow
  <2>3. Sites(machine, Sel(own, S, c), FALSE) \subseteq Sites(machine, Sel(own, S, n), FALSE)
    <3>1. Sel(own, S, c) \subseteq Sel(own, S, n)
      <4> HIDE DEF own
      <4> QED  BY SelOfChild DEF ActiveTree
    <3> HIDE DEF own
    <3> QED  BY <3>1, SitesGrow
  <2> HIDE DEF r, own
  <2>4. Justified(r, event, Sel(own, S, n))
    BY <2>2, <2>3 DEF Justified
  <2> QED  BY <2>4 DEF r, own
<1>3. CASE \A c \in C : ~IsUnknown(results[c])
  <2>1. {c \in DOMAIN results : IsUnknown(results[c])} = {}
    BY <1>1, <1>3
  <2>2. chosen = {}
    <3> SUFFICES ASSUME chosen # {} PROVE FALSE
      OBVIOUS
    <3>1. r = Merge(chosen)
      BY <2>1 DEF Decide
    <3> QED  BY <3>1 DEF Merge, IsUnknown
  <2>3. r = Local(n, event)
    BY <2>1, <2>2 DEF Decide
  <2>4. \A c \in DOMAIN results : ~IsUnknown(results[c]) /\ ~Selected(results[c])
    BY <1>1, <1>3, <2>2 DEF Range
  <2>5. Sel(own, S, n) = OwnChoice(machine, n, event, v, passing)
    BY <2>4, NothingBelow
  <2>6. Justified(r, event, OwnChoice(machine, n, event, v, passing))
    BY <2>3, LocalIsJustified
  <2> HIDE DEF r, own, passing
  <2>7. Justified(r, event, Sel(own, S, n))
    BY <2>5, <2>6
  <2> QED  BY <2>7 DEF r, own, passing
<1> QED  BY <1>2, <1>3

-----------------------------------------------------------------------------
(* The analysis of the whole tree. *)

\* What holds of a state if it holds of those visit() goes on to holds of all.
LEMMA UpTheVisit ==
  ASSUME GoesDown, NEW K, \A n \in Reached : (Fault(n) = "none" => Keys(n) \subseteq K) => n \in K
  PROVE  Reached \subseteq K
<1> DEFINE bad == {n \in Reached : n \notin K}
<1> SUFFICES ASSUME bad # {} PROVE FALSE
  OBVIOUS
<1>1. PICK n \in bad : \A m \in bad : m <= n
  <2>1. bad \subseteq Reached
    OBVIOUS
  <2> HIDE DEF bad
  <2>2. bad \in SUBSET Nat /\ IsFiniteSet(bad)
    BY <2>1, FS_Subset DEF GoesDown
  <2> QED  BY <2>2, GreatestNumber
<1>2. Fault(n) = "none" /\ ~(Keys(n) \subseteq K)
  OBVIOUS
<1>3. PICK c \in Keys(n) : c \notin K
  BY <1>2
<1>4. c \in Reached /\ n < c /\ n \in Nat /\ c \in Nat
  BY <1>2 DEF GoesDown
<1>5. c \in bad
  BY <1>3, <1>4
<1> QED  BY <1>1, <1>4, <1>5

\* A state without a fault is active, with exactly the children and the handlers
\* that the report gives it.
FaithfulVisit ==
  \A n \in Reached : Fault(n) = "none" =>
    n \in configuration /\ Keys(n) = ChildrenIn(n, configuration) /\ Reported(n)

RightAt(r, event, n) ==
  ~IsUnknown(r) =>
    Definite(r) /\ \A v, passing : Agrees(r, Sel(Own(event, v, passing), configuration, n))

LEMMA EveryResultRight ==
  ASSUME NEW event \in Seq(STRING), ActiveTree, GoesDown, FaithfulVisit, NEW f,
         \A n \in Reached : f[n] = Result(f, event, n)
  PROVE  \A n \in Reached : RightAt(f[n], event, n)
<1> DEFINE K == {n \in Reached : RightAt(f[n], event, n)}
<1>1. ASSUME NEW n \in Reached, Fault(n) = "none" => Keys(n) \subseteq K PROVE n \in K
  <2> SUFFICES ASSUME ~IsUnknown(f[n]) PROVE RightAt(f[n], event, n)
    BY DEF RightAt
  <2>1. Fault(n) = "none"
    <3> SUFFICES ASSUME Fault(n) # "none" PROVE FALSE
      OBVIOUS
    <3>1. f[n] = Unavailable(Fault(n))
      BY DEF Result
    <3> QED  BY <3>1 DEF IsUnknown, Unavailable
  <2> DEFINE results == [c \in Keys(n) |-> f[c]]
  <2>2. f[n] = Decide(n, results, event)
    BY <2>1 DEF Result
  <2>3. n \in configuration /\ Keys(n) = ChildrenIn(n, configuration) /\ Reported(n)
    BY <2>1 DEF FaithfulVisit
  <2>4. \A c \in Keys(n) : RightAt(f[c], event, c)
    BY <1>1, <2>1
  <2>5. RightBelow(n, results, event)
    BY <2>3, <2>4 DEF RightBelow, RightAt
  <2> HIDE DEF results
  <2> QED  BY <2>2, <2>3, <2>5, DecideRight DEF RightAt
<1>2. Reached \subseteq K
  <2> HIDE DEF K
  <2> QED  BY <1>1, UpTheVisit
<1> QED  BY <1>2

LEMMA VisitRight ==
  ASSUME NEW event \in Seq(STRING), ActiveTree, GoesDown, FaithfulVisit, 0 \in Reached,
         ~IsUnknown(Visit(event))
  PROVE  /\ Definite(Visit(event))
         /\ \A v, passing : Agrees(Visit(event), Selection(machine, configuration, event, v, passing))
<1>1. PICK f : Visit(event) = f[0] /\ \A n \in Reached : f[n] = Result(f, event, n)
  BY VisitIs
<1>2. RightAt(Visit(event), event, 0)
  BY <1>1, EveryResultRight
<1>3. \A v, passing : Selection(machine, configuration, event, v, passing)
                        = Sel(Own(event, v, passing), configuration, 0)
  BY SelectionIsSel DEF ActiveTree
<1> QED  BY <1>2, <1>3 DEF RightAt

\* The report has everything.
FullVisit == \A n \in Reached : Fault(n) = "none" /\ Whole(n)

LEMMA VisitJustified ==
  ASSUME NEW event \in Seq(STRING), NEW v \in Versions, ActiveTree, GoesDown, FaithfulVisit, FullVisit,
         0 \in Reached, IsUnknown(Visit(event))
  PROVE  Justified(Visit(event), event,
                   Selection(machine, configuration, event, v, Guards(machine, configuration, event)))
<1> DEFINE own == Own(event, v, Guards(machine, configuration, event))
           justified(r, n) == IsUnknown(r) => Justified(r, event, Sel(own, configuration, n))
<1>1. PICK f : Visit(event) = f[0] /\ \A n \in Reached : f[n] = Result(f, event, n)
  BY VisitIs
<1>2. \A n \in Reached : RightAt(f[n], event, n)
  BY <1>1, EveryResultRight
<1> DEFINE K == {n \in Reached : justified(f[n], n)}
<1>3. ASSUME NEW n \in Reached, Fault(n) = "none" => Keys(n) \subseteq K PROVE n \in K
  <2>1. Fault(n) = "none" /\ Whole(n)
    BY DEF FullVisit
  <2> DEFINE results == [c \in Keys(n) |-> f[c]]
  <2>2. f[n] = Decide(n, results, event)
    BY <1>1, <2>1 DEF Result
  <2>3. n \in configuration /\ Keys(n) = ChildrenIn(n, configuration)
    BY <2>1 DEF FaithfulVisit
  <2>4. Keys(n) \subseteq Reached
    BY <2>1 DEF GoesDown
  <2>5. RightBelow(n, results, event)
    BY <1>2, <2>3, <2>4 DEF RightBelow, RightAt
  <2>6. JustifiedBelow(n, results, event, v)
    <3>1. \A c \in Keys(n) : justified(f[c], c)
      BY <1>3, <2>1
    <3> QED  BY <2>3, <3>1 DEF JustifiedBelow
  <2>7. justified(f[n], n)
    <3> HIDE DEF results
    <3> QED  BY <2>1, <2>2, <2>3, <2>5, <2>6, DecideJustified
  <2> QED  BY <2>7
<1>4. Reached \subseteq K
  <2> HIDE DEF K
  <2> QED  BY <1>3, UpTheVisit
<1>5. Justified(Visit(event), event, Sel(own, configuration, 0))
  BY <1>1, <1>4
<1>6. Selection(machine, configuration, event, v, Guards(machine, configuration, event))
        = Sel(own, configuration, 0)
  BY SelectionIsSel DEF ActiveTree
<1> HIDE DEF own
<1> QED  BY <1>5, <1>6

-----------------------------------------------------------------------------
(* The reports. *)

Bases == {Compiled(machine), Raw(machine)}

Report ==
  \/ WholeReport
  \/ /\ definition \in {NoDefinition} \cup Damaged(Compiled(machine)) \cup Damaged(Raw(machine))
     /\ snapshot = [status |-> "active", value |-> Value(configuration)]
  \/ /\ definition \in Bases
     /\ snapshot \in {NoSnapshot} \cup Snapshots(PartialValues(configuration))
                     \cup [status: {"done", "paused"}, value: {Value(configuration)}]

Known ==
  /\ machine \in Machine /\ configuration \in Configurations(machine)
  /\ Report

LEMMA ActiveTreeHolds ==
  ASSUME Known
  PROVE  /\ ActiveTree /\ configuration \subseteq DOMAIN machine
         /\ \A n \in configuration : machine[n].kind \in Kind \ {"history"}
<1>1. IsMachine(machine)
  BY MachineAssumption DEF Known
<1>2. /\ configuration \subseteq DOMAIN machine /\ 0 \in configuration
      /\ \A n \in configuration \ {0} : Parent[n] \in configuration /\ machine[n].kind # "history"
  BY DEF Known, Configurations
<1>3. /\ DOMAIN machine \subseteq Node /\ IsFiniteSet(DOMAIN machine) /\ machine[0].kind # "history"
      /\ \A n \in DOMAIN machine : machine[n].kind \in Kind
  BY <1>1 DEF IsMachine
<1>4. IsFiniteSet(configuration)
  BY <1>2, <1>3, FS_Subset
<1> QED  BY <1>2, <1>3, <1>4 DEF ActiveTree, IsTree

LEMMA HandlersHold ==
  ASSUME machine \in Machine, NEW n \in DOMAIN machine
  PROVE  IsHandlers(machine[n].on)
BY MachineAssumption DEF IsMachine, IsHandlers

\* An undamaged definition has every state with its type and its handlers.
BaseShape(d) ==
  /\ DOMAIN d.nodes = DOMAIN machine
  /\ \A n \in DOMAIN machine :
       /\ \/ d.nodes[n].on = Absent /\ DOMAIN machine[n].on = {} /\ ~d.compiled
          \/ d.nodes[n].on = machine[n].on
       /\ \/ d.nodes[n].type = machine[n].kind /\ (d.compiled \/ machine[n].kind # "compound")
          \/ d.nodes[n].type = Absent /\ machine[n].kind \in {"atomic", "compound"} /\ ~d.compiled
       /\ \/ d.nodes[n].states = "record"
          \/ d.nodes[n].states = Absent /\ ~d.compiled

LEMMA BaseShapeHolds ==
  ASSUME NEW d \in Bases
  PROVE  BaseShape(d)
<1>1. CASE d = Compiled(machine)
  BY <1>1 DEF Compiled, BaseShape
<1>2. CASE d = Raw(machine)
  BY <1>2 DEF Raw, BaseShape
<1> QED  BY <1>1, <1>2 DEF Bases

LEMMA NoFault ==
  ASSUME NEW n, Fault(n) = "none"
  PROVE  /\ ~Incomplete(n) /\ snapshot.value[n] # Malformed /\ ~Contradictory(n) /\ ~Partial(n)
         /\ Keys(n) \subseteq Children(n)
BY DEF Fault

\* A record of a state, and a definition of such records.
IsNode(r) == r = [type |-> r.type, states |-> r.states, on |-> r.on]
IsDefinition(d) ==
  /\ d = [compiled |-> d.compiled, nodes |-> d.nodes]
  /\ d.nodes = [n \in DOMAIN d.nodes |-> d.nodes[n]]
  /\ \A n \in DOMAIN d.nodes : IsNode(d.nodes[n])

LEMMA BaseDefinition ==
  ASSUME NEW d \in Bases
  PROVE  IsDefinition(d)
<1>1. CASE d = Compiled(machine)
  BY <1>1 DEF Compiled, IsDefinition, IsNode
<1>2. CASE d = Raw(machine)
  BY <1>2 DEF Raw, IsDefinition, IsNode
<1> QED  BY <1>1, <1>2 DEF Bases

LEMMA PrunedIs ==
  ASSUME NEW d, IsDefinition(d), NEW lost
  PROVE  /\ IsDefinition(Pruned(d, lost))
         /\ Pruned(d, lost).compiled = d.compiled
         /\ DOMAIN Pruned(d, lost).nodes = DOMAIN d.nodes \ lost
         /\ \A n \in DOMAIN d.nodes \ lost : Pruned(d, lost).nodes[n] = d.nodes[n]
<1> DEFINE p == Pruned(d, lost)
           nodes == [n \in DOMAIN d.nodes \ lost |-> d.nodes[n]]
<1>1. p = [compiled |-> d.compiled, nodes |-> nodes]
  BY DEF IsDefinition, Pruned, Restrict
<1>2. DOMAIN nodes = DOMAIN d.nodes \ lost /\ \A n \in DOMAIN d.nodes \ lost : nodes[n] = d.nodes[n]
  OBVIOUS
<1>3. nodes = [n \in DOMAIN nodes |-> nodes[n]]
  OBVIOUS
<1> HIDE DEF p, nodes
<1>4. p.nodes = nodes /\ p.compiled = d.compiled
  BY <1>1
<1>5. IsDefinition(p)
  BY <1>1, <1>2, <1>3, <1>4 DEF IsDefinition
<1> QED  BY <1>2, <1>4, <1>5 DEF p

\* One state's record replaced.
With(d, k, r) ==
  [compiled |-> d.compiled, nodes |-> [n \in DOMAIN d.nodes |-> IF n = k THEN r ELSE d.nodes[n]]]

Retyped(d, k, x) == [d EXCEPT !.nodes[k].type = x]
Restated(d, k, x) == [d EXCEPT !.nodes[k].states = x]
Rehandled(d, k, x) == [d EXCEPT !.nodes[k].on = x]

LEMMA ChangedNode ==
  ASSUME NEW d, IsDefinition(d), NEW k \in DOMAIN d.nodes, NEW x
  PROVE  /\ Retyped(d, k, x)
              = With(d, k, [type |-> x, states |-> d.nodes[k].states, on |-> d.nodes[k].on])
         /\ Restated(d, k, x)
              = With(d, k, [type |-> d.nodes[k].type, states |-> x, on |-> d.nodes[k].on])
         /\ Rehandled(d, k, x)
              = With(d, k, [type |-> d.nodes[k].type, states |-> d.nodes[k].states, on |-> x])
<1> DEFINE c == d.compiled
           f == d.nodes
           t == f[k].type
           s == f[k].states
           o == f[k].on
           typed == [type |-> x, states |-> s, on |-> o]
           stated == [type |-> t, states |-> x, on |-> o]
           handled == [type |-> t, states |-> s, on |-> x]
           with(r) == [n \in DOMAIN f |-> IF n = k THEN r ELSE f[n]]
<1>1. d = [compiled |-> c, nodes |-> f] /\ f = [n \in DOMAIN f |-> f[n]]
      /\ f[k] = [type |-> t, states |-> s, on |-> o]
  BY DEF IsDefinition, IsNode
<1>2. [d EXCEPT !.nodes[k].type = x] = [compiled |-> c, nodes |-> with(typed)]
  <2>1. [d EXCEPT !.nodes[k].type = x] = [d EXCEPT !.nodes = [f EXCEPT ![k] = [f[k] EXCEPT !.type = x]]]
    OBVIOUS
  <2>2. [f[k] EXCEPT !.type = x] = typed
    <3> HIDE DEF f, t, s, o
    <3> QED  BY <1>1
  <2>3. [f EXCEPT ![k] = typed] = with(typed)
    <3> HIDE DEF typed, f
    <3> QED  BY <1>1
  <2>4. [d EXCEPT !.nodes = with(typed)] = [compiled |-> c, nodes |-> with(typed)]
    <3> DEFINE w == with(typed)
    <3> HIDE DEF w, c, f
    <3> QED  BY <1>1
  <2> QED  BY <2>1, <2>2, <2>3, <2>4
<1>3. [d EXCEPT !.nodes[k].states = x] = [compiled |-> c, nodes |-> with(stated)]
  <2>1. [d EXCEPT !.nodes[k].states = x] = [d EXCEPT !.nodes = [f EXCEPT ![k] = [f[k] EXCEPT !.states = x]]]
    OBVIOUS
  <2>2. [f[k] EXCEPT !.states = x] = stated
    <3> HIDE DEF f, t, s, o
    <3> QED  BY <1>1
  <2>3. [f EXCEPT ![k] = stated] = with(stated)
    <3> HIDE DEF stated, f
    <3> QED  BY <1>1
  <2>4. [d EXCEPT !.nodes = with(stated)] = [compiled |-> c, nodes |-> with(stated)]
    <3> DEFINE w == with(stated)
    <3> HIDE DEF w, c, f
    <3> QED  BY <1>1
  <2> QED  BY <2>1, <2>2, <2>3, <2>4
<1>4. [d EXCEPT !.nodes[k].on = x] = [compiled |-> c, nodes |-> with(handled)]
  <2>1. [d EXCEPT !.nodes[k].on = x] = [d EXCEPT !.nodes = [f EXCEPT ![k] = [f[k] EXCEPT !.on = x]]]
    OBVIOUS
  <2>2. [f[k] EXCEPT !.on = x] = handled
    <3> HIDE DEF f, t, s, o
    <3> QED  BY <1>1
  <2>3. [f EXCEPT ![k] = handled] = with(handled)
    <3> HIDE DEF handled, f
    <3> QED  BY <1>1
  <2>4. [d EXCEPT !.nodes = with(handled)] = [compiled |-> c, nodes |-> with(handled)]
    <3> DEFINE w == with(handled)
    <3> HIDE DEF w, c, f
    <3> QED  BY <1>1
  <2> QED  BY <2>1, <2>2, <2>3, <2>4
<1> QED  BY <1>2, <1>3, <1>4 DEF With, Retyped, Restated, Rehandled

LEMMA WithIs ==
  ASSUME NEW d, NEW k, NEW r
  PROVE  /\ With(d, k, r).compiled = d.compiled /\ DOMAIN With(d, k, r).nodes = DOMAIN d.nodes
         /\ \A n \in DOMAIN d.nodes : With(d, k, r).nodes[n] = IF n = k THEN r ELSE d.nodes[n]
BY DEF With

\* What a damaged definition still says of the handlers.
Kept(d, e) ==
  /\ e.compiled = d.compiled /\ DOMAIN e.nodes \subseteq DOMAIN d.nodes /\ 0 \in DOMAIN e.nodes
  /\ \A n \in DOMAIN e.nodes :
       \/ e.nodes[n].on = d.nodes[n].on
       \/ e.nodes[n].on \in IF d.compiled THEN {Absent, Malformed} ELSE {Malformed}
       \/ /\ d.nodes[n].on # Absent
          /\ \E x \in DOMAIN d.nodes[n].on :
               d.nodes[n].on[x] # <<>> /\ e.nodes[n].on = Unread(d.nodes[n].on, x)

LEMMA DamagedKeeps ==
  ASSUME machine \in Machine, NEW d \in Bases, NEW e \in Damaged(d)
  PROVE  Kept(d, e)
<1> DEFINE N == DOMAIN d.nodes
<1>1. IsDefinition(d) /\ N = DOMAIN machine
  BY BaseDefinition, BaseShapeHolds DEF BaseShape
<1>2. IsTree(N)
  BY <1>1, MachineAssumption DEF IsMachine, IsTree
<1>3. 0 \in N /\ \A n : 0 \notin Inside(n, N)
  BY <1>2, InsideStep DEF IsTree
<1>4. \/ \E n \in N \ {0} : e = Pruned(d, {n} \cup Inside(n, N))
      \/ \E n \in N : \E t : e = Retyped(d, n, t)
      \/ \E n \in N : \E s : e = Restated(Pruned(d, Inside(n, N)), n, s)
      \/ \E n \in N : \E o \in IF d.compiled THEN {Absent, Malformed} ELSE {Malformed} :
           e = Rehandled(d, n, o)
      \/ \E n \in N : /\ d.nodes[n].on # Absent
                      /\ \E x \in DOMAIN d.nodes[n].on :
                           d.nodes[n].on[x] # <<>> /\ e = Rehandled(d, n, Unread(d.nodes[n].on, x))
  <2> DEFINE o(n) == d.nodes[n].on
             lost == {Pruned(d, {n} \cup Inside(n, N)) : n \in N \ {0}}
             typed == {[d EXCEPT !.nodes[n].type = t] : n \in N, t \in {Absent, Malformed}}
             stated == {[Pruned(d, Inside(n, N)) EXCEPT !.nodes[n].states = s] :
                          n \in N, s \in {Absent, Malformed}}
             handled == {[d EXCEPT !.nodes[n].on = h] :
                           n \in N, h \in IF d.compiled THEN {Absent, Malformed} ELSE {Malformed}}
             unread == UNION {{[d EXCEPT !.nodes[n].on = Unread(@, x)] :
                                 x \in {y \in DOMAIN d.nodes[n].on : d.nodes[n].on[y] # <<>>}} :
                                n \in {k \in N : d.nodes[k].on # Absent}}
  <2>1. Damaged(d) = lost \cup typed \cup stated \cup handled \cup unread
    BY SMTT(30) DEF Damaged
  <2>2. e \in typed => \E n \in N : \E t : e = Retyped(d, n, t)
    BY DEF Retyped
  <2>3. e \in stated => \E n \in N : \E s : e = Restated(Pruned(d, Inside(n, N)), n, s)
    BY DEF Restated
  <2>4. e \in handled =>
          \E n \in N : \E h \in IF d.compiled THEN {Absent, Malformed} ELSE {Malformed} : e = Rehandled(d, n, h)
    BY DEF Rehandled
  <2>5. e \in unread =>
          \E n \in N : /\ d.nodes[n].on # Absent
                       /\ \E x \in DOMAIN d.nodes[n].on :
                            d.nodes[n].on[x] # <<>> /\ e = Rehandled(d, n, Unread(d.nodes[n].on, x))
    BY DEF Rehandled
  <2>6. e \in lost => \E n \in N \ {0} : e = Pruned(d, {n} \cup Inside(n, N))
    OBVIOUS
  <2> HIDE DEF lost, typed, stated, handled, unread
  <2> QED  BY <2>1, <2>2, <2>3, <2>4, <2>5, <2>6
<1>5. ASSUME NEW n \in N \ {0}, e = Pruned(d, {n} \cup Inside(n, N)) PROVE Kept(d, e)
  BY <1>1, <1>3, <1>5, PrunedIs DEF Kept
<1>6. ASSUME NEW n \in N, NEW t, e = Retyped(d, n, t) PROVE Kept(d, e)
  <2> DEFINE r == [type |-> t, states |-> d.nodes[n].states, on |-> d.nodes[n].on]
  <2>1. r.on = d.nodes[n].on
    OBVIOUS
  <2>2. e = With(d, n, r)
    BY <1>1, <1>6, ChangedNode
  <2> HIDE DEF r
  <2> QED  BY <1>3, <2>1, <2>2, WithIs DEF Kept
<1>7. ASSUME NEW n \in N, NEW s, e = Restated(Pruned(d, Inside(n, N)), n, s) PROVE Kept(d, e)
  <2> DEFINE p == Pruned(d, Inside(n, N))
             r == [type |-> p.nodes[n].type, states |-> s, on |-> p.nodes[n].on]
  <2>1. /\ IsDefinition(p) /\ p.compiled = d.compiled /\ DOMAIN p.nodes = N \ Inside(n, N)
        /\ \A m \in N \ Inside(n, N) : p.nodes[m] = d.nodes[m]
    BY <1>1, PrunedIs
  <2>2. n \in DOMAIN p.nodes
    <3>1. n \notin Inside(n, N)
      <4> SUFFICES ASSUME n \in Inside(n, N) PROVE FALSE
        OBVIOUS
      <4>1. n < n /\ n \in Nat
        BY <1>2, InsideAbove, NodeAssumption DEF IsTree
      <4> QED  BY <4>1
    <3> QED  BY <2>1, <3>1
  <2>3. r.on = d.nodes[n].on
    BY <2>1, <2>2
  <2>4. e = With(p, n, r)
    <3> HIDE DEF p
    <3> QED  BY <1>7, <2>1, <2>2, ChangedNode DEF p
  <2> HIDE DEF r, p
  <2> QED  BY <1>3, <2>1, <2>3, <2>4, WithIs DEF Kept
<1>8. ASSUME NEW n \in N, NEW o \in IF d.compiled THEN {Absent, Malformed} ELSE {Malformed},
             e = Rehandled(d, n, o)
      PROVE  Kept(d, e)
  <2> DEFINE r == [type |-> d.nodes[n].type, states |-> d.nodes[n].states, on |-> o]
  <2>1. r.on = o
    OBVIOUS
  <2>2. e = With(d, n, r)
    BY <1>1, <1>8, ChangedNode
  <2> HIDE DEF r
  <2> QED  BY <1>3, <2>1, <2>2, WithIs DEF Kept
<1>9. ASSUME NEW n \in N, d.nodes[n].on # Absent, NEW x \in DOMAIN d.nodes[n].on, d.nodes[n].on[x] # <<>>,
             e = Rehandled(d, n, Unread(d.nodes[n].on, x))
      PROVE  Kept(d, e)
  <2> DEFINE o == Unread(d.nodes[n].on, x)
             r == [type |-> d.nodes[n].type, states |-> d.nodes[n].states, on |-> o]
  <2>1. r.on = o
    OBVIOUS
  <2>2. e = Rehandled(d, n, o)
    BY <1>9
  <2>3. e = With(d, n, r)
    <3> HIDE DEF o
    <3> QED  BY <1>1, <2>2, ChangedNode
  <2>4. \A m \in N : e.nodes[m] = IF m = n THEN r ELSE d.nodes[m]
    <3> HIDE DEF r
    <3> QED  BY <2>3, WithIs
  <2>5. e.compiled = d.compiled /\ DOMAIN e.nodes = N
    <3> HIDE DEF r
    <3> QED  BY <2>3, WithIs
  <2>6. e.nodes[n].on = Unread(d.nodes[n].on, x) /\ \A m \in N \ {n} : e.nodes[m] = d.nodes[m]
    BY <2>1, <2>4
  <2> QED  BY <1>3, <1>9, <2>5, <2>6 DEF Kept
<1> QED  BY <1>4, <1>5, <1>6, <1>7, <1>8, <1>9

\* What has no fault still says of a state's handlers what Reports allows.
LEMMA KeptReports ==
  ASSUME machine \in Machine, NEW d \in Bases, Kept(d, definition),
         NEW n \in DOMAIN definition.nodes, ~Incomplete(n)
  PROVE  n \in DOMAIN machine /\ Reported(n)
<1> DEFINE handlers == machine[n].on
           on == definition.nodes[n].on
<1>1. BaseShape(d) /\ n \in DOMAIN d.nodes /\ n \in DOMAIN machine /\ definition.compiled = d.compiled
  BY BaseShapeHolds DEF Kept, BaseShape
<1>2. IsHandlers(handlers)
  BY <1>1, HandlersHold
<1>3. \/ d.nodes[n].on = Absent /\ DOMAIN handlers = {}
      \/ d.nodes[n].on = handlers
  BY <1>1 DEF BaseShape
<1>4. /\ handlers \notin {Absent, Malformed}
      /\ \A x \in DOMAIN handlers : handlers[x] # <<>> => Unread(handlers, x) # Absent
  BY <1>1, SentinelAssumption
<1>5. CASE on = d.nodes[n].on
  <2>1. on = handlers => on # Absent
    BY <1>4
  <2>2. (on = Absent /\ DOMAIN handlers = {}) \/ on = handlers
    BY <1>3, <1>5
  <2>3. Whole(n)
    BY <1>2, <2>1, <2>2 DEF Whole
  <2> QED  BY <1>1, <2>3, WholeReported
<1>6. CASE on \in IF d.compiled THEN {Absent, Malformed} ELSE {Malformed}
  BY <1>1, <1>6 DEF Incomplete
<1>7. ASSUME d.nodes[n].on # Absent, NEW x \in DOMAIN d.nodes[n].on, d.nodes[n].on[x] # <<>>,
             on = Unread(d.nodes[n].on, x)
      PROVE  Reported(n)
  <2>1. d.nodes[n].on = handlers
    BY <1>3, <1>7
  <2>2. x \in DOMAIN handlers /\ handlers[x] # <<>> /\ handlers[x] \in Seq(Transition)
    BY <1>2, <1>7, <2>1 DEF IsHandlers
  <2>3. on = [handlers EXCEPT ![x] = [handlers[x] EXCEPT ![1] = Malformed]]
    BY <1>7, <2>1 DEF Unread
  <2> HIDE DEF handlers, on
  <2>4. on # Absent
    BY <1>4, <1>7, <2>1, <2>2
  <2>5. DOMAIN on = DOMAIN handlers
        /\ \A y \in DOMAIN handlers : on[y] = IF y = x THEN [handlers[x] EXCEPT ![1] = Malformed] ELSE handlers[y]
    BY <2>3
  <2> DEFINE list == handlers[x]
             bad == [list EXCEPT ![1] = Malformed]
  <2>6. bad # <<>> /\ bad[1] = Malformed
    <3>1. 1 \in DOMAIN list
      BY <2>2
    <3>2. 1 \in DOMAIN bad /\ bad[1] = Malformed
      BY <3>1
    <3>3. DOMAIN <<>> = {}
      OBVIOUS
    <3> HIDE DEF bad
    <3> QED  BY <3>2, <3>3
  <2>7. \A y \in DOMAIN handlers : /\ on[y] = <<>> <=> handlers[y] = <<>>
                                   /\ on[y] # <<>> => on[y][1] \in {handlers[y][1], Malformed}
    <3> HIDE DEF bad
    <3>1. on[x] = bad
      BY <2>2, <2>5 DEF bad
    <3> QED  BY <2>2, <2>5, <2>6, <3>1
  <2>8. Reports(on, handlers)
    BY <2>4, <2>5, <2>7 DEF Reports
  <2> QED  BY <1>2, <2>8 DEF Reported, handlers, on
<1>8. \/ on = d.nodes[n].on
      \/ on \in IF d.compiled THEN {Absent, Malformed} ELSE {Malformed}
      \/ d.nodes[n].on # Absent /\ \E x \in DOMAIN d.nodes[n].on :
           d.nodes[n].on[x] # <<>> /\ on = Unread(d.nodes[n].on, x)
  BY DEF Kept
<1>9. Reported(n)
  <2> HIDE DEF on
  <2> QED  BY <1>5, <1>6, <1>7, <1>8
<1> QED  BY <1>1, <1>9

LEMMA BaseKept ==
  ASSUME machine \in Machine, definition \in Bases
  PROVE  Kept(definition, definition)
<1>1. BaseShape(definition)
  BY BaseShapeHolds
<1>2. 0 \in DOMAIN machine
  BY MachineAssumption DEF IsMachine
<1> QED  BY <1>1, <1>2 DEF Kept, BaseShape

\* Some active states and their ancestors, with all active children unless they
\* have a fault.
ValueShape ==
  /\ DOMAIN snapshot.value \subseteq configuration /\ 0 \in DOMAIN snapshot.value
  /\ \A n \in Reached : Fault(n) = "none" => Keys(n) = ChildrenIn(n, configuration)

LEMMA WholeValueShape ==
  ASSUME Known, snapshot.value = Value(configuration)
  PROVE  ValueShape
<1>1. DOMAIN snapshot.value = configuration
  BY DEF Value
<1>2. 0 \in configuration
  BY ActiveTreeHolds DEF ActiveTree, IsTree
<1> QED  BY <1>1, <1>2 DEF ValueShape, Keys

\* An active state has one active child, or all its regions.
LEMMA ActiveChildren ==
  ASSUME Known, NEW n \in configuration
  PROVE  /\ machine[n].kind = "compound" => Cardinality(ChildrenIn(n, configuration)) = 1
         /\ machine[n].kind = "parallel" => ChildrenIn(n, configuration) = Regions(machine, n)
         /\ machine[n].kind \notin {"compound", "parallel"} => ChildrenIn(n, configuration) = {}
<1> DEFINE k == machine[n].kind
           S == configuration
           right == CASE k = "compound" -> Cardinality(ChildrenIn(n, S)) = 1
                      [] k = "parallel" -> ChildrenIn(n, S) = Regions(machine, n)
                      [] OTHER -> ChildrenIn(n, S) = {}
<1>1. right
  BY DEF Known, Configurations
<1> HIDE DEF k
<1>2. CASE k = "compound"
  <2>1. k # "parallel"
    BY <1>2
  <2>2. Cardinality(ChildrenIn(n, S)) = 1
    BY <1>1, <1>2, <2>1, Zenon
  <2> QED  BY <1>2, <2>1, <2>2 DEF k
<1>3. CASE k = "parallel"
  <2>1. k # "compound"
    BY <1>3
  <2>2. ChildrenIn(n, S) = Regions(machine, n)
    BY <1>1, <1>3, <2>1, Zenon
  <2> QED  BY <1>3, <2>1, <2>2 DEF k
<1>4. CASE k # "compound" /\ k # "parallel"
  <2>1. ChildrenIn(n, S) = {}
    BY <1>1, <1>4, Zenon
  <2> QED  BY <1>4, <2>1 DEF k
<1> QED  BY <1>2, <1>3, <1>4

LEMMA OneChild ==
  ASSUME NEW C, Cardinality(C) = 1, IsFiniteSet(C), NEW c \in C
  PROVE  C = {c}
<1>1. PICK x : C = {x}
  BY FS_Singleton
<1> QED  BY <1>1

\* The children the definition names are those of the machine that are no history.
LEMMA BaseChildren ==
  ASSUME machine \in Machine, definition \in Bases, NEW n
  PROVE  /\ Children(n) = Regions(machine, n)
         /\ n \in DOMAIN machine =>
              /\ machine[n].kind = "parallel" <=> definition.nodes[n].type = "parallel"
              /\ machine[n].kind = "history" <=> definition.nodes[n].type = "history"
<1>1. BaseShape(definition)
  BY BaseShapeHolds
<1>2. Absent \notin Kind
  BY SentinelAssumption
<1>3. ASSUME NEW m \in DOMAIN machine
      PROVE  /\ machine[m].kind = "parallel" <=> definition.nodes[m].type = "parallel"
             /\ machine[m].kind = "history" <=> definition.nodes[m].type = "history"
  BY <1>1, <1>2 DEF BaseShape, Kind
<1>4. DOMAIN definition.nodes = DOMAIN machine
  BY <1>1 DEF BaseShape
<1> QED  BY <1>3, <1>4 DEF Children, Regions, ChildrenIn

\* A value that has lost an active state and all inside it does not fit the parent.
LEMMA PrunedValueShape ==
  ASSUME Known, definition \in Bases, NEW k \in configuration \ {0},
         snapshot.value = Value(configuration \ ({k} \cup Inside(k, configuration)))
  PROVE  ValueShape
<1> DEFINE S == configuration
           lost == {k} \cup Inside(k, S)
<1>1. ActiveTree /\ S \subseteq DOMAIN machine /\ \A n \in S : machine[n].kind \in Kind \ {"history"}
  BY ActiveTreeHolds
<1>2. IsTree(S) /\ 0 \in S
  BY <1>1 DEF ActiveTree, IsTree
<1>3. DOMAIN snapshot.value = S \ lost
  BY DEF Value
<1>4. 0 \notin lost
  BY <1>2, InsideStep
<1>5. DOMAIN definition.nodes = DOMAIN machine
  BY BaseShapeHolds DEF BaseShape
<1>6. ASSUME NEW n \in Reached, Fault(n) = "none" PROVE Keys(n) = ChildrenIn(n, S)
  <2>1. n \in S /\ n # k /\ n \notin Inside(k, S)
    BY <1>3 DEF Reached
  <2>2. Keys(n) = ChildrenIn(n, S) \ lost
    BY <1>3 DEF Keys, ChildrenIn
  <2>3. CASE Parent[k] # n
    <3>1. \A c \in ChildrenIn(n, S) : c \notin lost
      <4> TAKE c \in ChildrenIn(n, S)
      <4>1. c \in S /\ Parent[c] = n
        BY DEF ChildrenIn
      <4>2. c # k
        BY <2>3, <4>1
      <4>3. c \notin Inside(k, S)
        BY <1>2, <2>1, <4>1, InsideStep
      <4> QED  BY <4>2, <4>3
    <3> QED  BY <2>2, <3>1
  <2>4. CASE Parent[k] = n
    <3> SUFFICES FALSE
      OBVIOUS
    <3>1. k \in ChildrenIn(n, S) /\ k \notin Keys(n)
      BY <2>2, <2>4 DEF ChildrenIn
    <3>2. Children(n) = Regions(machine, n) /\ n \in DOMAIN machine
      BY <1>1, <2>1, BaseChildren DEF Known
    <3>3. k \in Children(n)
      BY <1>1, <3>1, <3>2 DEF Regions, ChildrenIn
    <3>4. machine[n].kind = "parallel" <=> definition.nodes[n].type = "parallel"
      BY <3>2, BaseChildren DEF Known
    <3>5. ~Partial(n)
      BY <1>6, NoFault
    <3>6. CASE machine[n].kind = "parallel"
      BY <3>1, <3>3, <3>4, <3>5, <3>6 DEF Partial
    <3>7. CASE machine[n].kind # "parallel"
      <4>1. Cardinality(Keys(n)) = 1
        BY <3>3, <3>4, <3>5, <3>7 DEF Partial
      <4>2. machine[n].kind = "compound"
        <5>1. machine[n].kind \notin {"compound", "parallel"} => ChildrenIn(n, S) = {}
          BY <2>1, ActiveChildren
        <5> QED  BY <3>1, <3>7, <5>1
      <4>3. Cardinality(ChildrenIn(n, S)) = 1
        BY <2>1, <4>2, ActiveChildren
      <4>4. IsFiniteSet(ChildrenIn(n, S))
        <5>1. ChildrenIn(n, S) \subseteq S
          BY DEF ChildrenIn
        <5> QED  BY <1>1, <5>1, FS_Subset DEF ActiveTree
      <4>5. ChildrenIn(n, S) = {k}
        BY <3>1, <4>3, <4>4, OneChild
      <4>6. Keys(n) = {}
        BY <2>2, <4>5
      <4>7. Cardinality({}) = 0
        BY FS_EmptySet
      <4> QED  BY <4>1, <4>6, <4>7
    <3> QED  BY <3>6, <3>7
  <2> QED  BY <2>3, <2>4
<1> QED  BY <1>2, <1>3, <1>4, <1>6 DEF ValueShape

\* A value that is unreadable below a state has a fault there.
LEMMA MalformedValueShape ==
  ASSUME Known, NEW k \in configuration,
         snapshot.value = [Value(configuration \ Inside(k, configuration)) EXCEPT ![k] = Malformed]
  PROVE  ValueShape
<1> DEFINE S == configuration
           lost == Inside(k, S)
<1>1. IsTree(S) /\ 0 \in S
  BY ActiveTreeHolds DEF ActiveTree, IsTree
<1>2. k \notin lost
  <2> SUFFICES ASSUME k \in lost PROVE FALSE
    OBVIOUS
  <2>1. k < k /\ k \in Nat
    BY <1>1, InsideAbove, NodeAssumption DEF IsTree
  <2> QED  BY <2>1
<1>3. DOMAIN snapshot.value = S \ lost /\ snapshot.value[k] = Malformed
  BY <1>2 DEF Value
<1>4. 0 \notin lost
  BY <1>1, InsideStep
<1>5. ASSUME NEW n \in Reached, Fault(n) = "none" PROVE Keys(n) = ChildrenIn(n, S)
  <2>1. n \in S /\ n \notin Inside(k, S)
    BY <1>3 DEF Reached
  <2>2. n # k
    BY <1>3, <1>5, NoFault
  <2>3. Keys(n) = ChildrenIn(n, S) \ lost
    BY <1>3 DEF Keys, ChildrenIn
  <2>4. \A c \in ChildrenIn(n, S) : c \notin lost
    BY <1>1, <2>1, <2>2, InsideStep DEF ChildrenIn
  <2> QED  BY <2>3, <2>4
<1> QED  BY <1>1, <1>3, <1>4, <1>5 DEF ValueShape

LEMMA ReportIs ==
  ASSUME Known, snapshot # NoSnapshot, snapshot.status = "active",
         definition # NoDefinition, snapshot.value # NoValue
  PROVE  ValueShape /\ \E d \in Bases : Kept(d, definition)
<1>1. CASE WholeReport
  <2>1. definition \in Bases /\ snapshot.value = Value(configuration)
    BY <1>1 DEF WholeReport, Bases
  <2> QED  BY <2>1, WholeValueShape, BaseKept DEF Known
<1>2. CASE /\ definition \in {NoDefinition} \cup Damaged(Compiled(machine)) \cup Damaged(Raw(machine))
           /\ snapshot = [status |-> "active", value |-> Value(configuration)]
  <2>1. snapshot.value = Value(configuration)
    BY <1>2
  <2>2. \E d \in Bases : definition \in Damaged(d)
    BY <1>2 DEF Bases
  <2>3. \E d \in Bases : Kept(d, definition)
    BY <2>2, DamagedKeeps DEF Known
  <2> QED  BY <2>1, <2>3, WholeValueShape
<1>3. CASE /\ definition \in Bases
           /\ snapshot \in {NoSnapshot} \cup Snapshots(PartialValues(configuration))
                           \cup [status: {"done", "paused"}, value: {Value(configuration)}]
  <2>1. snapshot.value \in PartialValues(configuration)
    <3>1. snapshot \notin [status: {"done", "paused"}, value: {Value(configuration)}]
      OBVIOUS
    <3>2. snapshot \in Snapshots(PartialValues(configuration))
      BY <1>3, <3>1
    <3> QED  BY <3>2 DEF Snapshots
  <2>2. \/ \E k \in configuration \ {0} :
             snapshot.value = Value(configuration \ ({k} \cup Inside(k, configuration)))
        \/ \E k \in configuration :
             snapshot.value = [Value(configuration \ Inside(k, configuration)) EXCEPT ![k] = Malformed]
    BY <2>1 DEF PartialValues
  <2>3. ValueShape
    BY <1>3, <2>2, PrunedValueShape, MalformedValueShape
  <2>4. Kept(definition, definition)
    BY <1>3, BaseKept DEF Known
  <2> QED  BY <1>3, <2>3, <2>4
<1> QED  BY <1>1, <1>2, <1>3 DEF Known, Report

LEMMA VisitFacts ==
  ASSUME Known, snapshot # NoSnapshot, snapshot.status = "active",
         definition # NoDefinition, snapshot.value # NoValue
  PROVE  GoesDown /\ FaithfulVisit /\ 0 \in Reached /\ Reached \subseteq configuration
<1>1. PICK d \in Bases : Kept(d, definition)
  BY ReportIs
<1>2. /\ DOMAIN snapshot.value \subseteq configuration /\ 0 \in DOMAIN snapshot.value
      /\ \A n \in Reached : Fault(n) = "none" => Keys(n) = ChildrenIn(n, configuration)
  BY ReportIs DEF ValueShape
<1>3. /\ ActiveTree /\ configuration \subseteq Nat /\ configuration \subseteq Node
      /\ IsFiniteSet(configuration)
  BY ActiveTreeHolds, NodeAssumption DEF ActiveTree, IsTree
<1>4. Reached \subseteq configuration
  BY <1>2 DEF Reached
<1>5. 0 \in Reached
  BY <1>1, <1>2 DEF Reached, Kept
<1>6. IsFiniteSet(Reached)
  BY <1>3, <1>4, FS_Subset
<1>7. ASSUME NEW n \in Reached, Fault(n) = "none", NEW c \in Keys(n) PROVE c \in Reached /\ n < c
  <2>1. c \in Children(n)
    BY <1>7, NoFault
  <2>2. c \in DOMAIN snapshot.value /\ c # 0 /\ Parent[c] = n /\ c \in DOMAIN definition.nodes
    BY <2>1 DEF Keys, Children, ChildrenIn
  <2>3. c \in Node \ {0}
    BY <1>2, <1>3, <2>2
  <2> QED  BY <2>2, <2>3, ParentAssumption DEF Reached
<1>8. GoesDown
  BY <1>3, <1>4, <1>6, <1>7 DEF GoesDown
<1>9. FaithfulVisit
  <2> SUFFICES ASSUME NEW n \in Reached, Fault(n) = "none"
               PROVE  n \in configuration /\ Keys(n) = ChildrenIn(n, configuration) /\ Reported(n)
    BY DEF FaithfulVisit
  <2>1. ~Incomplete(n)
    BY NoFault
  <2>2. n \in DOMAIN definition.nodes
    BY DEF Reached
  <2>3. Reported(n)
    BY <1>1, <2>1, <2>2, KeptReports DEF Known
  <2> QED  BY <1>2, <1>4, <2>3
<1> QED  BY <1>4, <1>5, <1>8, <1>9

RightAnswer(event, r) ==
  IF snapshot.status # "active" THEN r.canHandle = "no"
  ELSE /\ r.canHandle = "yes" <=> r.matched # {}
       /\ \A v, passing : Agrees(r, Selection(machine, configuration, event, v, passing))

LEMMA EligibilityRight ==
  ASSUME Known, NEW event \in Event, ~IsUnknown(eligibility(event))
  PROVE  RightAnswer(event, eligibility(event))
<1> DEFINE r == eligibility(event)
<1>1. \A reason : IsUnknown(Unavailable(reason))
  BY DEF IsUnknown, Unavailable
<1>2. snapshot # NoSnapshot
  BY <1>1 DEF eligibility
<1>3. CASE snapshot.status \in {"done", "stopped", "error"}
  <2>1. r.canHandle = "no" /\ snapshot.status # "active"
    BY <1>2, <1>3 DEF eligibility, Unavailable
  <2> HIDE DEF r
  <2>2. RightAnswer(event, r)
    BY <2>1 DEF RightAnswer
  <2> QED  BY <2>2 DEF r
<1>4. CASE snapshot.status \notin {"done", "stopped", "error"}
  <2>1. snapshot.status = "active" /\ r = analyzeEventEligibility(event)
    BY <1>1, <1>2, <1>4 DEF eligibility
  <2>2. ~IsUnknown(analyzeEventEligibility(event))
    BY <2>1
  <2>3. definition # NoDefinition /\ snapshot.value # NoValue
        /\ analyzeEventEligibility(event) = Visit(event)
    BY <1>1, <2>2 DEF analyzeEventEligibility
  <2>4. r = Visit(event) /\ ~IsUnknown(Visit(event)) /\ event \in Seq(STRING)
    BY <2>1, <2>2, <2>3, EventAssumption
  <2>5. GoesDown /\ FaithfulVisit /\ 0 \in Reached /\ ActiveTree
    BY <1>2, <2>1, <2>3, VisitFacts, ActiveTreeHolds
  <2>6. /\ Definite(Visit(event))
        /\ \A v, passing : Agrees(Visit(event), Selection(machine, configuration, event, v, passing))
    BY <2>4, <2>5, VisitRight
  <2> HIDE DEF r
  <2>7. RightAnswer(event, r)
    BY <2>1, <2>4, <2>6 DEF Definite, RightAnswer
  <2> QED  BY <2>7 DEF r
<1> QED  BY <1>3, <1>4

LEMMA WholeReportIsFull ==
  ASSUME Known, WholeReport, NEW n \in configuration, ~Excessive(n)
  PROVE  Fault(n) = "none" /\ Whole(n)
<1> DEFINE S == configuration
           node == definition.nodes[n]
           kind == machine[n].kind
<1>1. /\ definition \in Bases /\ snapshot.value = Value(S) /\ machine \in Machine
      /\ n \in DOMAIN machine /\ S \subseteq DOMAIN machine /\ IsMachine(machine)
      /\ \A m \in S : machine[m].kind \in Kind \ {"history"}
  BY ActiveTreeHolds, MachineAssumption DEF Known, WholeReport, Bases
<1>2. BaseShape(definition)
  BY <1>1, BaseShapeHolds
<1>3. machine[n].on \notin {Absent, Malformed}
  BY <1>1, SentinelAssumption
<1>4. Absent # Malformed /\ {Absent, Malformed} \cap (Kind \cup {"record", "keys"}) = {}
  BY SentinelAssumption
<1>5. /\ \/ node.on = Absent /\ DOMAIN machine[n].on = {} /\ ~definition.compiled
         \/ node.on = machine[n].on
      /\ \/ node.type = kind /\ (definition.compiled \/ kind # "compound")
         \/ node.type = Absent /\ kind \in {"atomic", "compound"} /\ ~definition.compiled
      /\ \/ node.states = "record"
         \/ node.states = Absent /\ ~definition.compiled
  BY <1>1, <1>2 DEF BaseShape
<1>6. Whole(n)
  <2>1. IsHandlers(machine[n].on)
    BY <1>1, HandlersHold
  <2> QED  BY <1>3, <1>5, <2>1 DEF Whole
<1>7. kind \in Kind \ {"history"}
  BY <1>1
<1>8. ~Incomplete(n)
  <2> HIDE DEF node, kind
  <2>1. node.states # Malformed /\ (definition.compiled => node.states = "record")
    BY <1>4, <1>5
  <2>2. node.on # Malformed /\ (definition.compiled => node.on # Absent)
    BY <1>3, <1>4, <1>5
  <2>3. node.type \in {Absent, "atomic", "compound", "parallel", "final"}
    BY <1>5, <1>7 DEF Kind
  <2> QED  BY <2>1, <2>2, <2>3 DEF Incomplete, node
<1>9. snapshot.value[n] = "keys" /\ Keys(n) = ChildrenIn(n, S)
  BY <1>1 DEF Value, Keys
<1>10. snapshot.value[n] # Malformed
  BY <1>4, <1>9
<1>11. Children(n) = Regions(machine, n)
  BY <1>1, BaseChildren
<1>12. Keys(n) \subseteq Children(n)
  BY <1>1, <1>9, <1>11 DEF Regions, ChildrenIn
<1>13. kind \notin {"compound", "parallel"} => Children(n) = {}
  BY <1>1, <1>11 DEF IsMachine, Regions
<1>14. /\ kind = "compound" => Cardinality(Keys(n)) = 1
       /\ kind = "parallel" => Keys(n) = Children(n)
  BY <1>9, <1>11, ActiveChildren
<1>15. Cardinality({}) = 0
  BY FS_EmptySet
<1>16. ~Contradictory(n)
  <2> HIDE DEF kind, node
  <2>1. Children(n) # {} => node.type \notin {"atomic", "final"}
    BY <1>4, <1>5, <1>7, <1>13 DEF Kind
  <2>2. Children(n) = {} => Keys(n) = {} /\ node.type # "compound"
    <3> SUFFICES ASSUME Children(n) = {} PROVE node.type # "compound" /\ Keys(n) = {}
      OBVIOUS
    <3>1. Keys(n) = {}
      BY <1>12
    <3>2. kind # "compound"
      BY <1>14, <1>15, <3>1
    <3>3. Absent # "compound"
      BY <1>4 DEF Kind
    <3> QED  BY <1>5, <3>1, <3>2, <3>3
  <2> QED  BY <2>1, <2>2 DEF Contradictory, node
<1>17. ~Partial(n)
  <2> HIDE DEF kind, node
  <2> SUFFICES ASSUME Children(n) # {}
               PROVE  IF node.type = "parallel"
                      THEN Keys(n) # {} /\ Cardinality(Keys(n)) = Cardinality(Children(n)) /\ Children(n) \subseteq Keys(n)
                      ELSE Cardinality(Keys(n)) = 1
    BY DEF Partial, node
  <2>1. kind = "parallel" <=> node.type = "parallel"
    BY <1>1, BaseChildren DEF kind, node
  <2>2. kind \in {"compound", "parallel"}
    BY <1>13
  <2> QED  BY <1>14, <2>1, <2>2
<1> QED  BY <1>6, <1>8, <1>10, <1>12, <1>16, <1>17 DEF Fault

LEMMA EligibilityJustified ==
  ASSUME Known, NEW event \in Event, IsUnknown(eligibility(event)), WholeReport,
         ~Bare(definition.nodes[0]), event # <<>>, Internal(event) => definition.compiled,
         \A n \in configuration : ~Excessive(n), NEW v \in Versions
  PROVE  Justified(eligibility(event), event,
                   Selection(machine, configuration, event, v, Guards(machine, configuration, event)))
<1>1. /\ snapshot # NoSnapshot /\ snapshot.status = "active" /\ snapshot.value # NoValue
      /\ definition # NoDefinition
  BY ReportAssumption DEF WholeReport, Known
<1>2. eligibility(event) = Visit(event)
  BY <1>1 DEF eligibility, analyzeEventEligibility
<1>3. GoesDown /\ FaithfulVisit /\ 0 \in Reached /\ Reached \subseteq configuration /\ ActiveTree
  BY <1>1, VisitFacts, ActiveTreeHolds
<1>4. FullVisit
  BY <1>3, WholeReportIsFull DEF FullVisit
<1>5. event \in Seq(STRING)
  BY EventAssumption
<1> QED  BY <1>2, <1>3, <1>4, <1>5, VisitJustified

-----------------------------------------------------------------------------

IInv == Known /\ DefiniteIsRight /\ UnknownIsJustified

LEMMA InitHolds ==
  ASSUME Init
  PROVE  IInv
<1>1. Known
  BY DEF Init, Known, Report, Bases
<1>2. answer = NoAnswer
  BY DEF Init
<1> QED  BY <1>1, <1>2 DEF IInv, DefiniteIsRight, UnknownIsJustified

\* The right-hand sides of the two properties, for an answer still to be given.
LEMMA AnswerHolds ==
  ASSUME Known, NEW event \in Event, answer' = [event |-> event, result |-> eligibility(event)],
         UNCHANGED <<machine, configuration, definition, snapshot>>
  PROVE  DefiniteIsRight' /\ UnknownIsJustified'
<1> DEFINE r == eligibility(event)
           sees(v) == Selection(machine, configuration, event, v, Guards(machine, configuration, event))
<1>1. answer'.event = event /\ answer'.result = r
  OBVIOUS
<1>2. DefiniteIsRight'
  <2>1. ~IsUnknown(r) => RightAnswer(event, r)
    BY EligibilityRight
  <2> HIDE DEF r
  <2> QED  BY <1>1, <2>1 DEF DefiniteIsRight, RightAnswer, Agrees, IsUnknown
<1>3. UnknownIsJustified'
  <2>1. ASSUME IsUnknown(r), WholeReport, ~Bare(definition.nodes[0]), event # <<>>,
               Internal(event) => definition.compiled, \A n \in configuration : ~Excessive(n)
        PROVE  Justified(r, event, sees("5.28"))
    BY <2>1, EligibilityJustified DEF Versions
  <2> HIDE DEF r, sees
  <2>2. ASSUME Justified(r, event, sees("5.28"))
        PROVE  \/ /\ r.reason = "guard_not_evaluated"
                  /\ \E v \in Versions : r.matched # {} /\ r.matched \subseteq Sites(machine, sees(v), FALSE)
               \/ /\ r.reason = "version_dependent"
                  /\ \E n \in configuration : event \in DOMAIN machine[n].on /\ machine[n].on[event] = <<>>
    <3>1. "5.28" \in Versions
      BY DEF Versions
    <3> QED  BY <2>2, <3>1 DEF Justified
  <2> QED  BY <1>1, <2>1, <2>2, ZenonT(60)
           DEF UnknownIsJustified, IsUnknown, WholeReport, Excessive, Reached, Bare, Internal, sees
<1> QED  BY <1>2, <1>3

LEMMA NextPreserves ==
  ASSUME IInv, [Next]_vars
  PROVE  IInv'
<1>1. ASSUME NEW event \in Event, canHandleEvent(event) PROVE IInv'
  <2>1. Known'
    BY <1>1 DEF IInv, canHandleEvent, Known, Report, WholeReport, Bases
  <2>2. DefiniteIsRight' /\ UnknownIsJustified'
    BY <1>1, AnswerHolds DEF IInv, canHandleEvent
  <2> QED  BY <2>1, <2>2 DEF IInv
<1>2. CASE UNCHANGED vars
  <2>1. UNCHANGED <<machine, configuration, definition, snapshot, answer>>
    BY <1>2 DEF vars
  <2>2. Known'
    BY <2>1 DEF IInv, Known, Report, WholeReport, Bases
  <2>3. DefiniteIsRight'
    BY <2>1 DEF IInv, DefiniteIsRight
  <2>4. UnknownIsJustified'
    BY <2>1 DEF IInv, UnknownIsJustified, WholeReport, Excessive, Reached
  <2> QED  BY <2>2, <2>3, <2>4 DEF IInv
<1> QED  BY <1>1, <1>2 DEF Next

\* The reports do not change, and every answer from them is right and justified.
LEMMA Invariant == Spec => []IInv
BY InitHolds, NextPreserves, PTL DEF Spec

\* A definite answer of can_handle_event names exactly the transitions the
\* running actor selects in either release of XState, whatever its guards decide
\* and whichever piece of its report was lost
\* (src/src/event-eligibility.ts, docs/event-eligibility.md).
THEOREM DefiniteIsRightHolds == Spec => []DefiniteIsRight
<1>1. IInv => DefiniteIsRight
  BY DEF IInv
<1> QED  BY <1>1, Invariant, PTL

\* Told everything about a machine within its limits, the analysis says "unknown"
\* only for a guard the actor may come to, or for an empty list that the releases
\* of XState treat differently.
THEOREM UnknownIsJustifiedHolds == Spec => []UnknownIsJustified
<1>1. IInv => UnknownIsJustified
  BY DEF IInv
<1> QED  BY <1>1, Invariant, PTL

===============================================================================
