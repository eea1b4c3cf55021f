----------------------- MODULE ProjectAnalysisProofs ------------------------
(***************************************************************************)
(* Proofs about ProjectAnalysis, for every project: files, names, calls, *)
(* configured entry points, token counts and limits; and about GraphView, *)
(* for every document, files, marks, depths and limits. The artifacts are *)
(* what recursions over finite sets compute, so the proofs begin with *)
(* induction over such sets, and go on to reachability, components and *)
(* topological orders; each packer is a fold that keeps an invariant of *)
(* what it has packed so far. The views are iterations over these graphs: *)
(* a tree whose turns run out, a search that goes level by level, sums of *)
(* disjoint parts. *)
(***************************************************************************)
EXTENDS ProjectAnalysis, GraphView, FiniteSetTheorems, SequenceTheorems, TLAPS

-----------------------------------------------------------------------------
(* Induction and recursion over finite sets. *)

(* Induction over the numbers, from the pigeonhole principle: the *)
(* library's induction theorems take an operator, which no prover here can *)
(* instantiate. *)
LEMMA NatInduct ==
  ASSUME NEW S, 0 \in S, \A n \in Nat : n \in S => n + 1 \in S
  PROVE  Nat \subseteq S
<1> SUFFICES ASSUME NEW m \in Nat, m \notin S PROVE FALSE
  OBVIOUS
<1> DEFINE A == {i \in 0 .. m : i \notin S}
           f == [i \in A |-> i - 1]
<1>1. IsFiniteSet(A)
  BY FS_Interval, FS_Subset, A \in SUBSET (0 .. m), IsFiniteSet(0 .. m)
<1>2. m \in A
  OBVIOUS
<1>3. /\ IsFiniteSet(A \ {m}) /\ Cardinality(A) \in Nat
      /\ Cardinality(A \ {m}) = Cardinality(A) - 1
  <2> HIDE DEF A
  <2> QED
    BY <1>1, <1>2, FS_CardinalityType, FS_RemoveElement
<1>4. f \in [A -> A \ {m}]
  <2> SUFFICES ASSUME NEW i \in A PROVE i - 1 \in A \ {m}
    OBVIOUS
  <2>1. i # 0 /\ i \in Nat /\ i <= m
    OBVIOUS
  <2>2. i - 1 \in Nat /\ i - 1 + 1 = i
    BY <2>1
  <2> QED
    BY <2>1, <2>2
<1>5. \E x, y \in A : x # y /\ f[x] = f[y]
  <2> HIDE DEF A, f
  <2>1. Cardinality(A \ {m}) < Cardinality(A)
    BY <1>3
  <2> QED
    BY <1>1, <1>3, <1>4, <2>1, FS_PigeonHole
<1> QED
  BY <1>5

(* A set that holds {} and every subset whose own subsets by one element *)
(* it holds, holds all subsets of a finite set. *)
LEMMA SubsetInduct ==
  ASSUME NEW S, IsFiniteSet(S), NEW Good, {} \in Good,
         \A N \in SUBSET S : N # {} /\ (\A x \in N : N \ {x} \in Good) => N \in Good
  PROVE  SUBSET S \subseteq Good
<1> DEFINE Upto == {n \in Nat : \A N \in SUBSET S : Cardinality(N) = n => N \in Good}
<1>1. \A N \in SUBSET S : IsFiniteSet(N) /\ Cardinality(N) \in Nat
  BY FS_Subset, FS_CardinalityType
<1>2. 0 \in Upto
  BY <1>1, FS_EmptySet
<1>3. ASSUME NEW n \in Nat, n \in Upto PROVE n + 1 \in Upto
  <2> SUFFICES ASSUME NEW N \in SUBSET S, Cardinality(N) = n + 1 PROVE N \in Good
    OBVIOUS
  <2>1. N # {}
    <3>1. Cardinality({}) = 0
      BY FS_EmptySet
    <3> QED
      BY <3>1
  <2>2. ASSUME NEW x \in N PROVE N \ {x} \in Good
    <3>1. Cardinality(N \ {x}) = n
      BY <1>1, FS_RemoveElement
    <3> QED
      BY <1>3, <3>1
  <2> QED
    BY <2>1, <2>2
<1>4. Nat \subseteq Upto
  <2> HIDE DEF Upto
  <2> QED
    BY <1>2, <1>3, NatInduct
<1> QED
  BY <1>1, <1>4

Upto(S, n) == {N \in SUBSET S : Cardinality(N) <= n}

(* The subsets of a finite set by their size. *)
LEMMA SmallSubsets ==
  ASSUME NEW S, IsFiniteSet(S)
  PROVE  /\ \A N \in Upto(S, 0) : N = {}
         /\ \A n \in Nat : Upto(S, n) \subseteq Upto(S, n + 1) /\ Upto(S, n) \subseteq SUBSET S
         /\ \A n \in Nat : \A N \in Upto(S, n + 1) : \A x \in N : N \ {x} \in Upto(S, n)
         /\ Upto(S, Cardinality(S)) = SUBSET S
<1>1. \A N \in SUBSET S : /\ IsFiniteSet(N) /\ Cardinality(N) \in Nat
                          /\ Cardinality(N) <= Cardinality(S)
                          /\ \A x \in N : Cardinality(N \ {x}) = Cardinality(N) - 1
  BY FS_Subset, FS_CardinalityType, FS_RemoveElement
<1>2. ASSUME NEW N \in Upto(S, 0) PROVE N = {}
  <2>1. IsFiniteSet(N) /\ Cardinality(N) = 0
    BY <1>1 DEF Upto
  <2> QED
    BY <2>1, FS_EmptySet
<1>3. ASSUME NEW n \in Nat PROVE Upto(S, n) \subseteq Upto(S, n + 1) /\ Upto(S, n) \subseteq SUBSET S
  BY <1>1 DEF Upto
<1>4. ASSUME NEW n \in Nat, NEW N \in Upto(S, n + 1), NEW x \in N PROVE N \ {x} \in Upto(S, n)
  <2>1. /\ Cardinality(N) \in Nat /\ Cardinality(N) <= n + 1
        /\ Cardinality(N \ {x}) = Cardinality(N) - 1
    BY <1>1 DEF Upto
  <2>2. N \ {x} \in SUBSET S
    BY DEF Upto
  <2> QED
    BY <2>1, <2>2 DEF Upto
<1>5. Upto(S, Cardinality(S)) = SUBSET S
  BY <1>1 DEF Upto
<1> QED
  BY <1>2, <1>3, <1>4, <1>5

Recursion(S, V, base, pick, step) ==
  /\ IsFiniteSet(S) /\ base \in V[{}]
  /\ \A N \in SUBSET S : N # {} => pick[N] \in N
  /\ \A N \in SUBSET S : N # {} => step[N] \in [V[N \ {pick[N]}] -> V[N]]
Solves(g, S, V, base, pick, step) ==
  /\ g = [N \in SUBSET S |-> g[N]]
  /\ \A N \in SUBSET S : g[N] \in V[N]
  /\ g[{}] = base
  /\ \A N \in SUBSET S : N # {} => g[N] = step[N][g[N \ {pick[N]}]]

(* A recursion over the subsets of a finite set, one element less at a *)
(* time, has a solution: MapThenFoldSet and Warshall's loop are such *)
(* recursions. *)
LEMMA SubsetRecursion ==
  ASSUME NEW S, NEW V, NEW base, NEW pick, NEW step, Recursion(S, V, base, pick, step)
  PROVE  \E g : Solves(g, S, V, base, pick, step)
<1> USE DEF Recursion
<1>2. /\ \A N \in Upto(S, 0) : N = {}
      /\ \A n \in Nat : Upto(S, n) \subseteq Upto(S, n + 1) /\ Upto(S, n) \subseteq SUBSET S
      /\ \A n \in Nat : \A N \in Upto(S, n + 1) : N # {} => N \ {pick[N]} \in Upto(S, n)
      /\ Upto(S, Cardinality(S)) = SUBSET S
  BY SmallSubsets
<1> DEFINE Body(g, N) == IF N = {} THEN base ELSE step[N][g[N \ {pick[N]}]]
           Until(g, n) == /\ g = [N \in Upto(S, n) |-> g[N]]
                          /\ \A N \in Upto(S, n) : g[N] \in V[N] /\ g[N] = Body(g, N)
           Good == {n \in Nat : \E g : Until(g, n)}
<1>3. 0 \in Good
  <2> DEFINE g == [N \in Upto(S, 0) |-> base]
  <2>1. Until(g, 0)
    BY <1>2
  <2> QED
    <3> HIDE DEF Until, g
    <3> QED
      BY <2>1
<1>4. ASSUME NEW n \in Nat, n \in Good PROVE n + 1 \in Good
  <2>1. PICK g : Until(g, n)
    BY <1>4
  <2> DEFINE h == [N \in Upto(S, n + 1) |-> Body(g, N)]
  <2>2. ASSUME NEW N \in Upto(S, n) PROVE h[N] = g[N]
    <3>1. N \in Upto(S, n + 1) /\ g[N] = Body(g, N)
      BY <1>2, <2>1
    <3> HIDE DEF Body
    <3> QED
      BY <3>1
  <2>3. \A N \in Upto(S, n + 1) : Body(h, N) = Body(g, N)
    <3> HIDE DEF h
    <3> QED
      BY <1>2, <2>2
  <2>4. ASSUME NEW N \in Upto(S, n + 1) PROVE Body(g, N) \in V[N]
    <3>1. CASE N # {}
      <4>1. g[N \ {pick[N]}] \in V[N \ {pick[N]}] /\ N \in SUBSET S
        <5>1. N \ {pick[N]} \in Upto(S, n) /\ N \in SUBSET S
          BY <1>2, <3>1
        <5> HIDE DEF Body, Recursion
        <5> QED
          BY <2>1, <5>1
      <4>2. step[N] \in [V[N \ {pick[N]}] -> V[N]]
        BY <3>1, <4>1
      <4> QED
        BY <3>1, <4>1, <4>2
    <3> QED
      BY <3>1
  <2>5. Until(h, n + 1)
    <3> HIDE DEF Body
    <3> QED
      BY <2>3, <2>4
  <2> QED
    <3> HIDE DEF Until, h
    <3> QED
      BY <2>5
<1>5. Cardinality(S) \in Good
  <2> HIDE DEF Good
  <2> QED
    BY <1>3, <1>4, NatInduct, FS_CardinalityType
<1>6. PICK g : Until(g, Cardinality(S))
  <2> HIDE DEF Until
  <2> QED
    BY <1>5
<1> QED
  BY <1>2, <1>6 DEF Solves

(* Whatever solves the recursion stays within the values its steps keep: *)
(* the induction behind every fold below. *)
LEMMA SubsetInvariant ==
  ASSUME NEW S, NEW V, NEW base, NEW pick, NEW step, Recursion(S, V, base, pick, step),
         NEW K, K[{}] = base,
         \A N \in SUBSET S : N # {} /\ K[N \ {pick[N]}] \in V[N \ {pick[N]}]
           => K[N] = step[N][K[N \ {pick[N]}]]
  PROVE  \A N \in SUBSET S : K[N] \in V[N]
<1> DEFINE Good == {N \in SUBSET S : K[N] \in V[N]}
<1>1. {} \in Good
  BY DEF Recursion
<1>2. ASSUME NEW N \in SUBSET S, N # {}, \A x \in N : N \ {x} \in Good PROVE N \in Good
  <2>1. pick[N] \in N /\ step[N] \in [V[N \ {pick[N]}] -> V[N]]
    BY <1>2 DEF Recursion
  <2>2. K[N \ {pick[N]}] \in V[N \ {pick[N]}]
    BY <1>2, <2>1
  <2>3. K[N] = step[N][K[N \ {pick[N]}]]
    BY <1>2, <2>2
  <2> QED
    BY <2>1, <2>2, <2>3
<1>3. SUBSET S \subseteq Good
  <2> HIDE DEF Good
  <2>1. IsFiniteSet(S)
    BY DEF Recursion
  <2> QED
    BY <1>1, <1>2, <2>1, SubsetInduct
<1> QED
  BY <1>3

(* A transitive, irreflexive relation has a minimal element in every *)
(* finite set that is not empty. *)
LEMMA HasMinimal ==
  ASSUME NEW S, IsFiniteSet(S), S # {}, NEW R,
         \A x \in S : <<x, x>> \notin R,
         \A x, y, z \in S : <<x, y>> \in R /\ <<y, z>> \in R => <<x, z>> \in R
  PROVE  \E m \in S : \A x \in S : <<x, m>> \notin R
<1> DEFINE Good == {N \in SUBSET S : N # {} => \E m \in N : \A x \in N : <<x, m>> \notin R}
<1>1. ASSUME NEW N \in SUBSET S, N # {}, \A x \in N : N \ {x} \in Good PROVE N \in Good
  <2> PICK y \in N : TRUE
    BY <1>1
  <2>1. CASE N \ {y} = {}
    <3>1. \A x \in N : <<x, y>> \notin R
      BY <2>1
    <3> QED
      BY <3>1
  <2>2. CASE N \ {y} # {}
    <3>1. PICK m \in N \ {y} : \A x \in N \ {y} : <<x, m>> \notin R
      BY <1>1, <2>2
    <3>2. CASE <<y, m>> \in R
      <4>1. \A x \in N : <<x, y>> \notin R
        BY <3>1, <3>2
      <4> QED
        BY <4>1
    <3>3. CASE <<y, m>> \notin R
      <4>1. \A x \in N : <<x, m>> \notin R
        BY <3>1, <3>3
      <4> QED
        BY <4>1
    <3> QED
      BY <3>2, <3>3
  <2> QED
    BY <2>1, <2>2
<1>2. SUBSET S \subseteq Good
  <2> HIDE DEF Good
  <2>1. {} \in Good
    BY DEF Good
  <2> QED
    BY <1>1, <2>1, SubsetInduct
<1> QED
  BY <1>2

(* Min is the least element of a finite set. *)
LEMMA MinIsLeast ==
  ASSUME NEW S \in SUBSET Int, IsFiniteSet(S), S # {}
  PROVE  Min(S) \in S /\ \A x \in S : Min(S) <= x
<1> DEFINE R == {p \in S \X S : p[1] < p[2]}
<1>0. /\ \A x \in S : <<x, x>> \notin R
      /\ \A x, y, z \in S : <<x, y>> \in R /\ <<y, z>> \in R => <<x, z>> \in R
      /\ \A x, y \in S : <<x, y>> \notin R => y <= x
  OBVIOUS
<1>1. \E m \in S : \A x \in S : <<x, m>> \notin R
  <2> HIDE DEF R
  <2> QED
    BY <1>0, HasMinimal
<1>2. \E m \in S : \A x \in S : m <= x
  <2> HIDE DEF R
  <2> QED
    BY <1>0, <1>1
<1> QED
  BY <1>2 DEF Min

(* Max is the greatest element of a finite set. *)
LEMMA MaxIsGreatest ==
  ASSUME NEW S \in SUBSET Int, IsFiniteSet(S), S # {}
  PROVE  Max(S) \in S /\ \A x \in S : x <= Max(S)
<1> DEFINE R == {p \in S \X S : p[1] > p[2]}
<1>0. /\ \A x \in S : <<x, x>> \notin R
      /\ \A x, y, z \in S : <<x, y>> \in R /\ <<y, z>> \in R => <<x, z>> \in R
      /\ \A x, y \in S : <<x, y>> \notin R => x <= y
  OBVIOUS
<1>1. \E m \in S : \A x \in S : <<x, m>> \notin R
  <2> HIDE DEF R
  <2> QED
    BY <1>0, HasMinimal
<1>2. \E m \in S : \A x \in S : m >= x
  <2> HIDE DEF R
  <2> QED
    BY <1>0, <1>1
<1> QED
  BY <1>2 DEF Max

-----------------------------------------------------------------------------
(* Reachability. *)

(* A finite graph, and one of symbols. *)
IsGraph(G) == IsFiniteSet(G.node) /\ G.edge \subseteq G.node \X G.node
OfSymbols(G) == IsGraph(G) /\ G.node \subseteq Nat \ {0}

(* What Warshall's algorithm computes with the inner nodes N. *)
Closure(G, N, R) ==
  /\ R \subseteq G.node \X G.node
  /\ \A m \in G.node : <<m, m>> \in R
  /\ \A m, n \in G.node : <<m, n>> \in G.edge => <<m, n>> \in R
  /\ \A l, n \in G.node : \A m \in N : <<l, m>> \in R /\ <<m, n>> \in R => <<l, n>> \in R
  /\ \A S : (\A m, n \in G.node : m \in S /\ <<m, n>> \in G.edge => n \in S)
               => \A m, n \in G.node : m \in S /\ <<m, n>> \in R => n \in S

(* One more inner node keeps what Warshall's loop has computed a closure. *)
LEMMA ClosureGrows ==
  ASSUME NEW G, NEW N, NEW u \in N, NEW D, Closure(G, N \ {u}, D), N \subseteq G.node,
         NEW R, R = D \cup ({m \in G.node : <<m, u>> \in D} \X {n \in G.node : <<u, n>> \in D})
  PROVE  Closure(G, N, R)
<1>1. R \subseteq G.node \X G.node
  BY DEF Closure
<1>2. \A m, n \in G.node : <<m, n>> \in R <=>
        <<m, n>> \in D \/ (<<m, u>> \in D /\ <<u, n>> \in D)
  OBVIOUS
<1>3. \A m \in G.node : <<m, m>> \in R
  BY <1>2 DEF Closure
<1>4. \A m, n \in G.node : <<m, n>> \in G.edge => <<m, n>> \in R
  BY <1>2 DEF Closure
<1>5. ASSUME NEW l \in G.node, NEW n \in G.node, NEW m \in N,
             <<l, m>> \in R, <<m, n>> \in R
      PROVE  <<l, n>> \in R
  <2>1. u \in G.node /\ m \in G.node /\ <<u, u>> \in D
    BY DEF Closure
  <2>2. CASE m = u
    BY <1>2, <1>5, <2>1, <2>2
  <2>3. CASE m # u
    <3>1. \A x, y \in G.node : <<x, m>> \in D /\ <<m, y>> \in D => <<x, y>> \in D
      BY <2>3 DEF Closure
    <3> QED
      BY <1>2, <1>5, <2>1, <3>1
  <2> QED
    BY <2>2, <2>3
<1>6. ASSUME NEW S, \A m, n \in G.node : m \in S /\ <<m, n>> \in G.edge => n \in S,
             NEW m \in G.node, NEW n \in G.node, m \in S, <<m, n>> \in R
      PROVE  n \in S
  <2>1. \A k, l \in G.node : k \in S /\ <<k, l>> \in D => l \in S
    BY <1>6 DEF Closure
  <2> QED
    BY <1>2, <1>6, <2>1
<1> HIDE DEF Closure
<1> QED
  BY <1>1, <1>3, <1>4, <1>5, <1>6 DEF Closure

(* Reaches is the closure over all nodes: the loop is total and computes *)
(* reachability. *)
LEMMA ReachesSolved ==
  ASSUME NEW G, IsGraph(G)
  PROVE  Closure(G, G.node, Reaches(G))
<1> DEFINE V == G.node
           Link == G.edge \cup {<<n, n>> : n \in G.node}
           Through(D, u) == D \cup ({m \in G.node : <<m, u>> \in D}
                                       \X {n \in G.node : <<u, n>> \in D})
           W == [N \in SUBSET V |-> {D \in SUBSET (V \X V) : Closure(G, N, D)}]
           pick == [N \in SUBSET V |-> CHOOSE u \in N : TRUE]
           step == [N \in SUBSET V |-> [D \in W[N \ {pick[N]}] |-> Through(D, pick[N])]]
           Body(C, N) == IF N = {} THEN G.edge \cup {<<n, n>> : n \in G.node}
                         ELSE LET u == CHOOSE u \in N : TRUE
                                  before == C[N \ {u}]
                              IN  before \cup ({m \in G.node : <<m, u>> \in before}
                                                \X {n \in G.node : <<u, n>> \in before})
           Solved(C) == C = [N \in SUBSET V |-> Body(C, N)]
           K == CHOOSE C : Solved(C)
<1>1. Link \in W[{}]
  <2>1. Link \in SUBSET (V \X V) /\ \A n \in V : <<n, n>> \in Link
    BY DEF IsGraph
  <2>2. Closure(G, {}, Link)
    <3>1. \A m, n \in V : <<m, n>> \in Link => <<m, n>> \in G.edge \/ m = n
      OBVIOUS
    <3>2. \A m, n \in V : <<m, n>> \in G.edge => <<m, n>> \in Link
      OBVIOUS
    <3> HIDE DEF Link
    <3> QED
      BY <2>1, <3>1, <3>2 DEF Closure
  <2> QED
    BY <2>1, <2>2
<1>2. \A N \in SUBSET V : N # {} => pick[N] \in N
  OBVIOUS
<1>3. ASSUME NEW N \in SUBSET V, N # {}, NEW D \in W[N \ {pick[N]}]
      PROVE  Through(D, pick[N]) \in W[N]
  <2>1. pick[N] \in N /\ D \in SUBSET (V \X V) /\ Closure(G, N \ {pick[N]}, D)
    BY <1>2, <1>3
  <2> HIDE DEF pick
  <2>2. Closure(G, N, Through(D, pick[N]))
    BY <2>1, ClosureGrows
  <2>3. Through(D, pick[N]) \in SUBSET (V \X V)
    BY <2>1
  <2> QED
    BY <2>2, <2>3
<1>4. \A N \in SUBSET V : N # {} => step[N] \in [W[N \ {pick[N]}] -> W[N]]
  <2> HIDE DEF W, pick, Through
  <2> QED
    BY <1>3
<1>5. Recursion(V, W, Link, pick, step)
  <2> HIDE DEF W, Link, pick, step
  <2> QED
    BY <1>1, <1>2, <1>4 DEF Recursion, IsGraph
<1>6. ASSUME NEW C, C[{}] = Link,
             \A N \in SUBSET V : N # {} => C[N] = Through(C[N \ {pick[N]}], pick[N]),
             NEW N \in SUBSET V
      PROVE  C[N] = Body(C, N)
  <2>1. pick[N] = CHOOSE u \in N : TRUE
    OBVIOUS
  <2> HIDE DEF pick
  <2> QED
    BY <1>6, <2>1
<1>7. PICK g : Solves(g, V, W, Link, pick, step)
  <2> HIDE DEF W, Link, pick, step
  <2> QED
    BY <1>5, SubsetRecursion
<1>8. Solved(g)
  <2>1. \A N \in SUBSET V : N # {} => g[N] = Through(g[N \ {pick[N]}], pick[N])
    <3> HIDE DEF W, pick, Through
    <3> QED
      BY <1>2, <1>7 DEF Solves
  <2>2. g[{}] = Link /\ g = [N \in SUBSET V |-> g[N]]
    BY <1>7 DEF Solves
  <2> HIDE DEF Body, Link, Through, pick
  <2>3. \A N \in SUBSET V : g[N] = Body(g, N)
    BY <1>6, <2>1, <2>2
  <2> QED
    BY <2>2, <2>3
<1>9. Solved(K)
  <2> HIDE DEF Solved
  <2> QED
    BY <1>8
<1>10. Reaches(G) = K[V]
  BY DEF Reaches
<1>11. ASSUME NEW N \in SUBSET V PROVE K[N] = Body(K, N)
  <2> HIDE DEF K, Body
  <2> QED
    BY <1>9
<1> HIDE DEF K
<1>12. \A N \in SUBSET V : K[N] \in W[N]
  <2>1. K[{}] = Link
    BY <1>11
  <2>2. \A N \in SUBSET V : N # {} => K[N] = Through(K[N \ {pick[N]}], pick[N])
    BY <1>11
  <2>3. \A N \in SUBSET V : N # {} /\ K[N \ {pick[N]}] \in W[N \ {pick[N]}]
           => K[N] = step[N][K[N \ {pick[N]}]]
    <3> HIDE DEF W, Through, pick
    <3> QED
      BY <2>2
  <2> HIDE DEF W, Link, pick, step
  <2> QED
    BY <1>5, <2>1, <2>3, SubsetInvariant
<1> QED
  BY <1>10, <1>12

-----------------------------------------------------------------------------
(* Components. *)

(* Reaches holds pairs of nodes, is reflexive and transitive, and contains *)
(* the calls. *)
LEMMA Reaching ==
  ASSUME NEW G, IsGraph(G)
  PROVE  /\ Reaches(G) \subseteq G.node \X G.node
         /\ \A m \in G.node : <<m, m>> \in Reaches(G)
         /\ \A e \in G.edge : e \in Reaches(G) /\ e = <<e[1], e[2]>> /\ e[1] \in G.node /\ e[2] \in G.node
         /\ \A l, m, n : <<l, m>> \in Reaches(G) /\ <<m, n>> \in Reaches(G) => <<l, n>> \in Reaches(G)
<1>1. Closure(G, G.node, Reaches(G))
  BY ReachesSolved
<1>2. Reaches(G) \subseteq G.node \X G.node
  BY <1>1 DEF Closure
<1>3. \A m \in G.node : <<m, m>> \in Reaches(G)
  BY <1>1 DEF Closure
<1>4. ASSUME NEW e \in G.edge
      PROVE  e \in Reaches(G) /\ e = <<e[1], e[2]>> /\ e[1] \in G.node /\ e[2] \in G.node
  <2>1. e = <<e[1], e[2]>> /\ e[1] \in G.node /\ e[2] \in G.node
    BY DEF IsGraph
  <2> QED
    BY <1>1, <2>1 DEF Closure
<1>5. ASSUME NEW l, NEW m, NEW n, <<l, m>> \in Reaches(G), <<m, n>> \in Reaches(G)
      PROVE  <<l, n>> \in Reaches(G)
  <2>1. l \in G.node /\ m \in G.node /\ n \in G.node
    BY <1>2, <1>5
  <2> QED
    BY <1>1, <1>5, <2>1 DEF Closure
<1> QED
  BY <1>2, <1>3, <1>4, <1>5

(* Reaches is the least such relation: who starts in a set that no call *)
(* leaves, stays in it. *)
LEMMA StaysInside ==
  ASSUME NEW G, IsGraph(G), NEW S, \A e \in G.edge : e[1] \in S => e[2] \in S,
         NEW m, NEW n, <<m, n>> \in Reaches(G), m \in S
  PROVE  n \in S
<1>1. Closure(G, G.node, Reaches(G))
  BY ReachesSolved
<1>2. m \in G.node /\ n \in G.node
  BY Reaching
<1>3. \A k, l \in G.node : k \in S /\ <<k, l>> \in G.edge => l \in S
  <2> SUFFICES ASSUME NEW k, NEW l, k \in S, <<k, l>> \in G.edge PROVE l \in S
    OBVIOUS
  <2>1. <<k, l>>[1] = k /\ <<k, l>>[2] = l
    OBVIOUS
  <2> QED
    BY <2>1
<1> QED
  BY <1>1, <1>2, <1>3 DEF Closure

(* A node that reaches another one does so through one of its calls. *)
LEMMA FirstCall ==
  ASSUME NEW G, IsGraph(G), NEW m, NEW n, <<m, n>> \in Reaches(G), m # n
  PROVE  \E x : <<m, x>> \in G.edge /\ <<x, n>> \in Reaches(G)
<1> DEFINE S == {m} \cup {k \in G.node : \E x : <<m, x>> \in G.edge /\ <<x, k>> \in Reaches(G)}
<1>1. ASSUME NEW e \in G.edge, e[1] \in S PROVE e[2] \in S
  <2>0. e = <<e[1], e[2]>> /\ e[1] \in G.node /\ e[2] \in G.node /\ e \in Reaches(G)
    BY Reaching
  <2>1. CASE e[1] = m
    <3>1. <<m, e[2]>> \in G.edge /\ <<e[2], e[2]>> \in Reaches(G)
      BY <2>0, <2>1, Reaching
    <3> QED
      BY <2>0, <3>1
  <2>2. CASE e[1] # m
    <3>1. PICK x : <<m, x>> \in G.edge /\ <<x, e[1]>> \in Reaches(G)
      BY <1>1, <2>2
    <3>2. <<x, e[2]>> \in Reaches(G)
      BY <2>0, <3>1, Reaching
    <3> QED
      BY <2>0, <3>1, <3>2
  <2> QED
    BY <2>1, <2>2
<1>2. n \in S
  <2>1. m \in S
    OBVIOUS
  <2> HIDE DEF S
  <2> QED
    BY <1>1, <2>1, StaysInside
<1> QED
  BY <1>2

(* Among some nodes there is one that only those call from above which it *)
(* calls back. *)
LEMMA TopOf ==
  ASSUME NEW G, IsGraph(G), NEW T \in SUBSET G.node, T # {}
  PROVE  \E r \in T : \A p \in T : <<p, r>> \in Reaches(G) => <<r, p>> \in Reaches(G)
<1> DEFINE R == {p \in Reaches(G) : <<p[2], p[1]>> \notin Reaches(G)}
<1>1. \A x, y : <<x, y>> \in R <=> <<x, y>> \in Reaches(G) /\ <<y, x>> \notin Reaches(G)
  OBVIOUS
<1> HIDE DEF R
<1>2. \A x \in T : <<x, x>> \notin R
  BY <1>1
<1>3. \A x, y, z \in T : <<x, y>> \in R /\ <<y, z>> \in R => <<x, z>> \in R
  BY <1>1, Reaching
<1>4. IsFiniteSet(T)
  BY FS_Subset DEF IsGraph
<1>5. PICK r \in T : \A p \in T : <<p, r>> \notin R
  BY <1>2, <1>3, <1>4, HasMinimal
<1> QED
  BY <1>1, <1>5

(* A set of sets that do not overlap and make up S. *)
Partition(P, S) ==
  /\ UNION P = S
  /\ \A c \in P : c # {}
  /\ \A c, d \in P : c \cap d # {} => c = d

(* The parts of a finite set are finite, and finitely many. *)
LEMMA FiniteUnion ==
  ASSUME NEW P, NEW S, Partition(P, S), IsFiniteSet(S)
  PROVE  IsFiniteSet(P) /\ \A c \in P : IsFiniteSet(c) /\ c \subseteq S
<1>1. P \subseteq SUBSET S
  BY DEF Partition
<1>2. IsFiniteSet(SUBSET S)
  BY FS_SUBSET
<1> QED
  BY <1>1, <1>2, FS_Subset

(* Every node is in one strong component. *)
LEMMA StrongPartition ==
  ASSUME NEW G, IsGraph(G)
  PROVE  /\ Partition(StrongComponents(G), G.node)
         /\ IsFiniteSet(StrongComponents(G))
         /\ \A c \in StrongComponents(G) : \A s, t \in c : <<s, t>> \in Reaches(G)
         /\ \A c \in StrongComponents(G) : \A s \in c : \A t :
              <<s, t>> \in Reaches(G) /\ <<t, s>> \in Reaches(G) => t \in c
<1> DEFINE R == Reaches(G)
           Of(m) == {n \in G.node : <<m, n>> \in R /\ <<n, m>> \in R}
<1>0. StrongComponents(G) = {Of(m) : m \in G.node}
  BY DEF StrongComponents
<1>1. \A m \in G.node : m \in Of(m)
  BY Reaching
<1>2. \A m, n, k : k \in Of(m) /\ n \in Of(m) => <<k, n>> \in R
  BY Reaching
<1>3. ASSUME NEW m \in G.node, NEW n \in G.node, Of(m) \cap Of(n) # {} PROVE Of(m) = Of(n)
  <2>1. PICK k : k \in Of(m) /\ k \in Of(n)
    BY <1>3
  <2>2. <<m, n>> \in R /\ <<n, m>> \in R
    BY <2>1, Reaching
  <2>3. \A x \in G.node : <<m, x>> \in R /\ <<x, m>> \in R <=> <<n, x>> \in R /\ <<x, n>> \in R
    BY <2>2, Reaching
  <2> QED
    BY <2>3
<1>4. Partition(StrongComponents(G), G.node)
  <2>1. UNION StrongComponents(G) = G.node
    BY <1>0, <1>1
  <2>2. \A c \in StrongComponents(G) : c # {}
    BY <1>0, <1>1
  <2>3. \A c, d \in StrongComponents(G) : c \cap d # {} => c = d
    <3> HIDE DEF Of
    <3> QED
      BY <1>0, <1>3
  <2> QED
    BY <2>1, <2>2, <2>3 DEF Partition
<1>5. \A c \in StrongComponents(G) : \A s, t \in c : <<s, t>> \in R
  <2> HIDE DEF Of
  <2> QED
    BY <1>0, <1>2
<1>6. ASSUME NEW c \in StrongComponents(G), NEW s \in c, NEW t,
             <<s, t>> \in R, <<t, s>> \in R
      PROVE  t \in c
  <2>1. PICK m \in G.node : c = Of(m)
    BY <1>0
  <2>2. <<m, s>> \in R /\ <<s, m>> \in R
    BY <2>1
  <2>3. <<m, t>> \in R /\ <<t, m>> \in R /\ t \in G.node
    BY <1>6, <2>2, Reaching
  <2> QED
    BY <2>1, <2>3
<1>7. IsFiniteSet(StrongComponents(G))
  BY <1>4, FiniteUnion DEF IsGraph
<1> QED
  BY <1>4, <1>5, <1>6, <1>7

Both(G) == Graph(G.node, G.edge \cup Transpose(G).edge)

(* The calls and their converses form a graph. *)
LEMMA BothIsGraph ==
  ASSUME NEW G, IsGraph(G)
  PROVE  /\ IsGraph(Both(G)) /\ Both(G).node = G.node
         /\ \A m, n : <<m, n>> \in Both(G).edge <=> <<m, n>> \in G.edge \/ <<n, m>> \in G.edge
         /\ WeakComponents(G) = StrongComponents(Both(G))
         /\ Reaches(G) \subseteq Reaches(Both(G))
         /\ \A m, n : <<m, n>> \in Reaches(Both(G)) => <<n, m>> \in Reaches(Both(G))
<1>1. Both(G).node = G.node /\ Both(G).edge = G.edge \cup {<<e[2], e[1]>> : e \in G.edge}
  BY DEF Both, Graph, Transpose
<1>2. IsGraph(Both(G))
  BY <1>1 DEF IsGraph
<1>3. \A m, n : <<m, n>> \in Both(G).edge <=> <<m, n>> \in G.edge \/ <<n, m>> \in G.edge
  <2> SUFFICES ASSUME NEW m, NEW n
               PROVE  <<m, n>> \in {<<e[2], e[1]>> : e \in G.edge} <=> <<n, m>> \in G.edge
    BY <1>1
  <2>1. \A e \in G.edge : e = <<e[1], e[2]>>
    BY Reaching
  <2>2. ASSUME <<m, n>> \in {<<e[2], e[1]>> : e \in G.edge} PROVE <<n, m>> \in G.edge
    <3>1. PICK e \in G.edge : <<m, n>> = <<e[2], e[1]>>
      BY <2>2
    <3>2. e[2] = m /\ e[1] = n
      BY <3>1
    <3> QED
      BY <2>1, <3>2
  <2>3. ASSUME <<n, m>> \in G.edge PROVE <<m, n>> \in {<<e[2], e[1]>> : e \in G.edge}
    <3>1. <<m, n>> = <<<<n, m>>[2], <<n, m>>[1]>>
      OBVIOUS
    <3> QED
      BY <2>3, <3>1
  <2> QED
    BY <2>2, <2>3
<1>4. WeakComponents(G) = StrongComponents(Both(G))
  BY DEF WeakComponents, Both
<1>5. ASSUME NEW m, NEW n, <<m, n>> \in Reaches(G) PROVE <<m, n>> \in Reaches(Both(G))
  <2> DEFINE S == {k \in G.node : <<m, k>> \in Reaches(Both(G))}
  <2>1. ASSUME NEW e \in G.edge, e[1] \in S PROVE e[2] \in S
    <3>1. e = <<e[1], e[2]>> /\ e[2] \in G.node
      BY Reaching
    <3>2. <<e[1], e[2]>> \in Reaches(Both(G))
      BY <1>1, <1>2, <3>1, Reaching
    <3> QED
      BY <1>2, <2>1, <3>1, <3>2, Reaching
  <2>2. m \in S
    BY <1>1, <1>2, <1>5, Reaching
  <2>3. n \in S
    <3> HIDE DEF S
    <3> QED
      BY <1>5, <2>1, <2>2, StaysInside
  <2> QED
    BY <2>3
<1>6. Reaches(G) \subseteq Reaches(Both(G))
  <2>1. \A p \in Reaches(G) : p = <<p[1], p[2]>>
    BY Reaching
  <2> QED
    BY <1>5, <2>1
<1>7. ASSUME NEW m, NEW n, <<m, n>> \in Reaches(Both(G)) PROVE <<n, m>> \in Reaches(Both(G))
  <2> DEFINE S == {k \in G.node : <<k, m>> \in Reaches(Both(G))}
  <2>1. ASSUME NEW e \in Both(G).edge, e[1] \in S PROVE e[2] \in S
    <3>1. e = <<e[1], e[2]>> /\ e[2] \in G.node
      BY <1>1, <1>2, Reaching
    <3>2. <<e[2], e[1]>> \in Both(G).edge
      BY <1>3, <3>1
    <3>3. <<e[2], e[1]>> \in Reaches(Both(G))
      BY <1>2, <3>2, Reaching
    <3> QED
      BY <1>2, <2>1, <3>1, <3>3, Reaching
  <2>2. m \in S
    BY <1>1, <1>2, <1>7, Reaching
  <2>3. n \in S
    <3> HIDE DEF S
    <3> QED
      BY <1>2, <1>7, <2>1, <2>2, StaysInside
  <2> QED
    BY <2>3
<1> QED
  BY <1>1, <1>2, <1>3, <1>4, <1>6, <1>7

(* Every node is in one weak component, and no call leaves it. *)
LEMMA WeakPartition ==
  ASSUME NEW G, IsGraph(G)
  PROVE  /\ Partition(WeakComponents(G), G.node) /\ IsFiniteSet(WeakComponents(G))
         /\ \A w \in WeakComponents(G) : \A e \in G.edge : e[1] \in w <=> e[2] \in w
         /\ \A w \in WeakComponents(G), c \in StrongComponents(G) :
              c \cap w # {} => c \subseteq w
         /\ \A w \in WeakComponents(G) : \A s, t : <<s, t>> \in Reaches(G) => (s \in w <=> t \in w)
<1>1. IsGraph(Both(G)) /\ WeakComponents(G) = StrongComponents(Both(G)) /\ Both(G).node = G.node
  BY BothIsGraph
<1>2. Partition(WeakComponents(G), G.node) /\ IsFiniteSet(WeakComponents(G))
  BY <1>1, StrongPartition
<1>3. ASSUME NEW w \in WeakComponents(G), NEW s, NEW t, <<s, t>> \in Reaches(G)
      PROVE  s \in w <=> t \in w
  <2>1. <<s, t>> \in Reaches(Both(G)) /\ <<t, s>> \in Reaches(Both(G))
    BY <1>3, BothIsGraph
  <2> QED
    BY <1>1, <2>1, StrongPartition
<1>4. ASSUME NEW w \in WeakComponents(G), NEW e \in G.edge PROVE e[1] \in w <=> e[2] \in w
  <2>1. <<e[1], e[2]>> \in Reaches(G)
    BY Reaching
  <2> QED
    BY <1>3, <2>1
<1>5. ASSUME NEW w \in WeakComponents(G), NEW c \in StrongComponents(G), c \cap w # {}
      PROVE  c \subseteq w
  <2>1. PICK s : s \in c /\ s \in w
    BY <1>5
  <2>2. \A t \in c : <<s, t>> \in Reaches(G)
    BY <2>1, StrongPartition
  <2> QED
    BY <1>3, <2>1, <2>2
<1> QED
  BY <1>2, <1>3, <1>4, <1>5

(* A set of nodes that no edge enters or leaves. *)
Closed(G, S) == S \subseteq G.node /\ \A e \in G.edge : e[1] \in S <=> e[2] \in S

(* The calls among some nodes form a graph. *)
LEMMA SubgraphIsGraph ==
  ASSUME NEW G, IsGraph(G), NEW S \in SUBSET G.node
  PROVE  /\ IsGraph(Subgraph(G, S)) /\ Subgraph(G, S).node = S
         /\ Subgraph(G, S).edge = {e \in G.edge : e[1] \in S /\ e[2] \in S}
<1>1. Subgraph(G, S).node = S /\ Subgraph(G, S).edge = {e \in G.edge : e[1] \in S /\ e[2] \in S}
  BY DEF Subgraph, Graph
<1>2. IsFiniteSet(S)
  BY FS_Subset DEF IsGraph
<1>3. \A e \in Subgraph(G, S).edge : e \in S \X S
  <2> SUFFICES ASSUME NEW e \in G.edge, e[1] \in S, e[2] \in S PROVE e \in S \X S
    BY <1>1
  <2>1. e = <<e[1], e[2]>>
    BY Reaching
  <2> QED
    BY <2>1
<1> QED
  BY <1>1, <1>2, <1>3 DEF IsGraph

(* What a part of a graph reaches within itself it reaches in the graph, *)
(* and conversely if no call leaves the part. *)
LEMMA SubgraphReaches ==
  ASSUME NEW G, IsGraph(G), NEW S \in SUBSET G.node, NEW m, NEW n
  PROVE  /\ <<m, n>> \in Reaches(Subgraph(G, S)) => <<m, n>> \in Reaches(G)
         /\ Closed(G, S) /\ m \in S /\ <<m, n>> \in Reaches(G)
              => n \in S /\ <<m, n>> \in Reaches(Subgraph(G, S))
<1> DEFINE H == Subgraph(G, S)
<1>1. IsGraph(H) /\ H.node = S /\ H.edge = {e \in G.edge : e[1] \in S /\ e[2] \in S}
  BY SubgraphIsGraph
<1> HIDE DEF H
<1>2. ASSUME <<m, n>> \in Reaches(H) PROVE <<m, n>> \in Reaches(G)
  <2> DEFINE T == {k \in S : <<m, k>> \in Reaches(G)}
  <2>1. ASSUME NEW e \in H.edge, e[1] \in T PROVE e[2] \in T
    <3>1. e \in Reaches(G) /\ e = <<e[1], e[2]>> /\ e[2] \in S
      BY <1>1, Reaching
    <3> QED
      BY <2>1, <3>1, Reaching
  <2>2. m \in T
    BY <1>1, <1>2, Reaching
  <2>3. n \in T
    <3> HIDE DEF T
    <3> QED
      BY <1>1, <1>2, <2>1, <2>2, StaysInside
  <2> QED
    BY <2>3
<1>3. ASSUME Closed(G, S), m \in S, <<m, n>> \in Reaches(G)
      PROVE  n \in S /\ <<m, n>> \in Reaches(H)
  <2> DEFINE T == {k \in S : <<m, k>> \in Reaches(H)}
  <2>1. ASSUME NEW e \in G.edge, e[1] \in T PROVE e[2] \in T
    <3>1. e[2] \in S /\ e \in H.edge
      BY <1>1, <1>3, <2>1 DEF Closed
    <3>2. e \in Reaches(H) /\ e = <<e[1], e[2]>>
      BY <1>1, <3>1, Reaching
    <3> QED
      BY <1>1, <2>1, <3>1, <3>2, Reaching
  <2>2. m \in T
    BY <1>1, <1>3, Reaching
  <2>3. n \in T
    <3> HIDE DEF T
    <3> QED
      BY <1>3, <2>1, <2>2, StaysInside
  <2> QED
    BY <2>3
<1> QED
  BY <1>2, <1>3 DEF H

(* The strong components of a closed part are those of the graph that lie *)
(* in it. *)
LEMMA SubgraphComponents ==
  ASSUME NEW G, IsGraph(G), NEW S, Closed(G, S)
  PROVE  StrongComponents(Subgraph(G, S)) = {c \in StrongComponents(G) : c \subseteq S}
<1> DEFINE H == Subgraph(G, S)
           Of(m) == {n \in G.node : <<m, n>> \in Reaches(G) /\ <<n, m>> \in Reaches(G)}
           OfH(m) == {n \in H.node : <<m, n>> \in Reaches(H) /\ <<n, m>> \in Reaches(H)}
<1>1. S \in SUBSET G.node /\ H.node = S
  BY SubgraphIsGraph DEF Closed
<1>2. ASSUME NEW m \in S PROVE OfH(m) = Of(m) /\ Of(m) \subseteq S /\ m \in Of(m)
  <2>1. \A n : <<m, n>> \in Reaches(G) => n \in S /\ <<m, n>> \in Reaches(H)
    BY <1>1, SubgraphReaches
  <2>2. \A n \in S : <<n, m>> \in Reaches(G) => <<n, m>> \in Reaches(H)
    BY <1>1, SubgraphReaches
  <2>3. \A k, n : <<k, n>> \in Reaches(H) => <<k, n>> \in Reaches(G)
    BY <1>1, SubgraphReaches
  <2>4. m \in Of(m)
    BY <1>1, Reaching
  <2> HIDE DEF H
  <2> QED
    BY <1>1, <2>1, <2>2, <2>3, <2>4
<1>3. StrongComponents(G) = {Of(m) : m \in G.node} /\ StrongComponents(H) = {OfH(m) : m \in H.node}
  BY DEF StrongComponents
<1>4. \A m \in G.node : m \in Of(m)
  BY Reaching
<1> HIDE DEF Of, OfH, H
<1> QED
  BY <1>1, <1>2, <1>3, <1>4 DEF H

-----------------------------------------------------------------------------
(* Sequences that list a set. *)

(* A sequence of the elements of S, each of them once. *)
Listing(f, S) ==
  /\ f \in Seq(S) /\ Len(f) \in Nat /\ DOMAIN f = 1 .. Len(f)
  /\ \A i \in 1 .. Len(f) : f[i] \in S
  /\ \A i, j \in 1 .. Len(f) : f[i] = f[j] => i = j
  /\ \A x \in S : \E i \in 1 .. Len(f) : f[i] = x

(* A function on 1 .. n that hits every element once is a listing. *)
LEMMA IsListing ==
  ASSUME NEW n \in Nat, NEW S, NEW f \in [1 .. n -> S],
         \A i, j \in 1 .. n : f[i] = f[j] => i = j,
         \A x \in S : \E i \in 1 .. n : f[i] = x
  PROVE  Listing(f, S) /\ Len(f) = n
<1>1. f \in Seq(S)
  BY SeqDef
<1>2. Len(f) = n
  BY <1>1, LenProperties
<1> QED
  BY <1>1, <1>2 DEF Listing

(* R orders S strictly and totally, and f puts at place i the element *)
(* before which i - 1 come. *)
StrictOrder(S, R) ==
  /\ \A x \in S : <<x, x>> \notin R
  /\ \A x, y, z \in S : <<x, y>> \in R /\ <<y, z>> \in R => <<x, z>> \in R
  /\ \A x, y \in S : x = y \/ <<x, y>> \in R \/ <<y, x>> \in R
PlacedBy(f, S, R) ==
  /\ f = [i \in 1 .. Cardinality(S) |-> f[i]]
  /\ \A i \in 1 .. Cardinality(S) :
       (\E x \in S : Cardinality({y \in S : <<y, x>> \in R}) = i - 1)
         => f[i] \in S /\ Cardinality({y \in S : <<y, f[i]>> \in R}) = i - 1

(* It lists S in that order. *)
LEMMA CountingIsListing ==
  ASSUME NEW S, IsFiniteSet(S), NEW R, StrictOrder(S, R), NEW f, PlacedBy(f, S, R)
  PROVE  /\ Cardinality(S) \in Nat /\ Listing(f, S) /\ DOMAIN f = 1 .. Cardinality(S)
         /\ \A i, j \in 1 .. Cardinality(S) : i < j => <<f[i], f[j]>> \in R
<1>0. /\ \A x \in S : <<x, x>> \notin R
      /\ \A x, y, z \in S : <<x, y>> \in R /\ <<y, z>> \in R => <<x, z>> \in R
      /\ \A x, y \in S : x = y \/ <<x, y>> \in R \/ <<y, x>> \in R
      /\ f = [i \in 1 .. Cardinality(S) |-> f[i]]
      /\ \A i \in 1 .. Cardinality(S) :
           (\E x \in S : Cardinality({y \in S : <<y, x>> \in R}) = i - 1)
             => f[i] \in S /\ Cardinality({y \in S : <<y, f[i]>> \in R}) = i - 1
  BY DEF StrictOrder, PlacedBy
<1> DEFINE Under_(x) == {y \in S : <<y, x>> \in R}
           n == Cardinality(S)
           count == [x \in S |-> Cardinality(Under_(x)) + 1]
<1>1. n \in Nat
  BY FS_CardinalityType
<1>2. \A x \in S : IsFiniteSet(Under_(x)) /\ Cardinality(Under_(x)) \in Nat /\ Cardinality(Under_(x)) < n
  <2> SUFFICES ASSUME NEW x \in S
               PROVE  IsFiniteSet(Under_(x)) /\ Cardinality(Under_(x)) \in Nat /\ Cardinality(Under_(x)) < n
    OBVIOUS
  <2>1. Under_(x) \in SUBSET (S \ {x})
    BY <1>0
  <2>2. IsFiniteSet(S \ {x}) /\ Cardinality(S \ {x}) = n - 1
    BY FS_RemoveElement
  <2> HIDE DEF Under_
  <2>3. IsFiniteSet(Under_(x)) /\ Cardinality(Under_(x)) <= n - 1
    BY <2>1, <2>2, FS_Subset
  <2>4. Cardinality(Under_(x)) \in Nat
    BY <2>3, FS_CardinalityType
  <2> QED
    BY <1>1, <2>3, <2>4
<1>4. count \in [S -> 1 .. n]
  <2> HIDE DEF Under_, n
  <2> QED
    BY <1>1, <1>2
<1>5. ASSUME NEW s \in S, NEW t \in S, <<s, t>> \in R PROVE count[s] < count[t]
  <2>1. Under_(s) \in SUBSET Under_(t) /\ s \in Under_(t) /\ s \notin Under_(s)
    BY <1>0, <1>5
  <2> HIDE DEF Under_
  <2>3. Cardinality(Under_(s)) <= Cardinality(Under_(t)) /\ Cardinality(Under_(s)) # Cardinality(Under_(t))
    BY <1>2, <2>1, FS_Subset
  <2>4. Cardinality(Under_(s)) < Cardinality(Under_(t))
    BY <1>2, <2>3
  <2> QED
    BY <1>2, <2>4
<1>6. \A s, t \in S : count[s] = count[t] => s = t
  <2> SUFFICES ASSUME NEW s \in S, NEW t \in S, count[s] = count[t], s # t PROVE FALSE
    OBVIOUS
  <2>1. count[s] \in Int /\ count[t] \in Int
    BY <1>4
  <2>2. <<s, t>> \in R \/ <<t, s>> \in R
    BY <1>0
  <2> HIDE DEF count
  <2>3. count[s] < count[t] \/ count[t] < count[s]
    BY <1>5, <2>2
  <2> QED
    BY <2>1, <2>3
<1>7. count \in Injection(S, 1 .. n)
  <2> HIDE DEF count
  <2> QED
    BY <1>4, <1>6 DEF Injection, IsInjective
<1>8. \A i \in 1 .. n : \E s \in S : count[s] = i
  <2>1. IsFiniteSet(1 .. n) /\ Cardinality(1 .. n) = n
    <3> HIDE DEF n
    <3> QED
      BY <1>1, FS_Interval
  <2>2. count \in Surjection(S, 1 .. n)
    <3> HIDE DEF count
    <3> QED
      BY <1>7, <2>1, FS_Injection
  <2> HIDE DEF count
  <2> QED
    BY <2>2 DEF Surjection
<1>10. \A i \in 1 .. n : f[i] \in S /\ count[f[i]] = i
  <2> SUFFICES ASSUME NEW i \in 1 .. n PROVE f[i] \in S /\ count[f[i]] = i
    OBVIOUS
  <2>1. \E x \in S : Cardinality(Under_(x)) = i - 1
    <3>1. PICK x \in S : count[x] = i
      BY <1>8
    <3> HIDE DEF Under_, n
    <3>2. Cardinality(Under_(x)) \in Nat /\ Cardinality(Under_(x)) + 1 = i
      BY <1>2, <3>1
    <3>3. Cardinality(Under_(x)) = i - 1
      BY <3>2
    <3> QED
      BY <3>3
  <2>2. f[i] \in S /\ Cardinality(Under_(f[i])) = i - 1
    BY <1>0, <2>1
  <2> HIDE DEF Under_
  <2> QED
    BY <1>1, <2>2
<1>11. f \in [1 .. n -> S]
  <2>1. f = [i \in 1 .. n |-> f[i]]
    BY <1>0
  <2> HIDE DEF count
  <2> QED
    BY <1>10, <2>1
<1>12. \A s \in S : count[s] \in 1 .. n /\ f[count[s]] = s
  <2> HIDE DEF count
  <2> QED
    BY <1>4, <1>6, <1>10
<1>13. ASSUME NEW i \in 1 .. n, NEW j \in 1 .. n, i < j PROVE <<f[i], f[j]>> \in R
  <2> HIDE DEF count
  <2>1. f[i] \in S /\ f[j] \in S /\ ~(count[f[j]] < count[f[i]]) /\ count[f[i]] # count[f[j]]
    BY <1>1, <1>10, <1>13
  <2> QED
    BY <1>0, <1>5, <2>1
<1>14. Listing(f, S)
  <2> HIDE DEF count, n
  <2>1. \A i, j \in 1 .. n : f[i] = f[j] => i = j
    BY <1>10
  <2>2. \A s \in S : \E i \in 1 .. n : f[i] = s
    BY <1>12
  <2> QED
    BY <1>1, <1>11, <2>1, <2>2, IsListing
<1> QED
  BY <1>1, <1>11, <1>13, <1>14

(* Sorted lists a finite set of numbers, each once. *)
LEMMA SortedIsListing ==
  ASSUME NEW S \in SUBSET Int, IsFiniteSet(S)
  PROVE  /\ Listing(Sorted(S), S)
         /\ DOMAIN Sorted(S) = 1 .. Cardinality(S) /\ Cardinality(S) \in Nat
         /\ \A i, j \in 1 .. Cardinality(S) : i < j => Sorted(S)[i] < Sorted(S)[j]
<1> DEFINE R == {p \in S \X S : p[1] < p[2]}
           n == Cardinality(S)
           Upon(s) == {t \in S : t <= s}
           Below(s) == {t \in S : <<t, s>> \in R}
           f == Sorted(S)
<1>1. \A s, t \in S : <<s, t>> \in R <=> s < t
  OBVIOUS
<1>2. ASSUME NEW s \in S PROVE Cardinality(Below(s)) \in Nat /\ Cardinality(Upon(s)) = Cardinality(Below(s)) + 1
  <2>1. Upon(s) = Below(s) \cup {s} /\ s \notin Below(s) /\ Below(s) \in SUBSET S
    <3>1. \A t \in S : <<t, s>> \in R <=> t < s
      BY <1>1
    <3> HIDE DEF R
    <3>2. \A t \in S : t <= s <=> <<t, s>> \in R \/ t = s
      BY <3>1
    <3>3. Upon(s) = {t \in S : <<t, s>> \in R \/ t = s}
      BY <3>2
    <3>4. <<s, s>> \notin R
      BY <3>1
    <3> HIDE DEF Upon
    <3> QED
      BY <3>3, <3>4
  <2> HIDE DEF Upon, Below
  <2> QED
    BY <2>1, FS_Subset, FS_CardinalityType, FS_AddElement
<1>3. f = [i \in 1 .. n |-> CHOOSE s \in S : Cardinality(Upon(s)) = i]
  BY DEF Sorted
<1> HIDE DEF R, Upon, n, f
<1>4. ASSUME NEW i \in 1 .. n, NEW s \in S, Cardinality(Below(s)) = i - 1
      PROVE  f[i] \in S /\ Cardinality(Below(f[i])) = i - 1
  <2> HIDE DEF Below
  <2>1. Cardinality(Upon(s)) = i
    BY <1>2, <1>4
  <2>2. f[i] \in S /\ Cardinality(Upon(f[i])) = i
    BY <1>3, <2>1
  <2> DEFINE x == f[i]
  <2> HIDE DEF x
  <2>3. x \in S /\ i = Cardinality(Below(x)) + 1 /\ Cardinality(Below(x)) \in Nat
    BY <1>2, <2>2 DEF x
  <2> QED
    BY <2>3 DEF x
<1>5. PlacedBy(f, S, R)
  <2>1. f = [i \in 1 .. n |-> f[i]]
    BY <1>3
  <2> QED
    BY <1>4, <2>1 DEF PlacedBy, n
<1>6. StrictOrder(S, R)
  BY <1>1 DEF StrictOrder
<1>7. /\ n \in Nat /\ Listing(f, S) /\ DOMAIN f = 1 .. n
      /\ \A i, j \in 1 .. n : i < j => <<f[i], f[j]>> \in R
  BY <1>5, <1>6, CountingIsListing DEF n
<1> QED
  BY <1>1, <1>7 DEF f, n, Listing

(* A partition of symbols, by the least of each part. *)
LEMMA LeastOfParts ==
  ASSUME NEW P, NEW S, Partition(P, S), IsFiniteSet(S), S \subseteq Nat
  PROVE  /\ \A c \in P : Min(c) \in c /\ Min(c) \in S /\ \A s \in c : Min(c) <= s
         /\ \A c, d \in P : Min(c) = Min(d) => c = d
<1>1. ASSUME NEW c \in P PROVE Min(c) \in c /\ Min(c) \in S /\ \A s \in c : Min(c) <= s
  <2>1. IsFiniteSet(c) /\ c # {} /\ c \subseteq S
    BY FiniteUnion DEF Partition
  <2>2. c \in SUBSET Int
    BY <2>1
  <2> QED
    BY <2>1, <2>2, MinIsLeast
<1> QED
  BY <1>1 DEF Partition

(* ByLeast lists the parts of a set, each once. *)
LEMMA ByLeastIsListing ==
  ASSUME NEW P, NEW S, Partition(P, S), IsFiniteSet(S), S \subseteq Nat
  PROVE  Listing(ByLeast(P), P)
<1> DEFINE least == {Min(c) : c \in P}
           sorted == Sorted(least)
           n == Cardinality(least)
           f == ByLeast(P)
<1>1. \A c \in P : Min(c) \in S /\ Min(c) \in least
  BY LeastOfParts
<1>2. least \in SUBSET Int /\ IsFiniteSet(least)
  <2>1. least \in SUBSET S
    BY <1>1
  <2> HIDE DEF least
  <2>2. IsFiniteSet(least)
    BY <2>1, FS_Subset
  <2> QED
    BY <2>1, <2>2
<1>3. \A m \in least : \E c \in P : Min(c) = m
  OBVIOUS
<1> HIDE DEF least
<1>4. Listing(sorted, least) /\ DOMAIN sorted = 1 .. n /\ n \in Nat /\ Len(sorted) = n
  BY <1>2, SortedIsListing DEF Listing
<1> HIDE DEF sorted, n
<1>5. f = [i \in 1 .. n |-> CHOOSE c \in P : Min(c) = sorted[i]]
  BY <1>4 DEF ByLeast, sorted, least
<1>6. \A i \in 1 .. n : f[i] \in P /\ Min(f[i]) = sorted[i]
  <2>1. \A i \in 1 .. n : sorted[i] \in least
    BY <1>4 DEF Listing
  <2> HIDE DEF f
  <2> QED
    BY <1>3, <1>5, <2>1
<1>7. f \in [1 .. n -> P]
  BY <1>5, <1>6
<1>8. \A i, j \in 1 .. n : f[i] = f[j] => i = j
  <2> HIDE DEF f
  <2> QED
    BY <1>4, <1>6 DEF Listing
<1>9. ASSUME NEW c \in P PROVE \E i \in 1 .. n : f[i] = c
  <2>1. PICK i \in 1 .. n : sorted[i] = Min(c)
    BY <1>1, <1>4 DEF Listing
  <2> HIDE DEF f
  <2> QED
    BY <1>6, <2>1, LeastOfParts
<1> HIDE DEF f
<1>10. Listing(f, P)
  BY <1>4, <1>7, <1>8, <1>9, IsListing
<1> QED
  BY <1>10 DEF f

-----------------------------------------------------------------------------
(* Topological orders. *)

(* The component taken next is called by no other one left. *)
LEMMA NextComponentIsReady ==
  ASSUME NEW G, OfSymbols(G), NEW rest \in SUBSET StrongComponents(G), rest # {}
  PROVE  /\ NextComponent(G, rest) \in rest
         /\ \A d \in rest \ {NextComponent(G, rest)} : \A e \in G.edge :
              ~(e[1] \in d /\ e[2] \in NextComponent(G, rest))
<1> DEFINE Ready(c) == \A d \in rest \ {c} : ~\E e \in G.edge : e[1] \in d /\ e[2] \in c
           ready == {c \in rest : Ready(c)}
<1>1. /\ IsGraph(G) /\ G.node \subseteq Nat /\ IsFiniteSet(G.node)
      /\ Partition(StrongComponents(G), G.node)
  BY StrongPartition DEF OfSymbols, IsGraph
<1>2. ready # {}
  <2>1. UNION rest \in SUBSET G.node /\ UNION rest # {}
    BY <1>1 DEF Partition
  <2>2. PICK r \in UNION rest : \A p \in UNION rest : <<p, r>> \in Reaches(G) => <<r, p>> \in Reaches(G)
    BY <1>1, <2>1, TopOf
  <2>3. PICK c \in rest : r \in c
    BY <2>2
  <2>4. ASSUME NEW d \in rest \ {c}, NEW e \in G.edge, e[1] \in d, e[2] \in c PROVE FALSE
    <3>1. <<e[1], e[2]>> \in Reaches(G)
      BY <1>1, Reaching
    <3>2. <<e[2], r>> \in Reaches(G)
      BY <1>1, <2>3, <2>4, StrongPartition
    <3>3. <<e[1], r>> \in Reaches(G)
      BY <1>1, <3>1, <3>2, Reaching
    <3>4. e[1] \in UNION rest
      BY <2>4
    <3>5. <<r, e[1]>> \in Reaches(G)
      BY <2>2, <3>3, <3>4
    <3>6. e[1] \in c
      BY <1>1, <2>3, <3>3, <3>5, StrongPartition
    <3>7. d = c
      BY <1>1, <2>4, <3>6 DEF Partition
    <3> QED
      BY <2>4, <3>7
  <2> QED
    BY <2>4
<1>3. \E c \in ready : \A d \in ready : Min(c) <= Min(d)
  <2> DEFINE least == {Min(c) : c \in ready}
  <2>1. \A c \in ready : c \in StrongComponents(G)
    OBVIOUS
  <2> HIDE DEF ready
  <2>2. \A c \in ready : Min(c) \in G.node
    BY <1>1, <2>1, LeastOfParts
  <2>3. least \in SUBSET G.node /\ least # {}
    BY <1>2, <2>2
  <2> HIDE DEF least
  <2>4. least \in SUBSET Int /\ IsFiniteSet(least)
    BY <1>1, <2>3, FS_Subset
  <2>5. Min(least) \in least /\ \A m \in least : Min(least) <= m
    BY <2>3, <2>4, MinIsLeast
  <2> QED
    BY <2>5 DEF least
<1>4. /\ NextComponent(G, rest) \in rest /\ Ready(NextComponent(G, rest))
  <2> DEFINE Best(c) == Ready(c) /\ \A d \in rest : Ready(d) => Min(c) <= Min(d)
  <2>1. \E c \in rest : Best(c)
    BY <1>3
  <2>2. NextComponent(G, rest) = CHOOSE c \in rest : Best(c)
    BY DEF NextComponent
  <2> HIDE DEF Best
  <2>3. NextComponent(G, rest) \in rest /\ Best(NextComponent(G, rest))
    BY <2>1, <2>2
  <2> QED
    BY <2>3 DEF Best
<1> QED
  BY <1>4

(* Components such that no edge leads back in the sequence. *)
Ordered(G, f, C) ==
  /\ Listing(f, C)
  /\ \A i, j \in 1 .. Len(f) : i < j => \A e \in G.edge : ~(e[1] \in f[j] /\ e[2] \in f[i])

(* A component that no other one calls may be put in front. *)
LEMMA OrderGrows ==
  ASSUME NEW G, NEW N, NEW c \in N, NEW f, Ordered(G, f, N \ {c}),
         \A d \in N \ {c} : \A e \in G.edge : ~(e[1] \in d /\ e[2] \in c)
  PROVE  Ordered(G, <<c>> \o f, N)
<1> DEFINE g == <<c>> \o f
<1>1. f \in Seq(N) /\ <<c>> \in Seq(N) /\ Len(<<c>>) = 1 /\ <<c>>[1] = c /\ Len(f) \in Nat
  <2>1. f \in Seq(N)
    BY SeqMonotonic DEF Ordered, Listing
  <2> QED
    BY <2>1 DEF Ordered, Listing
<1>2. g \in Seq(N) /\ Len(g) = Len(f) + 1 /\ DOMAIN g = 1 .. Len(g)
  BY <1>1, ConcatProperties, LenProperties
<1>3. g[1] = c /\ \A i \in 2 .. Len(f) + 1 : g[i] = f[i - 1] /\ i - 1 \in 1 .. Len(f)
  BY <1>1, ConcatProperties
<1> HIDE DEF g
<1>4. \A i \in 1 .. Len(f) : f[i] \in N /\ f[i] # c
  BY DEF Ordered, Listing
<1>5. ASSUME NEW i \in 1 .. Len(g), NEW j \in 1 .. Len(g), i < j
      PROVE  g[i] # g[j] /\ \A e \in G.edge : ~(e[1] \in g[j] /\ e[2] \in g[i])
  <2>1. j \in 2 .. Len(f) + 1
    BY <1>1, <1>2, <1>5
  <2>2. CASE i = 1
    BY <1>3, <1>4, <2>1, <2>2
  <2>3. CASE i # 1
    <3>1. i \in 2 .. Len(f) + 1 /\ i - 1 < j - 1 /\ i - 1 # j - 1
      BY <1>1, <1>2, <1>5, <2>3
    <3> QED
      BY <1>3, <2>1, <3>1 DEF Ordered, Listing
  <2> QED
    BY <2>2, <2>3
<1>6. ASSUME NEW d \in N PROVE \E i \in 1 .. Len(g) : g[i] = d
  <2>1. CASE d = c
    BY <1>1, <1>2, <1>3, <2>1
  <2>2. CASE d # c
    <3>1. PICK i \in 1 .. Len(f) : f[i] = d
      BY <2>2 DEF Ordered, Listing
    <3>2. i + 1 \in 2 .. Len(f) + 1 /\ i + 1 \in 1 .. Len(g) /\ i + 1 - 1 = i
      BY <1>1, <1>2
    <3> QED
      BY <1>3, <3>1, <3>2
  <2> QED
    BY <2>1, <2>2
<1>7. \A i, j \in 1 .. Len(g) : g[i] = g[j] => i = j
  <2>1. \A i, j \in 1 .. Len(g) : i = j \/ i < j \/ j < i
    BY <1>1, <1>2
  <2> QED
    BY <1>5, <2>1
<1>8. \A i \in 1 .. Len(g) : g[i] \in N
  BY <1>2, ElementOfSeq
<1>9. Listing(g, N)
  BY <1>1, <1>2, <1>6, <1>7, <1>8 DEF Listing
<1>10. Ordered(G, g, N)
  BY <1>5, <1>9 DEF Ordered
<1> QED
  BY <1>10 DEF g

(* TopologicalOrder lists every strong component once, and no call leads *)
(* back in it. *)
LEMMA TopologicalOrderIsOrdered ==
  ASSUME NEW G, OfSymbols(G)
  PROVE  Ordered(G, TopologicalOrder(G), StrongComponents(G))
<1> DEFINE C == StrongComponents(G)
           W == [N \in SUBSET C |-> {f \in Seq(C) : Ordered(G, f, N)}]
           pick == [N \in SUBSET C |-> NextComponent(G, N)]
           step == [N \in SUBSET C |-> [f \in W[N \ {pick[N]}] |-> <<pick[N]>> \o f]]
           Body(order, rest) == IF rest = {} THEN <<>>
                                ELSE LET next == NextComponent(G, rest)
                                     IN  <<next>> \o order[rest \ {next}]
           Solved(order) == order = [rest \in SUBSET C |-> Body(order, rest)]
           K == CHOOSE order : Solved(order)
<1>1. <<>> \in W[{}]
  <2>1. Ordered(G, <<>>, {})
    BY DEF Ordered, Listing
  <2> QED
    BY <2>1
<1>2. \A N \in SUBSET C : N # {} => pick[N] \in N
  BY NextComponentIsReady
<1>3. ASSUME NEW N \in SUBSET C, N # {}, NEW f \in W[N \ {pick[N]}]
      PROVE  <<pick[N]>> \o f \in W[N]
  <2>1. /\ pick[N] \in N /\ f \in Seq(C) /\ Ordered(G, f, N \ {pick[N]})
        /\ \A d \in N \ {pick[N]} : \A e \in G.edge : ~(e[1] \in d /\ e[2] \in pick[N])
    BY <1>2, <1>3, NextComponentIsReady
  <2> HIDE DEF pick, C
  <2>2. Ordered(G, <<pick[N]>> \o f, N)
    BY <2>1, OrderGrows
  <2>3. <<pick[N]>> \o f \in Seq(C)
    BY <2>1, ConcatProperties
  <2> QED
    BY <2>2, <2>3
<1>4. \A N \in SUBSET C : N # {} => step[N] \in [W[N \ {pick[N]}] -> W[N]]
  <2> HIDE DEF W, pick, C
  <2> QED
    BY <1>3
<1>5. Recursion(C, W, <<>>, pick, step)
  <2>1. IsFiniteSet(C)
    BY StrongPartition DEF OfSymbols
  <2> HIDE DEF W, pick, step, C
  <2> QED
    BY <1>1, <1>2, <1>4, <2>1 DEF Recursion
<1>6. PICK g : Solves(g, C, W, <<>>, pick, step)
  <2> HIDE DEF W, pick, step, C
  <2> QED
    BY <1>5, SubsetRecursion
<1>7. Solved(g)
  <2>1. \A N \in SUBSET C : N # {} => g[N] = <<pick[N]>> \o g[N \ {pick[N]}]
    <3> HIDE DEF W, pick, C
    <3> QED
      BY <1>2, <1>6 DEF Solves
  <2>2. g[{}] = <<>> /\ g = [N \in SUBSET C |-> g[N]]
    BY <1>6 DEF Solves
  <2>3. \A N \in SUBSET C : pick[N] = NextComponent(G, N)
    OBVIOUS
  <2> HIDE DEF pick, C
  <2>4. \A N \in SUBSET C : g[N] = Body(g, N)
    BY <2>1, <2>2, <2>3
  <2> HIDE DEF Body
  <2> QED
    BY <2>2, <2>4
<1>8. Solved(K)
  <2> HIDE DEF Solved
  <2> QED
    BY <1>7
<1>9. TopologicalOrder(G) = K[C]
  BY DEF TopologicalOrder
<1>10. ASSUME NEW N \in SUBSET C PROVE K[N] = Body(K, N)
  <2> HIDE DEF K, Body
  <2> QED
    BY <1>8
<1> HIDE DEF K
<1>11. \A N \in SUBSET C : K[N] \in W[N]
  <2>1. K[{}] = <<>>
    BY <1>10
  <2>2. \A N \in SUBSET C : N # {} => K[N] = <<pick[N]>> \o K[N \ {pick[N]}]
    BY <1>10
  <2>3. \A N \in SUBSET C : N # {} /\ K[N \ {pick[N]}] \in W[N \ {pick[N]}]
           => K[N] = step[N][K[N \ {pick[N]}]]
    <3> HIDE DEF W, pick, C
    <3> QED
      BY <2>2
  <2> HIDE DEF W, pick, step, C
  <2> QED
    BY <1>5, <2>1, <2>3, SubsetInvariant
<1> QED
  BY <1>9, <1>11

(* No chain of calls leads back in such an order either. *)
LEMMA NoWayBack ==
  ASSUME NEW G, IsGraph(G), NEW f, NEW C, Ordered(G, f, C), Partition(C, G.node),
         NEW i \in 1 .. Len(f), NEW j \in 1 .. Len(f), i < j, NEW s \in f[j], NEW t \in f[i]
  PROVE  <<s, t>> \notin Reaches(G)
<1> SUFFICES ASSUME <<s, t>> \in Reaches(G) PROVE FALSE
  OBVIOUS
<1> DEFINE S == {n \in G.node : \E k \in 1 .. Len(f) : j <= k /\ n \in f[k]}
<1>0. Len(f) \in Nat /\ \A k \in 1 .. Len(f) : f[k] \in C
  BY DEF Ordered, Listing
<1>1. ASSUME NEW e \in G.edge, e[1] \in S PROVE e[2] \in S
  <2>1. PICK k \in 1 .. Len(f) : j <= k /\ e[1] \in f[k]
    BY <1>1
  <2>2. e[2] \in G.node
    BY Reaching
  <2>3. PICK l \in 1 .. Len(f) : e[2] \in f[l]
    BY <2>2 DEF Partition, Ordered, Listing
  <2>4. ~(l < k)
    BY <2>1, <2>3 DEF Ordered
  <2>5. j <= l
    BY <1>0, <2>1, <2>4
  <2> QED
    BY <2>2, <2>3, <2>5
<1>2. s \in S
  <2>1. s \in G.node
    BY <1>0 DEF Partition
  <2> QED
    BY <1>0, <2>1
<1>3. t \in S
  <2> HIDE DEF S
  <2> QED
    BY <1>1, <1>2, StaysInside
<1>4. PICK k \in 1 .. Len(f) : j <= k /\ t \in f[k]
  BY <1>3
<1>5. f[k] = f[i]
  BY <1>0, <1>4 DEF Partition
<1>6. k = i
  BY <1>5 DEF Ordered, Listing
<1> QED
  BY <1>0, <1>4, <1>6

-----------------------------------------------------------------------------
(* Sizes of units. *)

(* The tokens of some symbols are a number. *)
LEMMA TokensAdd ==
  ASSUME NEW S, IsFiniteSet(S), \A s \in S : Tokens[s] \in Nat
  PROVE  MapThenSumSet(LAMBDA s : Tokens[s], S) \in Nat
<1> DEFINE W == [N \in SUBSET S |-> Nat]
           pick == [N \in SUBSET S |-> CHOOSE x \in N : TRUE]
           step == [N \in SUBSET S |-> [t \in Nat |-> Tokens[pick[N]] + t]]
           Body(iter, s) == IF s = {} THEN 0
                            ELSE LET x == CHOOSE x \in s : TRUE
                                 IN  Tokens[x] + iter[s \ {x}]
           Solved(iter) == iter = [s \in SUBSET S |-> Body(iter, s)]
           K == CHOOSE iter : Solved(iter)
<1>1. \A N \in SUBSET S : N # {} => pick[N] \in N
  OBVIOUS
<1>2. \A N \in SUBSET S : N # {} => step[N] \in [W[N \ {pick[N]}] -> W[N]]
  <2> HIDE DEF pick
  <2> QED
    BY <1>1
<1>3. Recursion(S, W, 0, pick, step)
  <2> HIDE DEF pick, step
  <2> QED
    BY <1>1, <1>2 DEF Recursion
<1>4. PICK g : Solves(g, S, W, 0, pick, step)
  <2> HIDE DEF W, pick, step
  <2> QED
    BY <1>3, SubsetRecursion
<1>5. Solved(g)
  <2>1. \A N \in SUBSET S : N # {} => g[N] = Tokens[pick[N]] + g[N \ {pick[N]}]
    <3> HIDE DEF pick
    <3> QED
      BY <1>1, <1>4 DEF Solves
  <2>2. g[{}] = 0 /\ g = [N \in SUBSET S |-> g[N]]
    BY <1>4 DEF Solves
  <2>3. \A N \in SUBSET S : pick[N] = CHOOSE x \in N : TRUE
    OBVIOUS
  <2> HIDE DEF pick
  <2>4. \A N \in SUBSET S : g[N] = Body(g, N)
    BY <2>1, <2>2, <2>3
  <2> HIDE DEF Body
  <2> QED
    BY <2>2, <2>4
<1>6. Solved(K)
  <2> HIDE DEF Solved
  <2> QED
    BY <1>5
<1>7. MapThenSumSet(LAMBDA s : Tokens[s], S) = K[S]
  BY DEF MapThenSumSet, MapThenFoldSet
<1>8. ASSUME NEW N \in SUBSET S PROVE K[N] = Body(K, N)
  <2> HIDE DEF K, Body
  <2> QED
    BY <1>6
<1> HIDE DEF K
<1>9. \A N \in SUBSET S : K[N] \in W[N]
  <2>1. K[{}] = 0
    BY <1>8
  <2>2. \A N \in SUBSET S : N # {} => K[N] = Tokens[pick[N]] + K[N \ {pick[N]}]
    BY <1>8
  <2>3. \A N \in SUBSET S : N # {} /\ K[N \ {pick[N]}] \in W[N \ {pick[N]}]
           => K[N] = step[N][K[N \ {pick[N]}]]
    <3> HIDE DEF pick
    <3> QED
      BY <2>2
  <2> HIDE DEF W, pick, step
  <2> QED
    BY <1>3, <2>1, <2>3, SubsetInvariant
<1> QED
  BY <1>7, <1>9

(* What the sources of symbols cost is a number of tokens. *)
Counted(G) == OfSymbols(G) /\ \A s \in G.node : Tokens[s] \in Nat

(* The estimate of a unit is a number. *)
LEMMA EstimateCounts ==
  ASSUME NEW G, Counted(G), NEW S \in SUBSET G.node
  PROVE  Estimate(G, S) \in Nat /\ IsFiniteSet(S) /\ Cardinality(S) \in Nat
<1>1. IsFiniteSet(S) /\ Cardinality(S) \in Nat /\ \A s \in S : Tokens[s] \in Nat
  BY FS_Subset, FS_CardinalityType DEF Counted, OfSymbols, IsGraph
<1>2. MapThenSumSet(LAMBDA s : Tokens[s], S) \in Nat
  BY <1>1, TokensAdd
<1>3. Neighbors(G, S) \subseteq G.node \X {"callee", "caller"}
  <2>1. \A e \in G.edge : e[1] \in G.node /\ e[2] \in G.node
    BY Reaching DEF Counted, OfSymbols
  <2> QED
    BY <2>1 DEF Neighbors
<1>4. IsFiniteSet(G.node \X {"callee", "caller"})
  <2>1. IsFiniteSet({"callee", "caller"})
    <3>1. IsFiniteSet({"callee"})
      BY FS_Singleton
    <3>2. IsFiniteSet({"callee"} \cup {"caller"})
      BY <3>1, FS_AddElement
    <3>3. {"callee", "caller"} = {"callee"} \cup {"caller"}
      OBVIOUS
    <3> QED
      BY <3>2, <3>3
  <2> QED
    BY <2>1, FS_Product DEF Counted, OfSymbols, IsGraph
<1>5. Cardinality(Neighbors(G, S)) \in Nat
  BY <1>3, <1>4, FS_Subset, FS_CardinalityType
<1> QED
  BY <1>1, <1>2, <1>5 DEF Estimate

-----------------------------------------------------------------------------
(* Sequences of units. *)

(* What UnitsAreSound says of one unit, and of two that follow each other *)
(* in one weak component. *)
FitsPrompt(G, u) ==
  \/ Estimate(G, u) <= TokenBudget /\ Cardinality(u) <= MaxFunctions
  \/ Estimate(G, u) <= HardLimit /\ \A s, t \in u : <<s, t>> \in Reaches(G)
ClosedBy(G, u, v) ==
  \E c \in StrongComponents(G) :
    /\ c \subseteq v
    /\ ~\E e \in G.edge : e[1] \in v \ c /\ e[2] \in c
    /\ Exceeds(G, u, c)
Apart(G, u, v) == \A s \in v, t \in u : <<s, t>> \notin Reaches(G)

(* A sequence of units: nonempty sets of symbols that fit, none of which *)
(* is reached from a later one, and each closed by the next one. *)
Chain(G, s) ==
  /\ s \in Seq(SUBSET G.node) /\ Len(s) \in Nat
  /\ \A i \in 1 .. Len(s) : s[i] # {} /\ s[i] \subseteq G.node /\ FitsPrompt(G, s[i])
  /\ \A i, j \in 1 .. Len(s) : j < i => Apart(G, s[j], s[i])
  /\ \A i, j \in 1 .. Len(s) : j = i + 1 => ClosedBy(G, s[i], s[j])

(* After the check of prepare, a single component fits a prompt. *)
LEMMA ComponentFits ==
  ASSUME NEW G, Counted(G), ~TooLarge(G), NEW c \in StrongComponents(G)
  PROVE  FitsPrompt(G, c) /\ c # {} /\ c \subseteq G.node
<1>1. IsGraph(G)
  BY DEF Counted, OfSymbols
<1>2. c # {} /\ c \subseteq G.node /\ \A s, t \in c : <<s, t>> \in Reaches(G)
  BY <1>1, StrongPartition DEF Partition
<1>3. Estimate(G, c) \in Nat
  BY <1>2, EstimateCounts
<1>4. ~(Estimate(G, c) > HardLimit)
  BY DEF TooLarge
<1>5. Estimate(G, c) <= HardLimit
  BY <1>3, <1>4, LimitsAssumption
<1> QED
  BY <1>2, <1>5 DEF FitsPrompt

(* A component opens a sequence of units. *)
LEMMA ChainOpens ==
  ASSUME NEW G, Counted(G), ~TooLarge(G), NEW c \in StrongComponents(G)
  PROVE  Chain(G, Append(<<>>, c)) /\ Len(Append(<<>>, c)) = 1 /\ Append(<<>>, c)[1] = c
<1>1. FitsPrompt(G, c) /\ c # {} /\ c \subseteq G.node
  BY ComponentFits
<1>2. /\ <<>> \in Seq(SUBSET G.node) /\ Len(<<>>) = 0
  OBVIOUS
<1>3. /\ Append(<<>>, c) \in Seq(SUBSET G.node) /\ Len(Append(<<>>, c)) = 1
      /\ Append(<<>>, c)[1] = c
  <2> DEFINE e == <<>>
  <2>1. e \in Seq(SUBSET G.node) /\ Len(e) = 0 /\ c \in SUBSET G.node
    BY <1>1, <1>2
  <2> HIDE DEF e
  <2>2. /\ Append(e, c) \in Seq(SUBSET G.node) /\ Len(Append(e, c)) = Len(e) + 1
        /\ Append(e, c)[Len(e) + 1] = c
    BY <2>1, AppendProperties
  <2>3. Append(e, c) \in Seq(SUBSET G.node) /\ Len(Append(e, c)) = 1 /\ Append(e, c)[1] = c
    BY <2>1, <2>2
  <2> QED
    BY <2>3 DEF e
<1> QED
  BY <1>1, <1>3 DEF Chain

(* A component that the last unit cannot take opens the next one. *)
LEMMA ChainContinues ==
  ASSUME NEW G, Counted(G), ~TooLarge(G), NEW c \in StrongComponents(G),
         NEW s, Chain(G, s), Len(s) > 0, Exceeds(G, s[Len(s)], c),
         \A i \in 1 .. Len(s) : Apart(G, s[i], c)
  PROVE  /\ Chain(G, Append(s, c)) /\ Len(Append(s, c)) = Len(s) + 1
         /\ Append(s, c)[Len(s) + 1] = c
         /\ \A i \in 1 .. Len(s) : Append(s, c)[i] = s[i]
<1> DEFINE t == Append(s, c)
<1>1. FitsPrompt(G, c) /\ c # {} /\ c \subseteq G.node
  BY ComponentFits
<1>2. /\ t \in Seq(SUBSET G.node) /\ Len(t) = Len(s) + 1 /\ Len(s) \in Nat
      /\ t[Len(s) + 1] = c /\ \A i \in 1 .. Len(s) : t[i] = s[i]
  BY <1>1, AppendProperties DEF Chain
<1> HIDE DEF t
<1>3. \A i \in 1 .. Len(t) : i = Len(s) + 1 \/ i \in 1 .. Len(s)
  BY <1>2
<1>4. \A i \in 1 .. Len(t) : t[i] # {} /\ t[i] \subseteq G.node /\ FitsPrompt(G, t[i])
  BY <1>1, <1>2, <1>3 DEF Chain
<1>5. ASSUME NEW i \in 1 .. Len(t), NEW j \in 1 .. Len(t), j < i PROVE Apart(G, t[j], t[i])
  <2>1. j \in 1 .. Len(s)
    BY <1>2, <1>5
  <2> QED
    BY <1>2, <1>3, <1>5, <2>1 DEF Chain
<1>6. ASSUME NEW i \in 1 .. Len(t), NEW j \in 1 .. Len(t), j = i + 1
      PROVE  ClosedBy(G, t[i], t[j])
  <2>1. CASE j \in 1 .. Len(s)
    <3>1. i \in 1 .. Len(s)
      BY <1>2, <1>6, <2>1
    <3> QED
      BY <1>2, <1>6, <2>1, <3>1 DEF Chain
  <2>2. CASE j = Len(s) + 1
    <3>1. i = Len(s) /\ i \in 1 .. Len(s)
      BY <1>2, <1>6, <2>2
    <3>2. t[j] = c /\ t[i] = s[Len(s)]
      BY <1>2, <2>2, <3>1
    <3> QED
      BY <3>2 DEF ClosedBy
  <2> QED
    BY <1>3, <2>1, <2>2
<1>7. Chain(G, t)
  BY <1>2, <1>4, <1>5, <1>6 DEF Chain
<1> QED
  BY <1>2, <1>7 DEF t

Joinable(G, u, v, c) ==
  /\ Counted(G) /\ c \in StrongComponents(G)
  /\ u \in Seq(SUBSET G.node) /\ v \in SUBSET G.node
  /\ Chain(G, Append(u, v)) /\ ~Exceeds(G, v, c)
  /\ \A i \in 1 .. Len(Append(u, v)) : Apart(G, Append(u, v)[i], c)

(* A component that the last unit can take joins it. *)
LEMMA ChainJoins ==
  ASSUME NEW G, NEW u, NEW v, NEW c, Joinable(G, u, v, c)
  PROVE  /\ Chain(G, Append(u, v \cup c)) /\ Len(Append(u, v \cup c)) = Len(u) + 1
         /\ Append(u, v \cup c)[Len(u) + 1] = v \cup c
         /\ \A i \in 1 .. Len(u) : Append(u, v \cup c)[i] = u[i]
<1> DEFINE s == Append(u, v)
           t == Append(u, v \cup c)
           n == Len(u) + 1
<1> USE DEF Joinable
<1>0. IsGraph(G)
  BY DEF Counted, OfSymbols
<1>1. c # {} /\ c \subseteq G.node
  BY <1>0, StrongPartition DEF Partition
<1>2. /\ s \in Seq(SUBSET G.node) /\ Len(s) = n /\ Len(u) \in Nat
      /\ s[n] = v /\ \A i \in 1 .. Len(u) : s[i] = u[i]
  BY AppendProperties, LenProperties
<1>3. v \cup c \in SUBSET G.node
  BY <1>1
<1>4. /\ t \in Seq(SUBSET G.node) /\ Len(t) = n
      /\ t[n] = v \cup c /\ \A i \in 1 .. Len(u) : t[i] = u[i]
  BY <1>3, AppendProperties
<1>5. \A i \in 1 .. n : i = n \/ (i \in 1 .. Len(u) /\ t[i] = s[i])
  BY <1>2, <1>4
<1> HIDE DEF s, t
<1>6. FitsPrompt(G, v \cup c)
  <2>1. Estimate(G, v \cup c) \in Nat /\ Cardinality(v \cup c) \in Nat
    BY <1>3, EstimateCounts
  <2>2. /\ ~(Estimate(G, v \cup c) > TokenBudget) /\ ~(Cardinality(v \cup c) > MaxFunctions)
        /\ TokenBudget \in Nat /\ MaxFunctions \in Nat
    BY LimitsAssumption DEF Exceeds
  <2>3. Estimate(G, v \cup c) <= TokenBudget /\ Cardinality(v \cup c) <= MaxFunctions
    BY <2>1, <2>2
  <2> QED
    BY <2>3 DEF FitsPrompt
<1>7. n \in 1 .. n
  BY <1>2
<1>8. \A i \in 1 .. n : t[i] # {} /\ t[i] \subseteq G.node /\ FitsPrompt(G, t[i])
  BY <1>1, <1>2, <1>3, <1>4, <1>5, <1>6 DEF Chain, s
<1>9. ASSUME NEW i \in 1 .. n, NEW j \in 1 .. n, j < i PROVE Apart(G, t[j], t[i])
  <2>1. j # n /\ t[j] = s[j]
    BY <1>2, <1>5, <1>9
  <2>2. Apart(G, s[j], s[i]) /\ Apart(G, s[j], c)
    BY <1>2, <1>9 DEF Chain, s
  <2>3. t[i] = s[i] \/ t[i] = s[i] \cup c
    BY <1>2, <1>4, <1>5
  <2> QED
    BY <2>1, <2>2, <2>3 DEF Apart
<1>10. ASSUME NEW i \in 1 .. n, NEW j \in 1 .. n, j = i + 1 PROVE ClosedBy(G, t[i], t[j])
  <2>1. i # n /\ t[i] = s[i]
    BY <1>2, <1>5, <1>10
  <2>2. ClosedBy(G, s[i], s[j])
    BY <1>2, <1>10 DEF Chain, s
  <2>3. CASE j # n
    BY <1>5, <2>1, <2>2, <2>3
  <2>4. CASE j = n
    <3>1. PICK d \in StrongComponents(G) :
            /\ d \subseteq v /\ ~\E e \in G.edge : e[1] \in v \ d /\ e[2] \in d
            /\ Exceeds(G, s[i], d)
      BY <1>2, <2>2, <2>4 DEF ClosedBy
    <3>2. \A e \in G.edge : e[1] \in c => e[2] \notin d
      <4>1. Apart(G, v, c)
        BY <1>2, <1>7 DEF s
      <4>2. \A e \in G.edge : <<e[1], e[2]>> \in Reaches(G)
        BY <1>0, Reaching
      <4> QED
        BY <3>1, <4>1, <4>2 DEF Apart
    <3>3. d \subseteq v \cup c /\ ~\E e \in G.edge : e[1] \in (v \cup c) \ d /\ e[2] \in d
      BY <3>1, <3>2
    <3> QED
      BY <1>4, <2>1, <2>4, <3>1, <3>3 DEF ClosedBy
  <2> QED
    BY <2>3, <2>4
<1>11. Chain(G, t)
  BY <1>2, <1>4, <1>8, <1>9, <1>10 DEF Chain
<1> QED
  BY <1>4, <1>11 DEF t

-----------------------------------------------------------------------------
(* Packing the units of a weak component. *)

ComponentsIn(G, S) == {c \in StrongComponents(G) : c \subseteq S}

(* The order of a closed part lists its components, and nothing in it *)
(* reaches back in the whole graph. *)
LEMMA OrderOfWhole ==
  ASSUME NEW G, OfSymbols(G), NEW S, Closed(G, S), NEW f, f = TopologicalOrder(Subgraph(G, S))
  PROVE  /\ Listing(f, ComponentsIn(G, S)) /\ Partition(ComponentsIn(G, S), S)
         /\ \A i, j \in 1 .. Len(f) : i < j => Apart(G, f[i], f[j])
<1> DEFINE H == Subgraph(G, S)
<1>1. /\ IsGraph(G) /\ S \in SUBSET G.node /\ IsGraph(H) /\ H.node = S /\ OfSymbols(H)
  BY SubgraphIsGraph DEF OfSymbols, Closed
<1>2. StrongComponents(H) = ComponentsIn(G, S)
  BY <1>1, SubgraphComponents DEF ComponentsIn
<1>3. \A m, n : m \in S /\ <<m, n>> \in Reaches(G) => <<m, n>> \in Reaches(H)
  BY <1>1, SubgraphReaches
<1> HIDE DEF H
<1>4. Partition(ComponentsIn(G, S), S) /\ Ordered(H, f, ComponentsIn(G, S))
  BY <1>1, <1>2, StrongPartition, TopologicalOrderIsOrdered DEF H
<1>5. ASSUME NEW i \in 1 .. Len(f), NEW j \in 1 .. Len(f), i < j PROVE Apart(G, f[i], f[j])
  <2>1. \A s \in f[j], t \in f[i] : <<s, t>> \notin Reaches(H)
    BY <1>1, <1>4, <1>5, NoWayBack
  <2>2. f[j] \subseteq S
    BY <1>4 DEF Partition, Ordered, Listing
  <2> QED
    BY <1>3, <2>1, <2>2 DEF Apart
<1> QED
  BY <1>4, <1>5 DEF Ordered

(* The units made of the first k components of an order. *)
Packed(G, f, k, p) ==
  IF k = 0 THEN p = [units |-> <<>>, current |-> {}]
  ELSE LET s == Append(p.units, p.current)
       IN  /\ Chain(G, s) /\ p.current # {}
           /\ \A n : (\E i \in 1 .. Len(s) : n \in s[i]) <=> (\E i \in 1 .. k : n \in f[i])
Packings(G) == [units : Seq(SUBSET G.node), current : SUBSET G.node]

(* Packing one more component keeps the units sound. *)
LEMMA PackGroupPacks ==
  ASSUME NEW G, Counted(G), ~TooLarge(G), NEW S, NEW f, Listing(f, ComponentsIn(G, S)),
         \A i, j \in 1 .. Len(f) : i < j => Apart(G, f[i], f[j]),
         NEW k \in 1 .. Len(f), NEW p \in Packings(G), Packed(G, f, k - 1, p)
  PROVE  Packed(G, f, k, PackGroup(G, p, f[k]))
<1> DEFINE c == f[k]
           q == PackGroup(G, p, c)
           s == Append(p.units, p.current)
           t == Append(q.units, q.current)
<1>0. k \in Nat /\ k # 0 /\ IsGraph(G) /\ Len(f) \in Nat
  BY DEF Counted, OfSymbols, Listing
<1>1. c \in StrongComponents(G) /\ c # {} /\ c \subseteq G.node
  <2>1. c \in StrongComponents(G)
    BY DEF Listing, ComponentsIn
  <2> QED
    BY <1>0, <2>1, StrongPartition DEF Partition
<1>2. \A n : (\E i \in 1 .. k : n \in f[i]) <=> (\E i \in 1 .. k - 1 : n \in f[i]) \/ n \in c
  <2>1. \A i \in 1 .. k : i \in 1 .. k - 1 \/ i = k
    BY <1>0
  <2>2. k \in 1 .. k /\ \A i \in 1 .. k - 1 : i \in 1 .. k
    BY <1>0
  <2> QED
    BY <2>1, <2>2
<1>3. CASE k = 1
  <2>1. p = [units |-> <<>>, current |-> {}]
    BY <1>3 DEF Packed
  <2>2. q = [units |-> <<>>, current |-> c]
    BY <2>1 DEF PackGroup
  <2>3. t = Append(<<>>, c)
    BY <2>2
  <2>4. \A i \in 1 .. 1 - 1 : FALSE
    OBVIOUS
  <2>5. Chain(G, t) /\ Len(t) = 1 /\ t[1] = c
    BY <1>1, <2>3, ChainOpens
  <2>6. \A n : (\E i \in 1 .. Len(t) : n \in t[i]) <=> n \in c
    BY <2>5
  <2>7. q.current # {}
    BY <1>1, <2>2
  <2> HIDE DEF c, q
  <2>8. \A n : (\E i \in 1 .. Len(t) : n \in t[i]) <=> (\E i \in 1 .. k : n \in f[i])
    BY <1>2, <1>3, <2>4, <2>6
  <2> QED
    BY <1>0, <2>5, <2>7, <2>8 DEF Packed, c, q
<1>4. CASE k # 1
  <2>1. /\ Chain(G, s) /\ p.current # {}
        /\ \A n : (\E i \in 1 .. Len(s) : n \in s[i]) <=> (\E i \in 1 .. k - 1 : n \in f[i])
    BY <1>0, <1>4 DEF Packed
  <2>2. p.units \in Seq(SUBSET G.node) /\ p.current \in SUBSET G.node
    BY DEF Packings
  <2>3. /\ Len(s) = Len(p.units) + 1 /\ Len(p.units) \in Nat /\ s[Len(s)] = p.current
        /\ \A i \in 1 .. Len(p.units) : s[i] = p.units[i]
    BY <2>2, AppendProperties, LenProperties
  <2>4. ASSUME NEW i \in 1 .. Len(s) PROVE Apart(G, s[i], c)
    <3> SUFFICES ASSUME NEW a \in c, NEW b \in s[i] PROVE <<a, b>> \notin Reaches(G)
      BY DEF Apart
    <3>1. PICK l \in 1 .. k - 1 : b \in f[l]
      BY <2>1
    <3>2. l \in 1 .. Len(f) /\ l < k
      BY <1>0
    <3> QED
      BY <3>1, <3>2 DEF Apart
  <2>5. CASE Exceeds(G, p.current, c)
    <3>1. q = [units |-> s, current |-> c]
      BY <2>1, <2>5 DEF PackGroup
    <3>2. t = Append(s, c)
      BY <3>1
    <3> HIDE DEF s, c, t
    <3>3. /\ Chain(G, t) /\ Len(t) = Len(s) + 1 /\ t[Len(s) + 1] = c
          /\ \A i \in 1 .. Len(s) : t[i] = s[i]
      BY <1>1, <2>1, <2>3, <2>4, <2>5, <3>2, ChainContinues
    <3>4. \A n : (\E i \in 1 .. Len(t) : n \in t[i]) <=> (\E i \in 1 .. Len(s) : n \in s[i]) \/ n \in c
      <4>1. Len(s) \in Nat
        BY <2>3
      <4>2. \A i \in 1 .. Len(t) : i \in 1 .. Len(s) \/ i = Len(s) + 1
        BY <3>3, <4>1
      <4>3. Len(s) + 1 \in 1 .. Len(t) /\ \A i \in 1 .. Len(s) : i \in 1 .. Len(t)
        BY <3>3, <4>1
      <4> QED
        BY <3>3, <4>2, <4>3
    <3>5. q.current # {}
      BY <1>1, <3>1
    <3> HIDE DEF q
    <3> QED
      BY <1>0, <1>2, <2>1, <3>3, <3>4, <3>5 DEF Packed, t, q, c
  <2>6. CASE ~Exceeds(G, p.current, c)
    <3>1. q = [units |-> p.units, current |-> p.current \cup c]
      BY <2>6 DEF PackGroup, Packings
    <3>2. t = Append(p.units, p.current \cup c)
      BY <3>1
    <3>3. /\ Chain(G, t) /\ Len(t) = Len(p.units) + 1
          /\ t[Len(p.units) + 1] = p.current \cup c
          /\ \A i \in 1 .. Len(p.units) : t[i] = p.units[i]
      <4> DEFINE u == p.units
                 v == p.current
      <4>1. Joinable(G, u, v, c)
        BY <1>1, <2>1, <2>2, <2>4, <2>6 DEF Joinable
      <4> HIDE DEF t, c, q, u, v
      <4>2. /\ Chain(G, Append(u, v \cup c)) /\ Len(Append(u, v \cup c)) = Len(u) + 1
            /\ Append(u, v \cup c)[Len(u) + 1] = v \cup c
            /\ \A i \in 1 .. Len(u) : Append(u, v \cup c)[i] = u[i]
        BY <4>1, ChainJoins
      <4> QED
        BY <3>2, <4>2 DEF u, v
    <3> HIDE DEF s, c, t
    <3>4. \A n : (\E i \in 1 .. Len(t) : n \in t[i]) <=> (\E i \in 1 .. Len(s) : n \in s[i]) \/ n \in c
      <4>1. \A i \in 1 .. Len(s) : i = Len(s) \/ i \in 1 .. Len(p.units)
        BY <2>3
      <4>2. Len(s) \in 1 .. Len(s) /\ Len(t) = Len(s)
        BY <2>3, <3>3
      <4>3. \A i \in 1 .. Len(p.units) : t[i] = s[i]
        BY <2>3, <3>3
      <4>4. t[Len(s)] = s[Len(s)] \cup c
        BY <2>3, <3>3
      <4> QED
        BY <4>1, <4>2, <4>3, <4>4
    <3>5. q.current # {}
      BY <1>1, <3>1
    <3> HIDE DEF q
    <3> QED
      BY <1>0, <1>2, <2>1, <3>3, <3>4, <3>5 DEF Packed, t, q, c
  <2> QED
    BY <2>5, <2>6
<1> QED
  BY <1>3, <1>4

(* The interval 1 .. k without its greatest element. *)
LEMMA LastOfInterval ==
  ASSUME NEW k \in Nat, k # 0
  PROVE  Max(1 .. k) = k /\ (1 .. k) \ {k} = 1 .. k - 1
<1> DEFINE N == 1 .. k
<1>1. N \in SUBSET Int /\ IsFiniteSet(N) /\ k \in N /\ \A x \in N : x \in Int /\ x <= k
  BY FS_Interval
<1> HIDE DEF N
<1>2. Max(N) \in N /\ \A x \in N : x <= Max(N)
  BY <1>1, MaxIsGreatest
<1>3. Max(N) = k
  <2>1. k <= Max(N) /\ Max(N) <= k /\ Max(N) \in Int
    BY <1>1, <1>2
  <2> QED
    BY <2>1
<1>4. (1 .. k) \ {k} = 1 .. k - 1
  OBVIOUS
<1> QED
  BY <1>3, <1>4 DEF N

(* The units of a weak component are sound, and hold all of it. *)
LEMMA PackComponentPacks ==
  ASSUME NEW G, Counted(G), ~TooLarge(G), NEW S, Closed(G, S), S # {}
  PROVE  /\ Chain(G, PackComponent(G, S)) /\ Len(PackComponent(G, S)) > 0
         /\ \A n : (\E i \in 1 .. Len(PackComponent(G, S)) : n \in PackComponent(G, S)[i]) <=> n \in S
<1> DEFINE f == TopologicalOrder(Subgraph(G, S))
           m == Len(f)
           D == DOMAIN f
           base == [units |-> <<>>, current |-> {}]
           W == [N \in SUBSET D |-> {p \in Packings(G) : \A k \in 0 .. m : N = 1 .. k => Packed(G, f, k, p)}]
           pick == [N \in SUBSET D |-> Max(N)]
           step == [N \in SUBSET D |-> [p \in W[N \ {pick[N]}] |-> PackGroup(G, p, f[pick[N]])]]
           Body(iter, s) == IF s = {} THEN base
                            ELSE LET x == Max(s)
                                 IN  PackGroup(G, iter[s \ {x}], f[x])
           Solved(iter) == iter = [s \in SUBSET D |-> Body(iter, s)]
           K == CHOOSE iter : Solved(iter)
<1>1. /\ OfSymbols(G) /\ IsGraph(G) /\ Listing(f, ComponentsIn(G, S)) /\ Partition(ComponentsIn(G, S), S)
      /\ \A i, j \in 1 .. Len(f) : i < j => Apart(G, f[i], f[j])
  BY OrderOfWhole DEF Counted, OfSymbols
<1> HIDE DEF f
<1>2. m \in Nat /\ D = 1 .. m /\ \A i \in D : f[i] \in SUBSET G.node
  <2>1. S \subseteq G.node
    BY DEF Closed
  <2> QED
    BY <1>1, <2>1 DEF Listing, ComponentsIn
<1>3. IsFiniteSet(D) /\ D \in SUBSET Int
  BY <1>2, FS_Interval
<1> HIDE DEF m, D
<1>4. \A N \in SUBSET D : N # {} => pick[N] \in N
  <2>1. ASSUME NEW N \in SUBSET D, N # {} PROVE Max(N) \in N
    <3>1. IsFiniteSet(N) /\ N \in SUBSET Int
      BY <1>3, FS_Subset
    <3> QED
      BY <2>1, <3>1, MaxIsGreatest
  <2> QED
    BY <2>1
<1>5. ASSUME NEW N \in SUBSET D, N # {}, NEW p \in W[N \ {pick[N]}]
      PROVE  PackGroup(G, p, f[pick[N]]) \in W[N]
  <2>1. p \in Packings(G) /\ \A k \in 0 .. m : N \ {pick[N]} = 1 .. k => Packed(G, f, k, p)
    BY <1>4, <1>5
  <2>2. f[pick[N]] \in SUBSET G.node
    BY <1>2, <1>4, <1>5
  <2>3. PackGroup(G, p, f[pick[N]]) \in Packings(G)
    <3> HIDE DEF pick
    <3>1. Append(p.units, p.current) \in Seq(SUBSET G.node)
      BY <2>1, AppendProperties DEF Packings
    <3> QED
      BY <2>1, <2>2, <3>1 DEF PackGroup, Packings
  <2>4. ASSUME NEW k \in 0 .. m, N = 1 .. k PROVE Packed(G, f, k, PackGroup(G, p, f[pick[N]]))
    <3>1. k >= 1 /\ pick[N] = k /\ N \ {pick[N]} = 1 .. k - 1
      <4>1. pick[N] = Max(N)
        OBVIOUS
      <4>2. k >= 1 /\ Max(N) = k /\ N \ {Max(N)} = 1 .. k - 1
        <5>1. k \in Nat
          BY <1>2
        <5>2. k # 0
          <6> SUFFICES ASSUME k = 0 PROVE FALSE
            OBVIOUS
          <6>1. 1 .. k = {}
            OBVIOUS
          <6> QED
            BY <1>5, <2>4, <6>1
        <5>3. Max(1 .. k) = k /\ (1 .. k) \ {k} = 1 .. k - 1
          <6> HIDE DEF W, pick, step, base, Body, Solved, K
          <6> QED
            BY <5>1, <5>2, LastOfInterval
        <5>4. k >= 1
          BY <5>1, <5>2
        <5> QED
          BY <2>4, <5>3, <5>4
      <4> HIDE DEF pick
      <4> QED
        BY <4>1, <4>2
    <3>2. k \in 1 .. m /\ k - 1 \in 0 .. m
      BY <1>2, <3>1
    <3>3. Packed(G, f, k - 1, p)
      BY <2>1, <3>1, <3>2
    <3> HIDE DEF pick
    <3> QED
      BY <1>1, <2>1, <3>1, <3>2, <3>3, PackGroupPacks DEF m
  <2> HIDE DEF pick
  <2> QED
    BY <2>3, <2>4
<1>6. \A N \in SUBSET D : N # {} => step[N] \in [W[N \ {pick[N]}] -> W[N]]
  <2> HIDE DEF W, pick
  <2> QED
    BY <1>5
<1>7. base \in W[{}]
  <2>1. base \in Packings(G)
    BY DEF Packings
  <2>2. \A k \in 0 .. m : {} = 1 .. k => k = 0
    BY <1>2
  <2> QED
    BY <2>1, <2>2 DEF Packed
<1>8. Recursion(D, W, base, pick, step)
  <2> HIDE DEF W, pick, step, base
  <2> QED
    BY <1>3, <1>4, <1>6, <1>7 DEF Recursion
<1>9. PICK g : Solves(g, D, W, base, pick, step)
  <2> HIDE DEF W, pick, step, base
  <2> QED
    BY <1>8, SubsetRecursion
<1>10. Solved(g)
  <2>1. \A N \in SUBSET D : N # {} => g[N] = PackGroup(G, g[N \ {pick[N]}], f[pick[N]])
    <3> HIDE DEF W, pick, base
    <3> QED
      BY <1>4, <1>9 DEF Solves
  <2>2. g[{}] = base /\ g = [N \in SUBSET D |-> g[N]]
    BY <1>9 DEF Solves
  <2>3. \A N \in SUBSET D : pick[N] = Max(N)
    OBVIOUS
  <2> HIDE DEF pick, base
  <2>4. \A N \in SUBSET D : g[N] = Body(g, N)
    BY <2>1, <2>2, <2>3
  <2> HIDE DEF Body
  <2> QED
    BY <2>2, <2>4
<1>11. Solved(K)
  <2> HIDE DEF Solved
  <2> QED
    BY <1>10
<1>12. PackComponent(G, S) = Append(K[D].units, K[D].current)
  BY DEF PackComponent, FoldLeft, MapThenFoldSet, f, D
<1>13. ASSUME NEW N \in SUBSET D PROVE K[N] = Body(K, N)
  <2> HIDE DEF K, Body
  <2> QED
    BY <1>11
<1> HIDE DEF K
<1>14. \A N \in SUBSET D : K[N] \in W[N]
  <2>1. K[{}] = base
    BY <1>13
  <2>2. \A N \in SUBSET D : N # {} => K[N] = PackGroup(G, K[N \ {pick[N]}], f[pick[N]])
    BY <1>13
  <2>3. \A N \in SUBSET D : N # {} /\ K[N \ {pick[N]}] \in W[N \ {pick[N]}]
           => K[N] = step[N][K[N \ {pick[N]}]]
    <3> HIDE DEF W, pick, base
    <3> QED
      BY <2>2
  <2> HIDE DEF W, pick, step, base
  <2> QED
    BY <1>8, <2>1, <2>3, SubsetInvariant
<1>15. K[D] \in Packings(G) /\ Packed(G, f, m, K[D])
  <2>1. m \in 0 .. m /\ D \in SUBSET D
    BY <1>2
  <2> QED
    BY <1>2, <1>14, <2>1
<1>16. \A n : (\E i \in 1 .. m : n \in f[i]) <=> n \in S
  <2>1. \A n : n \in S <=> \E c \in ComponentsIn(G, S) : n \in c
    BY <1>1 DEF Partition
  <2> QED
    BY <1>1, <2>1 DEF Listing, m
<1>17. m # 0
  <2> SUFFICES ASSUME m = 0 PROVE FALSE
    OBVIOUS
  <2>1. \A i \in 1 .. m : FALSE
    OBVIOUS
  <2> QED
    BY <1>16, <2>1
<1> DEFINE s == Append(K[D].units, K[D].current)
<1>18. /\ Chain(G, s)
       /\ \A n : (\E i \in 1 .. Len(s) : n \in s[i]) <=> (\E i \in 1 .. m : n \in f[i])
  BY <1>15, <1>17 DEF Packed
<1>19. Len(s) > 0
  <2>1. K[D].units \in Seq(SUBSET G.node) /\ K[D].current \in SUBSET G.node
    BY <1>15 DEF Packings
  <2>2. Len(s) = Len(K[D].units) + 1 /\ Len(K[D].units) \in Nat
    BY <2>1, AppendProperties, LenProperties
  <2> HIDE DEF s
  <2> QED
    BY <2>2
<1> HIDE DEF s
<1> QED
  BY <1>12, <1>16, <1>18, <1>19 DEF s

-----------------------------------------------------------------------------
(* The units of a project. *)

(* FlattenSeq of one more sequence puts it behind the others. *)
LEMMA FlattenGrows ==
  ASSUME NEW X, NEW ss \in Seq(Seq(X)), Len(ss) # 0, NEW Good, <<1, ss[1]>> \in Good,
         \A i \in 1 .. Len(ss) - 1 : \A s \in Seq(X) :
           <<i, s>> \in Good => <<i + 1, s \o ss[i + 1]>> \in Good
  PROVE  FlattenSeq(ss) \in Seq(X) /\ <<Len(ss), FlattenSeq(ss)>> \in Good
<1> DEFINE n == Len(ss)
           Body(flatten, i) == IF i = 1 THEN ss[i] ELSE flatten[i - 1] \o ss[i]
           Solved(flatten) == flatten = [i \in 1 .. Len(ss) |-> Body(flatten, i)]
           K == CHOOSE flatten : Solved(flatten)
           Until(g, k) == g = [i \in 1 .. n |-> g[i]] /\ \A i \in 1 .. k : g[i] = Body(g, i)
           Found == {k \in Nat : k <= n => \E g : Until(g, k)}
<1>1. n \in Nat /\ n # 0 /\ \A i \in 1 .. n : ss[i] \in Seq(X)
  BY LenProperties
<1>2. 0 \in Found
  <2> DEFINE g == [i \in 1 .. n |-> <<>>]
  <2>1. Until(g, 0)
    <3> HIDE DEF Body
    <3> QED
      OBVIOUS
  <2> HIDE DEF Until, g
  <2> QED
    BY <2>1
<1>3. ASSUME NEW k \in Nat, k \in Found PROVE k + 1 \in Found
  <2> SUFFICES ASSUME k + 1 <= n PROVE \E g : Until(g, k + 1)
    <3> HIDE DEF Until
    <3> QED
      OBVIOUS
  <2>1. PICK g : Until(g, k)
    <3> HIDE DEF Until
    <3> QED
      BY <1>1, <1>3
  <2> DEFINE h == [i \in 1 .. n |-> IF i = k + 1 THEN Body(g, i) ELSE g[i]]
  <2> HIDE DEF n
  <2>2. h[k + 1] = Body(g, k + 1)
    <3>1. k + 1 \in 1 .. n
      BY <1>1
    <3> HIDE DEF Body
    <3> QED
      BY <3>1
  <2>3. \A i \in 1 .. k : h[i] = g[i] /\ i # k + 1
    <3>1. \A i \in 1 .. k : i \in 1 .. n /\ i # k + 1
      BY <1>1
    <3> HIDE DEF Body
    <3> QED
      BY <3>1
  <2>4. h = [i \in 1 .. n |-> h[i]]
    <3> HIDE DEF Body
    <3> QED
      OBVIOUS
  <2> HIDE DEF h
  <2>5. ASSUME NEW i \in 1 .. k + 1 PROVE Body(h, i) = Body(g, i)
    <3>1. i = 1 \/ i - 1 \in 1 .. k
      BY <1>1
    <3> QED
      BY <2>3, <3>1
  <2>6. ASSUME NEW i \in 1 .. k + 1 PROVE h[i] = Body(h, i)
    <3>1. i = k + 1 \/ i \in 1 .. k
      BY <1>1
    <3>2. i \in 1 .. k => g[i] = Body(g, i)
      BY <2>1
    <3> HIDE DEF Body
    <3> QED
      BY <2>2, <2>3, <2>5, <3>1, <3>2
  <2>7. Until(h, k + 1)
    <3> HIDE DEF Body
    <3> QED
      BY <2>4, <2>6
  <2> HIDE DEF Until
  <2> QED
    BY <2>7
<1>4. PICK g : Until(g, n)
  <2>1. n \in Found
    <3> HIDE DEF Found
    <3> QED
      BY <1>1, <1>2, <1>3, NatInduct
  <2> HIDE DEF Until
  <2> QED
    BY <1>1, <2>1
<1>5. Solved(g)
  <2> HIDE DEF Body
  <2> QED
    BY <1>4
<1>6. Solved(K)
  <2> HIDE DEF Solved
  <2> QED
    BY <1>5
<1>7. FlattenSeq(ss) = K[n]
  BY <1>1 DEF FlattenSeq
<1>8. \A i \in 1 .. n : K[i] = Body(K, i)
  <2> HIDE DEF K, Body
  <2> QED
    BY <1>6
<1> HIDE DEF K, n
<1> DEFINE Fine == {k \in Nat : k \in 1 .. n => K[k] \in Seq(X) /\ <<k, K[k]>> \in Good}
<1>9. 0 \in Fine
  OBVIOUS
<1>10. ASSUME NEW k \in Nat, k \in Fine PROVE k + 1 \in Fine
  <2> SUFFICES ASSUME k + 1 \in 1 .. n PROVE K[k + 1] \in Seq(X) /\ <<k + 1, K[k + 1]>> \in Good
    OBVIOUS
  <2>1. CASE k = 0
    <3>1. k + 1 = 1
      BY <2>1
    <3>2. K[1] = ss[1]
      <4>1. 1 \in 1 .. n
        BY <1>1
      <4> QED
        BY <1>8, <4>1
    <3> QED
      BY <1>1, <3>1, <3>2
  <2>2. CASE k # 0
    <3>1. k \in 1 .. n /\ k \in 1 .. n - 1 /\ k + 1 # 1 /\ k + 1 - 1 = k
      BY <1>1, <2>2
    <3>2. K[k + 1] = K[k] \o ss[k + 1]
      <4> DEFINE j == k + 1
      <4>1. j \in 1 .. n /\ j # 1 /\ j - 1 = k
        BY <3>1
      <4> HIDE DEF j
      <4>2. K[j] = K[j - 1] \o ss[j]
        BY <1>8, <4>1
      <4> QED
        BY <4>1, <4>2 DEF j
    <3>3. K[k] \in Seq(X) /\ <<k, K[k]>> \in Good /\ ss[k + 1] \in Seq(X)
      BY <1>1, <1>10, <3>1
    <3>4. K[k] \o ss[k + 1] \in Seq(X)
      BY <3>3, ConcatProperties
    <3> QED
      BY <3>1, <3>2, <3>3, <3>4 DEF n
  <2> QED
    BY <2>1, <2>2
<1>11. n \in Fine
  <2> HIDE DEF Fine
  <2> QED
    BY <1>1, <1>9, <1>10, NatInduct
<1>12. n \in 1 .. n
  BY <1>1
<1> QED
  BY <1>7, <1>11, <1>12 DEF n

(* Units of several weak components, one after the other: a unit is closed *)
(* by the next one, or is the last of its weak component. *)
Fresh(G, u, v) == \E c \in WeakComponents(G) : u \subseteq c /\ v \cap c = {}
Train(G, s, T) ==
  /\ s \in Seq(SUBSET G.node) /\ Len(s) \in Nat /\ Len(s) > 0
  /\ \A n : (\E i \in 1 .. Len(s) : n \in s[i]) <=> n \in T
  /\ \A i \in 1 .. Len(s) : FitsPrompt(G, s[i]) /\ s[i] # {} /\ \E c \in WeakComponents(G) : s[i] \subseteq c
  /\ \A i, j \in 1 .. Len(s) : j < i => Apart(G, s[j], s[i])
  /\ \A i, j \in 1 .. Len(s) : j = i + 1 => ClosedBy(G, s[i], s[j]) \/ Fresh(G, s[i], s[j])

(* The units of one weak component are a train. *)
LEMMA ChainIsTrain ==
  ASSUME NEW G, NEW s, Chain(G, s), Len(s) > 0, NEW w \in WeakComponents(G),
         \A n : (\E i \in 1 .. Len(s) : n \in s[i]) <=> n \in w
  PROVE  Train(G, s, w)
<1>1. \A i \in 1 .. Len(s) : s[i] \subseteq w
  OBVIOUS
<1> QED
  BY <1>1 DEF Chain, Train

(* The units of two weak components make one train: no call leads from one *)
(* to the other. *)
LEMMA TrainsCouple ==
  ASSUME NEW G, IsGraph(G), NEW s, NEW T, NEW t, NEW w \in WeakComponents(G),
         Train(G, s, T), Train(G, t, w), T \cap w = {},
         \A c \in WeakComponents(G) : c \cap T # {} => c \subseteq T
  PROVE  Train(G, s \o t, T \cup w)
<1> DEFINE r == s \o t
           m == Len(s)
<1>1. m \in Nat /\ Len(t) \in Nat /\ m > 0 /\ Len(t) > 0
  BY DEF Train
<1>2. /\ r \in Seq(SUBSET G.node) /\ Len(r) = m + Len(t)
      /\ \A i \in 1 .. m + Len(t) : r[i] = IF i <= m THEN s[i] ELSE t[i - m]
  BY ConcatProperties DEF Train
<1> HIDE DEF r, m
<1>3. /\ \A i \in 1 .. Len(r) : \/ i \in 1 .. m /\ r[i] = s[i]
                                \/ i > m /\ i - m \in 1 .. Len(t) /\ r[i] = t[i - m]
      /\ \A i \in 1 .. m : i \in 1 .. Len(r) /\ r[i] = s[i]
      /\ \A i \in 1 .. Len(t) : i + m \in 1 .. Len(r) /\ r[i + m] = t[i]
  BY <1>1, <1>2
<1>4. \A i \in 1 .. m : s[i] \subseteq T
  BY DEF Train, m
<1>5. \A i \in 1 .. Len(t) : t[i] \subseteq w
  BY DEF Train
<1>6. \A n : (\E i \in 1 .. Len(r) : n \in r[i]) <=> n \in T \cup w
  <2>1. \A n : n \in T => \E i \in 1 .. m : n \in s[i]
    BY DEF Train, m
  <2>2. \A n : n \in w => \E i \in 1 .. Len(t) : n \in t[i]
    BY DEF Train
  <2> QED
    BY <1>3, <1>4, <1>5, <2>1, <2>2
<1>7. \A i \in 1 .. Len(r) : FitsPrompt(G, r[i]) /\ r[i] # {} /\ \E c \in WeakComponents(G) : r[i] \subseteq c
  <2>1. /\ \A i \in 1 .. m : FitsPrompt(G, s[i]) /\ s[i] # {} /\ \E c \in WeakComponents(G) : s[i] \subseteq c
        /\ \A i \in 1 .. Len(t) : FitsPrompt(G, t[i]) /\ t[i] # {} /\ \E c \in WeakComponents(G) : t[i] \subseteq c
    BY DEF Train, m
  <2> QED
    BY <1>3, <2>1
<1>8. ASSUME NEW i \in 1 .. Len(r), NEW j \in 1 .. Len(r), j < i PROVE Apart(G, r[j], r[i])
  <2>1. CASE i \in 1 .. m
    <3>1. j \in 1 .. m
      BY <1>1, <1>2, <1>8, <2>1
    <3> QED
      BY <1>3, <1>8, <2>1, <3>1 DEF Train, m
  <2>2. CASE i > m /\ i - m \in 1 .. Len(t) /\ r[i] = t[i - m] /\ j > m
    <3>1. j - m \in 1 .. Len(t) /\ r[j] = t[j - m] /\ j - m < i - m
      BY <1>1, <1>2, <1>8, <2>2
    <3> QED
      BY <2>2, <3>1 DEF Train
  <2>3. CASE i > m /\ i - m \in 1 .. Len(t) /\ r[i] = t[i - m] /\ j \in 1 .. m
    <3>1. r[i] \subseteq w /\ r[j] \subseteq T
      BY <1>3, <1>4, <1>5, <2>3
    <3>2. \A a \in w, b \in T : <<a, b>> \notin Reaches(G)
      BY WeakPartition
    <3> QED
      BY <3>1, <3>2 DEF Apart
  <2> QED
    BY <1>1, <1>2, <1>3, <2>1, <2>2, <2>3
<1>9. ASSUME NEW i \in 1 .. Len(r), NEW j \in 1 .. Len(r), j = i + 1
      PROVE  ClosedBy(G, r[i], r[j]) \/ Fresh(G, r[i], r[j])
  <2>1. CASE j \in 1 .. m
    <3>1. i \in 1 .. m
      BY <1>1, <1>2, <1>9, <2>1
    <3> QED
      BY <1>3, <1>9, <2>1, <3>1 DEF Train, m
  <2>2. CASE i > m
    <3>1. /\ i - m \in 1 .. Len(t) /\ r[i] = t[i - m] /\ j - m \in 1 .. Len(t) /\ r[j] = t[j - m]
          /\ j - m = i - m + 1
      BY <1>1, <1>2, <1>9, <2>2
    <3> QED
      BY <3>1 DEF Train
  <2>3. CASE i = m
    <3>1. i \in 1 .. m /\ r[i] = s[i] /\ j - m \in 1 .. Len(t) /\ r[j] = t[j - m]
      BY <1>1, <1>2, <1>9, <2>3
    <3>2. PICK c \in WeakComponents(G) : s[i] \subseteq c
      BY <3>1 DEF Train, m
    <3>3. s[i] # {} /\ s[i] \subseteq T
      BY <1>4, <3>1 DEF Train, m
    <3>4. c \cap w = {}
      BY <3>2, <3>3
    <3> QED
      BY <1>5, <3>1, <3>2, <3>4 DEF Fresh
  <2> QED
    BY <1>1, <1>2, <1>3, <1>9, <2>1, <2>2, <2>3
<1>10. Train(G, r, T \cup w)
  BY <1>1, <1>2, <1>6, <1>7, <1>8, <1>9 DEF Train
<1> QED
  BY <1>10 DEF r

(* The units of a project are a train that holds every symbol. *)
LEMMA BuildUnitsIsTrain ==
  ASSUME NEW G, Counted(G), ~TooLarge(G), G.node # {}
  PROVE  Train(G, BuildUnits(G), G.node)
<1> DEFINE b == ByLeast(WeakComponents(G))
           ss == [i \in DOMAIN b |-> PackComponent(G, b[i])]
           X == SUBSET G.node
           n == Len(b)
           Upon(i) == UNION {b[l] : l \in 1 .. i}
           Good == {p \in (1 .. n) \X Seq(X) : Train(G, p[2], Upon(p[1]))}
<1>1. OfSymbols(G) /\ IsGraph(G) /\ IsFiniteSet(G.node) /\ G.node \subseteq Nat
  BY DEF Counted, OfSymbols, IsGraph
<1>2. Partition(WeakComponents(G), G.node)
  BY <1>1, WeakPartition
<1>3. Listing(b, WeakComponents(G))
  BY <1>1, <1>2, ByLeastIsListing
<1>4. BuildUnits(G) = FlattenSeq(ss)
  BY DEF BuildUnits
<1> HIDE DEF b
<1>5. /\ n \in Nat /\ DOMAIN b = 1 .. n /\ n # 0
  <2>1. n \in Nat /\ DOMAIN b = 1 .. n
    BY <1>3 DEF Listing
  <2>2. n # 0
    <3>1. PICK c \in WeakComponents(G) : TRUE
      BY <1>2 DEF Partition
    <3>2. PICK i \in 1 .. n : b[i] = c
      BY <1>3 DEF Listing
    <3> QED
      BY <2>1, <3>2
  <2> QED
    BY <2>1, <2>2
<1>6. \A i \in 1 .. n : b[i] \in WeakComponents(G)
  BY <1>3 DEF Listing
<1> HIDE DEF n
<1>7. ASSUME NEW i \in 1 .. n PROVE ss[i] = PackComponent(G, b[i]) /\ Train(G, ss[i], b[i]) /\ ss[i] \in Seq(X)
  <2>1. ss[i] = PackComponent(G, b[i])
    BY <1>5
  <2>2. Closed(G, b[i]) /\ b[i] # {}
    BY <1>1, <1>2, <1>6, WeakPartition DEF Closed, Partition
  <2>3. /\ Chain(G, ss[i]) /\ Len(ss[i]) > 0
        /\ \A k : (\E l \in 1 .. Len(ss[i]) : k \in ss[i][l]) <=> k \in b[i]
    <3> HIDE DEF ss
    <3> QED
      BY <2>1, <2>2, PackComponentPacks
  <2> HIDE DEF ss
  <2>4. Train(G, ss[i], b[i])
    BY <1>6, <2>3, ChainIsTrain
  <2> QED
    BY <2>1, <2>4 DEF Train
<1>8. ss \in Seq(Seq(X)) /\ Len(ss) = n
  <2>1. ss \in [1 .. n -> Seq(X)]
    <3>1. \A i \in 1 .. n : PackComponent(G, b[i]) \in Seq(X)
      BY <1>7
    <3> HIDE DEF X
    <3> QED
      BY <1>5, <3>1
  <2> HIDE DEF ss, X
  <2>2. ss \in Seq(Seq(X))
    BY <1>5, <2>1, SeqDef
  <2> QED
    BY <1>5, <2>1, <2>2, LenProperties
<1> HIDE DEF ss, X
<1>9. <<1, ss[1]>> \in Good
  <2>1. 1 \in 1 .. n
    BY <1>5
  <2>2. Upon(1) = b[1]
    <3>1. \A l \in 1 .. 1 : l = 1
      OBVIOUS
    <3> QED
      BY <3>1
  <2> HIDE DEF Upon
  <2> QED
    BY <1>7, <2>1, <2>2
<1>10. ASSUME NEW i \in 1 .. Len(ss) - 1, NEW s \in Seq(X), <<i, s>> \in Good
       PROVE  <<i + 1, s \o ss[i + 1]>> \in Good
  <2>1. i \in 1 .. n /\ i + 1 \in 1 .. n
    BY <1>5, <1>8
  <2>2. Train(G, s, Upon(i))
    BY <1>10
  <2>3. Upon(i + 1) = Upon(i) \cup b[i + 1]
    <3>1. \A l \in 1 .. i + 1 : l \in 1 .. i \/ l = i + 1
      BY <2>1
    <3>2. i + 1 \in 1 .. i + 1 /\ \A l \in 1 .. i : l \in 1 .. i + 1
      BY <2>1
    <3> QED
      BY <3>1, <3>2
  <2>4. \A l \in 1 .. i : l \in 1 .. n /\ l # i + 1
    BY <1>5, <2>1
  <2>5. Upon(i) \cap b[i + 1] = {}
    <3> SUFFICES ASSUME NEW l \in 1 .. i, b[l] \cap b[i + 1] # {} PROVE FALSE
      OBVIOUS
    <3>1. b[l] = b[i + 1]
      BY <1>2, <1>6, <2>1, <2>4 DEF Partition
    <3> QED
      BY <1>3, <2>1, <2>4, <3>1 DEF Listing, n
  <2>6. \A c \in WeakComponents(G) : c \cap Upon(i) # {} => c \subseteq Upon(i)
    <3> SUFFICES ASSUME NEW c \in WeakComponents(G), NEW l \in 1 .. i, c \cap b[l] # {}
                 PROVE  c \subseteq Upon(i)
      OBVIOUS
    <3>1. c = b[l]
      BY <1>2, <1>6, <2>4 DEF Partition
    <3> QED
      BY <3>1
  <2> HIDE DEF Upon
  <2>7. Train(G, ss[i + 1], b[i + 1]) /\ b[i + 1] \in WeakComponents(G) /\ ss[i + 1] \in Seq(X)
    BY <1>6, <1>7, <2>1
  <2>8. Train(G, s \o ss[i + 1], Upon(i + 1))
    BY <1>1, <2>2, <2>3, <2>5, <2>6, <2>7, TrainsCouple
  <2>9. s \o ss[i + 1] \in Seq(X)
    BY <2>7, ConcatProperties
  <2> QED
    BY <2>1, <2>8, <2>9
<1>11. <<n, FlattenSeq(ss)>> \in Good
  <2> HIDE DEF Good
  <2> QED
    BY <1>5, <1>8, <1>9, <1>10, FlattenGrows
<1>12. Upon(n) = G.node
  <2>1. \A m : m \in G.node <=> \E c \in WeakComponents(G) : m \in c
    BY <1>2 DEF Partition
  <2>2. \A m : m \in G.node <=> \E l \in 1 .. n : m \in b[l]
    BY <1>3, <2>1 DEF Listing, n
  <2> QED
    BY <2>2
<1> HIDE DEF Upon
<1> QED
  BY <1>4, <1>11, <1>12

(* A project without symbols has no units. *)
LEMMA NoUnitsOfNothing ==
  ASSUME NEW G, IsGraph(G), G.node = {}
  PROVE  DOMAIN BuildUnits(G) = {} /\ Len(BuildUnits(G)) = 0
<1> DEFINE b == ByLeast(WeakComponents(G))
           ss == [i \in DOMAIN b |-> PackComponent(G, b[i])]
<1>1. WeakComponents(G) = {}
  BY WeakPartition DEF Partition
<1>2. Partition({}, {}) /\ IsFiniteSet({}) /\ {} \subseteq Nat
  BY FS_EmptySet DEF Partition
<1>3. Listing(b, {})
  BY <1>1, <1>2, ByLeastIsListing
<1>4. BuildUnits(G) = FlattenSeq(ss)
  BY DEF BuildUnits
<1> HIDE DEF b
<1>5. DOMAIN b = {}
  BY <1>3 DEF Listing
<1>6. ss \in Seq({}) /\ Len(ss) = 0
  <2>1. ss \in [1 .. 0 -> {}]
    BY <1>5
  <2> HIDE DEF ss
  <2>2. 0 \in Nat
    OBVIOUS
  <2>3. ss \in Seq({})
    BY <2>1, <2>2, SeqDef
  <2> QED
    BY <2>1, <2>3, LenProperties
<1> HIDE DEF ss
<1>7. FlattenSeq(ss) = ss
  BY <1>6 DEF FlattenSeq
<1> QED
  BY <1>4, <1>5, <1>6, <1>7 DEF ss

-----------------------------------------------------------------------------
(* Halving a unit. *)

(* The square of a gap grows with the gap. *)
LEMMA SquaresGrow ==
  ASSUME NEW a \in Nat, NEW b \in Nat
  PROVE  (a < b => a * a < b * b) /\ (a <= b => a * a <= b * b)
<1>1. ASSUME a < b PROVE a * a < b * b
  <2>1. PICK d \in Nat : b = a + d /\ d > 0
    <3>1. b - a \in Nat /\ b = a + (b - a) /\ b - a > 0
      BY <1>1
    <3> QED
      BY <3>1
  <2>2. b * b = a * a + 2 * (a * d) + d * d
    BY <2>1
  <2>3. a * d >= 0 /\ d * d > 0
    BY <2>1
  <2>4. a * d \in Int /\ d * d \in Int /\ a * a \in Int
    BY <2>1
  <2> QED
    BY <2>2, <2>3, <2>4
<1>2. CASE a = b
  BY <1>2
<1>3. a <= b => a < b \/ a = b
  OBVIOUS
<1>4. a * a \in Int /\ b * b \in Int
  OBVIOUS
<1> QED
  BY <1>1, <1>2, <1>3, <1>4

Begun(f, k) == UNION {f[i] : i \in 1 .. k}

(* The first k components of an order hold more symbols the larger k is. *)
LEMMA SizesGrow ==
  ASSUME NEW f, NEW C, NEW S, Listing(f, C), Partition(C, S), IsFiniteSet(S)
  PROVE  /\ \A k \in 0 .. Len(f) : Size(f, k) \in Nat
         /\ UNION {f[i] : i \in 1 .. Len(f)} = S
         /\ \A k, l \in 1 .. Len(f) : k # l => Begun(f, k) # Begun(f, l)
<1> USE DEF Begun
<1>1. \A i \in 1 .. Len(f) : f[i] # {} /\ f[i] \subseteq S
  BY DEF Listing, Partition
<1>2. Len(f) \in Nat
  BY DEF Listing
<1>3. ASSUME NEW k \in 0 .. Len(f) PROVE Size(f, k) \in Nat
  <2>1. UNION {f[i] : i \in 1 .. k} \in SUBSET S
    BY <1>1, <1>2
  <2> QED
    BY <2>1, FS_Subset, FS_CardinalityType DEF Size
<1>4. UNION {f[i] : i \in 1 .. Len(f)} = S
  <2>1. \A s : s \in S <=> \E c \in C : s \in c
    BY DEF Partition
  <2>2. \A s : s \in S <=> \E i \in 1 .. Len(f) : s \in f[i]
    BY <2>1 DEF Listing
  <2> QED
    BY <2>2
<1>5. ASSUME NEW k \in 1 .. Len(f), NEW l \in 1 .. Len(f), k < l
      PROVE  UNION {f[i] : i \in 1 .. k} # UNION {f[i] : i \in 1 .. l}
  <2>1. PICK s : s \in f[l]
    BY <1>1
  <2>2. s \in UNION {f[i] : i \in 1 .. l}
    BY <1>2, <2>1
  <2>3. ASSUME NEW i \in 1 .. k, s \in f[i] PROVE FALSE
    <3>1. i \in 1 .. Len(f) /\ i # l
      BY <1>2, <1>5
    <3>2. f[i] = f[l]
      BY <2>1, <2>3, <3>1 DEF Listing, Partition
    <3> QED
      BY <3>1, <3>2 DEF Listing
  <2>4. s \notin UNION {f[i] : i \in 1 .. k}
    BY <2>3
  <2> QED
    BY <2>2, <2>4
<1>6. \A k, l \in 1 .. Len(f) : k = l \/ k < l \/ l < k
  BY <1>2
<1> QED
  BY <1>3, <1>4, <1>5, <1>6

(* SplitAt is the first of the cuts nearest to the middle. *)
LEMMA SplitIsNearest ==
  ASSUME NEW f, Len(f) \in Nat, Len(f) >= 2, \A k \in 0 .. Len(f) : Size(f, k) \in Nat
  PROVE  /\ SplitAt(f) \in 1 .. Len(f) - 1
         /\ \A l \in 1 .. Len(f) - 1 :
              \/ Distance(f, SplitAt(f)) < Distance(f, l)
              \/ Distance(f, SplitAt(f)) = Distance(f, l) /\ SplitAt(f) <= l
<1> DEFINE S == 1 .. Len(f) - 1
           R == {p \in S \X S : \/ Distance(f, p[1]) < Distance(f, p[2])
                                \/ Distance(f, p[1]) = Distance(f, p[2]) /\ p[1] < p[2]}
           Best(k) == \A l \in S : \/ Distance(f, k) < Distance(f, l)
                                   \/ Distance(f, k) = Distance(f, l) /\ k <= l
<1>1. \A k \in S : Twice(f, k) \in Int /\ Distance(f, k) \in Nat
  <2>1. \A k \in S : k \in 0 .. Len(f) /\ Size(f, k) \in Nat /\ Size(f, Len(f)) \in Nat
    OBVIOUS
  <2>2. \A k \in S : Twice(f, k) \in Int
    BY <2>1 DEF Twice
  <2> QED
    BY <2>2 DEF Distance
<1>2. IsFiniteSet(S) /\ S # {} /\ S \subseteq Int
  <2>1. 1 \in S /\ S \subseteq Int
    OBVIOUS
  <2> DEFINE b == Len(f) - 1
  <2>2. b \in Int /\ 1 \in Int
    OBVIOUS
  <2> HIDE DEF b
  <2>3. IsFiniteSet(1 .. b)
    BY <2>2, FS_Interval
  <2> QED
    BY <2>1, <2>3 DEF b
<1> HIDE DEF S
<1>3. \A k, l \in S : <<k, l>> \in R <=>
        \/ Distance(f, k) < Distance(f, l)
        \/ Distance(f, k) = Distance(f, l) /\ k < l
  OBVIOUS
<1> HIDE DEF R
<1>4. \A k \in S : <<k, k>> \notin R
  BY <1>1, <1>2, <1>3
<1>5. \A j, k, l \in S : <<j, k>> \in R /\ <<k, l>> \in R => <<j, l>> \in R
  BY <1>1, <1>2, <1>3
<1>6. PICK k \in S : \A l \in S : <<l, k>> \notin R
  BY <1>2, <1>4, <1>5, HasMinimal
<1>7. Best(k)
  <2> SUFFICES ASSUME NEW l \in S
               PROVE  \/ Distance(f, k) < Distance(f, l)
                      \/ Distance(f, k) = Distance(f, l) /\ k <= l
    OBVIOUS
  <2>1. ~(Distance(f, l) < Distance(f, k)) /\ ~(Distance(f, l) = Distance(f, k) /\ l < k)
    BY <1>3, <1>6
  <2>2. Distance(f, k) \in Int /\ Distance(f, l) \in Int /\ k \in Int /\ l \in Int
    BY <1>1, <1>2
  <2> QED
    BY <2>1, <2>2
<1>8. SplitAt(f) = CHOOSE j \in S : Best(j)
  BY DEF SplitAt, S
<1>9. SplitAt(f) \in S /\ Best(SplitAt(f))
  <2> HIDE DEF Best
  <2> QED
    BY <1>7, <1>8
<1> QED
  BY <1>9 DEF S

(* What split_semantic_work_unit promises of the halves of a unit. *)
Halved(G, unit, order, first, second) ==
  /\ first # {} /\ second # {} /\ first \cap second = {}
  /\ unit = first \cup second
  /\ ~\E e \in G.edge : e[1] \in second /\ e[2] \in first
  /\ LET Gap(k) == LET left == Size(order, k) IN
                   (2 * left - Cardinality(unit)) * (2 * left - Cardinality(unit))
         k == CHOOSE n \in 1 .. Len(order) : first = UNION {order[i] : i \in 1 .. n}
     IN  \A n \in 1 .. Len(order) - 1 : Gap(k) <= Gap(n) /\ (n < k => Gap(k) < Gap(n))

(* The halves of a unit are the components before and after that cut. *)
LEMMA SplitHalves ==
  ASSUME NEW G, OfSymbols(G), NEW unit \in SUBSET G.node,
         NEW f, f = TopologicalOrder(Subgraph(G, unit)), ~(Len(f) < 2)
  PROVE  Halved(G, unit, f, UNION {f[i] : i \in 1 .. SplitAt(f)},
                            UNION {f[i] : i \in SplitAt(f) + 1 .. Len(f)})
<1> DEFINE H == Subgraph(G, unit)
           C == StrongComponents(H)
           k == SplitAt(f)
           first == UNION {f[i] : i \in 1 .. k}
           second == UNION {f[i] : i \in k + 1 .. Len(f)}
<1>1. IsGraph(H) /\ OfSymbols(H) /\ H.node = unit /\ IsFiniteSet(unit)
      /\ H.edge = {e \in G.edge : e[1] \in unit /\ e[2] \in unit}
  BY SubgraphIsGraph, FS_Subset DEF OfSymbols, IsGraph
<1>2. Partition(C, unit) /\ Ordered(H, f, C) /\ Listing(f, C)
  BY <1>1, StrongPartition, TopologicalOrderIsOrdered DEF Ordered
<1> HIDE DEF H, C
<1>3. /\ Len(f) \in Nat /\ Len(f) >= 2
      /\ \A i \in 0 .. Len(f) : Size(f, i) \in Nat
      /\ UNION {f[i] : i \in 1 .. Len(f)} = unit
      /\ \A i, j \in 1 .. Len(f) : i # j => Begun(f, i) # Begun(f, j)
  <2>1. Len(f) \in Nat
    BY <1>2 DEF Listing
  <2>2. Len(f) >= 2
    BY <2>1
  <2>3. /\ \A i \in 0 .. Len(f) : Size(f, i) \in Nat
        /\ UNION {f[i] : i \in 1 .. Len(f)} = unit
    BY <1>1, <1>2, SizesGrow
  <2>4. \A i, j \in 1 .. Len(f) : i # j => Begun(f, i) # Begun(f, j)
    BY <1>1, <1>2, SizesGrow
  <2> QED
    BY <2>1, <2>2, <2>3, <2>4
<1>4. /\ k \in 1 .. Len(f) - 1
      /\ \A l \in 1 .. Len(f) - 1 : \/ Distance(f, k) < Distance(f, l)
                                    \/ Distance(f, k) = Distance(f, l) /\ k <= l
  BY <1>3, SplitIsNearest
<1> HIDE DEF k
<1>5. /\ \A i \in 1 .. k : i \in 1 .. Len(f) /\ i < k + 1
      /\ \A i \in k + 1 .. Len(f) : i \in 1 .. Len(f) /\ k < i
      /\ \A i \in 1 .. Len(f) : i \in 1 .. k \/ i \in k + 1 .. Len(f)
      /\ k + 1 \in k + 1 .. Len(f) /\ 1 \in 1 .. k
      /\ \A i \in 1 .. k, j \in k + 1 .. Len(f) : i < j /\ i # j
  BY <1>3, <1>4
<1>6. \A i \in 1 .. Len(f) : f[i] # {} /\ f[i] \in C
  BY <1>2 DEF Listing, Partition
<1>7. first # {} /\ second # {}
  BY <1>5, <1>6
<1>8. first \cap second = {}
  <2> SUFFICES ASSUME NEW i \in 1 .. k, NEW j \in k + 1 .. Len(f), f[i] \cap f[j] # {} PROVE FALSE
    OBVIOUS
  <2>1. f[i] = f[j]
    BY <1>2, <1>5, <1>6 DEF Partition
  <2> QED
    BY <1>2, <1>5, <2>1 DEF Listing
<1>9. unit = first \cup second
  <2>1. \A s : s \in unit <=> \E i \in 1 .. Len(f) : s \in f[i]
    BY <1>3
  <2> QED
    BY <1>5, <2>1
<1>10. ASSUME NEW e \in G.edge, e[1] \in second, e[2] \in first PROVE FALSE
  <2>1. e \in H.edge
    BY <1>1, <1>9, <1>10
  <2>2. PICK i \in 1 .. k : e[2] \in f[i]
    BY <1>10
  <2>3. PICK j \in k + 1 .. Len(f) : e[1] \in f[j]
    BY <1>10
  <2> QED
    BY <1>2, <1>5, <2>1, <2>2, <2>3 DEF Ordered
<1> DEFINE Gap(l) == (2 * Size(f, l) - Cardinality(unit)) * (2 * Size(f, l) - Cardinality(unit))
           j == CHOOSE n \in 1 .. Len(f) : first = UNION {f[i] : i \in 1 .. n}
<1>11. j = k
  <2>1. k \in 1 .. Len(f)
    BY <1>3, <1>4
  <2> QED
    BY <1>3, <2>1 DEF Begun
<1>12. Cardinality(unit) = Size(f, Len(f))
  BY <1>3 DEF Size
<1>13. \A l \in 1 .. Len(f) - 1 : Gap(l) = Distance(f, l) * Distance(f, l) /\ Distance(f, l) \in Nat
  <2> SUFFICES ASSUME NEW l \in 1 .. Len(f) - 1
               PROVE  Gap(l) = Distance(f, l) * Distance(f, l) /\ Distance(f, l) \in Nat
    OBVIOUS
  <2>1. Size(f, l) \in Nat /\ Size(f, Len(f)) \in Nat
    BY <1>3
  <2>2. Twice(f, l) = 2 * Size(f, l) - Cardinality(unit) /\ Twice(f, l) \in Int
    BY <1>12, <2>1 DEF Twice
  <2>3. Gap(l) = Twice(f, l) * Twice(f, l)
    BY <2>2
  <2>4. \A x \in Int : x * x = (-x) * (-x)
    OBVIOUS
  <2>5. Distance(f, l) = Twice(f, l) \/ Distance(f, l) = -Twice(f, l)
    BY DEF Distance
  <2>6. Distance(f, l) \in Nat
    BY <2>2 DEF Distance
  <2> HIDE DEF Gap
  <2> QED
    BY <2>2, <2>3, <2>4, <2>5, <2>6
<1>14. ASSUME NEW n \in 1 .. Len(f) - 1 PROVE Gap(k) <= Gap(n) /\ (n < k => Gap(k) < Gap(n))
  <2> DEFINE a == Distance(f, k)
             b == Distance(f, n)
  <2>1. a \in Nat /\ b \in Nat /\ Gap(k) = a * a /\ Gap(n) = b * b
    BY <1>4, <1>13
  <2>2. a < b \/ (a = b /\ k <= n)
    BY <1>4
  <2> HIDE DEF a, b, Gap
  <2>3. a <= b /\ (n < k => a < b)
    BY <1>3, <1>4, <2>1, <2>2
  <2> QED
    BY <2>1, <2>3, SquaresGrow
<1> HIDE DEF first, second
<1>15. \A n \in 1 .. Len(f) - 1 : Gap(j) <= Gap(n) /\ (n < j => Gap(j) < Gap(n))
  <2> HIDE DEF Gap, j
  <2> QED
    BY <1>11, <1>14
<1>16. Halved(G, unit, f, first, second)
  BY <1>7, <1>8, <1>9, <1>10, <1>15 DEF Halved
<1> QED
  BY <1>16 DEF first, second, k

-----------------------------------------------------------------------------
(* The pipeline. *)

(* Symbols are places of the sorted names, finitely many, and have *)
(* sources. *)
LEMMA SymbolsArePlaces ==
  /\ Symbols \subseteq DOMAIN Order /\ DOMAIN Order \subseteq Nat \ {0} /\ IsFiniteSet(Symbols)
  /\ \A s \in Symbols : Tokens[s] \in Nat
<1> DEFINE X == UNION {{Definition(Files[f], i) : i \in DOMAIN Files[f].functions} : f \in DOMAIN Files}
           ss == [f \in DOMAIN Files |-> [i \in DOMAIN Files[f].functions |-> Definition(Files[f], i)]]
           Good == Nat \X Seq(X)
<1>1. Len(Order) \in Nat /\ DOMAIN Order = 1 .. Len(Order)
  BY OrderAssumption, LenProperties
<1>2. Len(Files) \in Nat /\ DOMAIN Files = 1 .. Len(Files)
  BY FilesAssumption, LenProperties
<1>3. ASSUME NEW f \in DOMAIN Files
      PROVE  /\ Len(Files[f].functions) \in Nat
             /\ DOMAIN Files[f].functions = 1 .. Len(Files[f].functions)
  BY FilesAssumption, LenProperties
<1>4. ASSUME NEW d \in X PROVE d.symbol \in DOMAIN Order
  <2> PICK f \in DOMAIN Files : d \in {Definition(Files[f], i) : i \in DOMAIN Files[f].functions}
    BY <1>4
  <2>1. PICK i \in DOMAIN Files[f].functions : d = Definition(Files[f], i)
    OBVIOUS
  <2>2. \E k \in DOMAIN Order : Order[k] = QualifiedName(Files[f], i)
    BY OrderAssumption DEF Range
  <2>3. d.symbol = CHOOSE k \in DOMAIN Order : Order[k] = QualifiedName(Files[f], i)
    BY <2>1 DEF Definition
  <2> QED
    BY <2>2, <2>3
<1>5. ASSUME NEW f \in DOMAIN Files PROVE ss[f] \in Seq(X)
  <2>1. ss[f] \in [1 .. Len(Files[f].functions) -> X]
    <3>1. \A i \in DOMAIN Files[f].functions : Definition(Files[f], i) \in X
      OBVIOUS
    <3> HIDE DEF X
    <3> QED
      BY <1>3, <3>1
  <2> HIDE DEF X, ss
  <2> QED
    BY <1>3, <2>1, SeqDef
<1>6. ss \in Seq(Seq(X)) /\ Len(ss) = Len(Files) /\ DOMAIN ss = 1 .. Len(Files)
  <2>1. ss \in [1 .. Len(Files) -> Seq(X)]
    <3> DEFINE Of(f) == [i \in DOMAIN Files[f].functions |-> Definition(Files[f], i)]
    <3>1. \A f \in DOMAIN Files : Of(f) \in Seq(X)
      BY <1>5
    <3> HIDE DEF X, Of
    <3>2. [f \in DOMAIN Files |-> Of(f)] \in [1 .. Len(Files) -> Seq(X)]
      BY <1>2, <3>1
    <3> QED
      BY <3>2 DEF Of
  <2> HIDE DEF ss, X
  <2>2. ss \in Seq(Seq(X))
    BY <1>2, <2>1, SeqDef
  <2> QED
    BY <1>2, <2>1, <2>2, LenProperties
<1>7. Definitions = FlattenSeq(ss)
  BY DEF Definitions
<1> HIDE DEF ss, X
<1>8. \A d \in DOMAIN Definitions : Definitions[d] \in X
  <2>1. CASE Len(ss) = 0
    <3>1. FlattenSeq(ss) = ss
      BY <2>1 DEF FlattenSeq
    <3> QED
      BY <1>6, <1>7, <2>1, <3>1
  <2>2. CASE Len(ss) # 0
    <3>1. 1 \in 1 .. Len(ss) /\ ss[1] \in Seq(X)
      BY <1>2, <1>6, <2>2, LenProperties
    <3>2. <<1, ss[1]>> \in Good
      BY <3>1
    <3>3. ASSUME NEW i \in 1 .. Len(ss) - 1, NEW s \in Seq(X), <<i, s>> \in Good
          PROVE  <<i + 1, s \o ss[i + 1]>> \in Good
      <4>1. i + 1 \in Nat /\ ss[i + 1] \in Seq(X)
        <5>1. i + 1 \in 1 .. Len(ss)
          BY <1>2, <1>6
        <5> QED
          BY <1>6, <5>1, LenProperties
      <4> QED
        BY <4>1, ConcatProperties
    <3>4. FlattenSeq(ss) \in Seq(X)
      <4> HIDE DEF Good
      <4> QED
        BY <1>6, <2>2, <3>2, <3>3, FlattenGrows
    <3> QED
      BY <1>7, <3>4, LenProperties, ElementOfSeq
  <2> QED
    BY <2>1, <2>2
<1>9. Symbols \subseteq DOMAIN Order
  BY <1>4, <1>8 DEF Symbols, Kept
<1>10. IsFiniteSet(Symbols)
  <2>1. IsFiniteSet(DOMAIN Order)
    BY <1>1, FS_Interval
  <2> QED
    BY <1>9, <2>1, FS_Subset
<1> QED
  BY <1>1, <1>9, <1>10, TokensAssumption

(* What every stage holds is what its step makes of the call graph. *)
Made ==
  /\ stage \in {"parsed", "analyzed", "prepared", "too_large", "split", "planned", "packed"}
  /\ stage # "parsed" => analysis = Analyzed
  /\ IF stage \in {"prepared", "split"}
     THEN units = BuildUnits(CallsGraph) /\ ~TooLarge(CallsGraph)
     ELSE units = <<>>
  /\ stage = "split" =>
       \E i \in DOMAIN units : halves = <<units[i]>> \o SplitUnit(CallsGraph, units[i])
  /\ plan = IF stage \in {"planned", "packed"} THEN PlanUnits(CallsGraph, analysis.entries)
            ELSE <<>>
  /\ stage = "packed" =>
       chunks = [i \in DOMAIN plan |-> PackChunks(CallsGraph, plan[i], ModuleOf)]

(* Each artifact is what its step computes from the ones before it. *)
LEMMA SpecMakes == Spec => []Made
<1>1. Init => Made
  BY DEF Init, Made
<1>2. Made /\ [Next]_vars => Made'
  <2> SUFFICES ASSUME Made, [Next]_vars PROVE Made'
    OBVIOUS
  <2> DEFINE G == CallsGraph
  <2>1. calls' = calls /\ configured' = configured => Analyzed' = Analyzed
    BY DEF Analyzed, EdgesOf, CallsOf, Unresolved, EntryPoints
  <2>2. analysis' = analysis => CallsGraph' = CallsGraph
    BY DEF CallsGraph
  <2>3. CASE Analyze
    BY <2>1, <2>3 DEF Analyze, Made
  <2>4. CASE Prepare
    BY <2>1, <2>2, <2>4 DEF Prepare, Made
  <2>5. CASE PrepareRaises
    BY <2>1, <2>2, <2>5 DEF PrepareRaises, Made
  <2>6. CASE Split
    BY <2>1, <2>2, <2>6 DEF Split, Made
  <2>7. CASE MakePlan
    BY <2>1, <2>2, <2>7 DEF MakePlan, Made
  <2>8. CASE Pack
    BY <2>1, <2>2, <2>8 DEF Pack, Made
  <2>9. CASE UNCHANGED vars
    BY <2>1, <2>2, <2>9 DEF vars, Made
  <2> QED
    BY <2>3, <2>4, <2>5, <2>6, <2>7, <2>8, <2>9 DEF Next
<1> QED
  BY <1>1, <1>2, PTL DEF Spec

(* A call resolves to symbols of the project, or to none. *)
LEMMA ResolveInside ==
  ASSUME NEW call, NEW s
  PROVE  Resolve(call, s) \subseteq Symbols
BY DEF Resolve, OrElse, Unique, InFile, InScope, Named, Titled

(* The analyzed calls form a graph of symbols with sources. *)
LEMMA CallsAreCounted ==
  ASSUME Made, stage # "parsed"
  PROVE  /\ CallsGraph.node = Symbols /\ CallsGraph.edge = analysis.edges
         /\ Counted(CallsGraph) /\ OfSymbols(CallsGraph) /\ IsGraph(CallsGraph)
<1>1. analysis.symbols = Symbols /\ analysis.edges = UNION {EdgesOf(s) : s \in Symbols}
  BY DEF Made, Analyzed, Graph
<1>2. CallsGraph.node = Symbols /\ CallsGraph.edge = analysis.edges
  BY <1>1 DEF CallsGraph, Graph
<1>3. ASSUME NEW s \in Symbols PROVE EdgesOf(s) \subseteq Symbols \X Symbols
  <2>1. \A call : {s} \X Resolve(call, s) \subseteq Symbols \X Symbols
    BY ResolveInside
  <2> QED
    BY <2>1 DEF EdgesOf
<1>4. analysis.edges \subseteq Symbols \X Symbols
  BY <1>1, <1>3
<1> QED
  BY <1>2, <1>4, SymbolsArePlaces DEF Counted, OfSymbols, IsGraph

-----------------------------------------------------------------------------
(* The semantic units. *)

(* The prepared units are a train of all symbols. *)
LEMMA UnitsMade ==
  ASSUME Made, stage \in {"prepared", "split"}
  PROVE  /\ units = BuildUnits(CallsGraph) /\ ~TooLarge(CallsGraph) /\ Counted(CallsGraph)
         /\ CallsGraph.node = Symbols /\ CallsGraph.edge = analysis.edges
         /\ \/ Symbols = {} /\ DOMAIN units = {} /\ Len(units) = 0
            \/ Train(CallsGraph, units, Symbols) /\ DOMAIN units = 1 .. Len(units)
         /\ \A i \in DOMAIN units : units[i] \subseteq Symbols
<1> DEFINE G == CallsGraph
<1>1. units = BuildUnits(G) /\ ~TooLarge(G)
  BY DEF Made
<1>2. G.node = Symbols /\ G.edge = analysis.edges /\ Counted(G) /\ IsGraph(G)
  BY CallsAreCounted
<1> HIDE DEF G
<1>3. CASE Symbols = {}
  BY <1>1, <1>2, <1>3, NoUnitsOfNothing DEF G
<1>4. CASE Symbols # {}
  <2>1. Train(G, units, Symbols)
    BY <1>1, <1>2, <1>4, BuildUnitsIsTrain
  <2>2. units \in Seq(SUBSET G.node)
    BY <2>1 DEF Train
  <2>3. DOMAIN units = 1 .. Len(units) /\ \A i \in DOMAIN units : units[i] \in SUBSET G.node
    BY <2>2, LenProperties, ElementOfSeq
  <2> QED
    BY <1>1, <1>2, <2>1, <2>3 DEF G
<1> QED
  BY <1>3, <1>4

(* A train of units is sound, and so are the halves of each of its units. *)
LEMMA UnitsMadeAreSound ==
  ASSUME Made
  PROVE  UnitsAreSound
<1> DEFINE G == CallsGraph
<1>1. ASSUME stage = "prepared"
      PROVE  /\ G.node = Symbols /\ G.edge = analysis.edges /\ IsGraph(G)
             /\ \/ Symbols = {} /\ DOMAIN units = {} /\ Len(units) = 0
                \/ Train(G, units, Symbols) /\ DOMAIN units = 1 .. Len(units) /\ Len(units) \in Nat
  BY <1>1, UnitsMade DEF Train, Counted, OfSymbols
<1>2. UnitsFollowCalls
  <2> SUFFICES ASSUME stage = "prepared"
               PROVE  /\ UNION Range(units) = Symbols
                      /\ \A i \in DOMAIN units : \A j \in 1 .. i - 1 :
                           \A s \in units[i], t \in units[j] : s # t /\ <<s, t>> \notin Reaches(G)
    BY DEF UnitsFollowCalls
  <2> HIDE DEF G
  <2>1. CASE Symbols = {} /\ DOMAIN units = {} /\ Len(units) = 0
    BY <2>1 DEF Range
  <2>2. CASE Train(G, units, Symbols) /\ DOMAIN units = 1 .. Len(units) /\ Len(units) \in Nat
    <3>1. UNION Range(units) = Symbols
      BY <2>2 DEF Range, Train
    <3>2. ASSUME NEW i \in DOMAIN units, NEW j \in 1 .. i - 1, NEW s \in units[i], NEW t \in units[j]
          PROVE  s # t /\ <<s, t>> \notin Reaches(G)
      <4>1. j \in 1 .. Len(units) /\ j < i
        BY <2>2
      <4>2. <<s, t>> \notin Reaches(G)
        BY <2>2, <4>1 DEF Train, Apart
      <4>3. s \in Symbols
        BY <2>2 DEF Train
      <4>4. <<s, s>> \in Reaches(G)
        BY <1>1, <4>3, Reaching
      <4> QED
        BY <4>2, <4>4
    <3> QED
      BY <3>1, <3>2
  <2> QED
    BY <1>1, <2>1, <2>2
<1>3. UnitsFit
  <2> SUFFICES ASSUME stage = "prepared", NEW i \in DOMAIN units PROVE FitsPrompt(G, units[i])
    BY DEF UnitsFit, FitsPrompt
  <2> HIDE DEF G
  <2> QED
    BY <1>1 DEF Train
<1>4. UnitsAreFull
  <2> SUFFICES ASSUME stage = "prepared", NEW i \in 1 .. Len(units) - 1
               PROVE  ClosedBy(G, units[i], units[i + 1]) \/ Fresh(G, units[i], units[i + 1])
    <3>1. stage = "prepared" => G.edge = analysis.edges
      BY <1>1
    <3> HIDE DEF G
    <3> QED
      BY <3>1 DEF UnitsAreFull, ClosedBy, Fresh, Exceeds, G
  <2> HIDE DEF G
  <2>1. Train(G, units, Symbols) /\ Len(units) \in Nat
    BY <1>1
  <2>2. i \in 1 .. Len(units) /\ i + 1 \in 1 .. Len(units)
    BY <2>1
  <2> QED
    BY <2>1, <2>2 DEF Train
<1>5. HalvesAreOrdered
  <2> SUFFICES ASSUME stage = "split", Len(halves) = 3
               PROVE  Halved(G, halves[1], TopologicalOrder(Subgraph(G, halves[1])), halves[2], halves[3])
    <3>1. stage = "split" => G.edge = analysis.edges
      BY UnitsMade
    <3> HIDE DEF G
    <3> QED
      BY <3>1 DEF HalvesAreOrdered, Halved, G
  <2>1. PICK i \in DOMAIN units : halves = <<units[i]>> \o SplitUnit(G, units[i])
    BY DEF Made
  <2>2. OfSymbols(G) /\ units[i] \in SUBSET G.node
    BY UnitsMade DEF Counted
  <2> HIDE DEF G
  <2> DEFINE u == units[i]
             f == TopologicalOrder(Subgraph(G, u))
             a == UNION {f[l] : l \in 1 .. SplitAt(f)}
             b == UNION {f[l] : l \in SplitAt(f) + 1 .. Len(f)}
  <2>3. CASE Len(f) < 2
    <3>1. halves = <<u>> \o <<>>
      BY <2>1, <2>3 DEF SplitUnit
    <3>2. Len(halves) = 1
      BY <3>1
    <3> QED
      BY <3>2
  <2>4. CASE ~(Len(f) < 2)
    <3>1. halves = <<u>> \o <<a, b>>
      BY <2>1, <2>4 DEF SplitUnit
    <3> HIDE DEF u, f, a, b
    <3>2. halves[1] = u /\ halves[2] = a /\ halves[3] = b
      BY <3>1
    <3>3. u \in SUBSET G.node /\ f = TopologicalOrder(Subgraph(G, u))
      BY <2>2 DEF u, f
    <3>4. Halved(G, u, f, a, b)
      BY <2>2, <2>4, <3>3, SplitHalves DEF a, b
    <3> QED
      BY <3>2, <3>3, <3>4
  <2> QED
    BY <2>3, <2>4
<1> QED
  BY <1>2, <1>3, <1>4, <1>5 DEF UnitsAreSound

(* In every state of every project the semantic units hold every symbol *)
(* once, fit their prompts, are closed only where the next component did *)
(* not fit, follow the calls, and halve at the cut nearest to the middle: *)
(* SemanticWorkUnitBuilder.build and split_semantic_work_unit. *)
THEOREM UnitsStaySound == Spec => []UnitsAreSound
BY SpecMakes, UnitsMadeAreSound, PTL

-----------------------------------------------------------------------------
(* The migration plan. *)

(* InDegree is zero for exactly the symbols that nothing calls. *)
LEMMA NoCaller ==
  ASSUME NEW G, IsGraph(G), NEW n \in G.node
  PROVE  InDegree(G, n) = 0 <=> ~\E e \in G.edge : e[2] = n
<1> DEFINE P == {m \in G.node : <<m, n>> \in G.edge}
<1>1. InDegree(G, n) = Cardinality(P)
  BY DEF InDegree, Predecessors
<1>2. IsFiniteSet(P)
  <2>1. P \in SUBSET G.node
    OBVIOUS
  <2> HIDE DEF P
  <2> QED
    BY <2>1, FS_Subset DEF IsGraph
<1>3. P = {} <=> ~\E e \in G.edge : e[2] = n
  <2>1. \A e \in G.edge : e = <<e[1], e[2]>> /\ e[1] \in G.node
    BY Reaching
  <2>2. ASSUME NEW e \in G.edge, e[2] = n PROVE e[1] \in P
    BY <2>1, <2>2
  <2>3. ASSUME NEW m \in P PROVE \E e \in G.edge : e[2] = n
    <3>1. <<m, n>>[2] = n
      OBVIOUS
    <3> QED
      BY <3>1
  <2> QED
    BY <2>2, <2>3
<1> HIDE DEF P
<1> QED
  BY <1>1, <1>2, <1>3, FS_EmptySet

(* The unit of every weak component. *)
LEMMA UnitsOfPlan ==
  ASSUME NEW G, OfSymbols(G), NEW entries, NEW p, p = PlanUnits(G, entries)
  PROVE  \E b : /\ Listing(b, WeakComponents(G)) /\ DOMAIN p = 1 .. Len(b)
                /\ \A i \in 1 .. Len(b) :
                     p[i] = [symbols |-> b[i], entries |-> EntriesOf(G, b[i], entries),
                             sccs |-> ComponentsIn(G, b[i])]
<1> DEFINE b == ByLeast(WeakComponents(G))
<1>1. IsFiniteSet(G.node) /\ G.node \subseteq Nat /\ Partition(WeakComponents(G), G.node)
  BY WeakPartition DEF OfSymbols, IsGraph
<1>2. Listing(b, WeakComponents(G))
  BY <1>1, ByLeastIsListing
<1>3. p = [i \in DOMAIN b |-> [symbols |-> b[i], entries |-> EntriesOf(G, b[i], entries),
                               sccs |-> ComponentsIn(G, b[i])]]
  BY DEF PlanUnits, ComponentsIn
<1> HIDE DEF b
<1>4. DOMAIN b = 1 .. Len(b)
  BY <1>2 DEF Listing
<1>5. /\ Listing(b, WeakComponents(G)) /\ DOMAIN p = 1 .. Len(b)
      /\ \A i \in 1 .. Len(b) :
           p[i] = [symbols |-> b[i], entries |-> EntriesOf(G, b[i], entries),
                   sccs |-> ComponentsIn(G, b[i])]
  BY <1>2, <1>3, <1>4
<1> QED
  BY <1>5

(* The units of the plan are the weak components. *)
LEMMA PlanMadeIsClosed ==
  ASSUME Made
  PROVE  PlanIsClosed
<1> DEFINE G == CallsGraph
<1> SUFFICES ASSUME stage = "planned" PROVE PlanIsClosed
  BY DEF PlanIsClosed
<1>1. /\ G.node = Symbols /\ G.edge = analysis.edges /\ OfSymbols(G) /\ IsGraph(G)
      /\ plan = PlanUnits(G, analysis.entries)
  BY CallsAreCounted DEF Made
<1> HIDE DEF G
<1>2. PICK b : /\ Listing(b, WeakComponents(G)) /\ DOMAIN plan = 1 .. Len(b)
               /\ \A i \in 1 .. Len(b) :
                    plan[i] = [symbols |-> b[i], entries |-> EntriesOf(G, b[i], analysis.entries),
                               sccs |-> ComponentsIn(G, b[i])]
  BY <1>1, UnitsOfPlan
<1>3. \A i \in DOMAIN plan : plan[i].symbols = b[i] /\ plan[i].sccs = ComponentsIn(G, b[i])
  BY <1>2
<1>4. Partition(WeakComponents(G), Symbols)
  BY <1>1, WeakPartition
<1>5. \A i \in DOMAIN plan : b[i] \in WeakComponents(G)
  BY <1>2 DEF Listing
<1>6. UNION {plan[i].symbols : i \in DOMAIN plan} = Symbols
  <2>1. \A s : s \in Symbols <=> \E c \in WeakComponents(G) : s \in c
    BY <1>4 DEF Partition
  <2>2. \A s : s \in Symbols <=> \E i \in DOMAIN plan : s \in b[i]
    BY <1>2, <2>1 DEF Listing
  <2>3. \A s : s \in UNION {plan[i].symbols : i \in DOMAIN plan} <=> \E i \in DOMAIN plan : s \in b[i]
    BY <1>3
  <2> QED
    BY <2>2, <2>3
<1>7. ASSUME NEW i \in DOMAIN plan PROVE UNION plan[i].sccs = plan[i].symbols
  <2>1. Closed(G, b[i])
    BY <1>1, <1>4, <1>5, WeakPartition DEF Closed, Partition
  <2>2. Partition(ComponentsIn(G, b[i]), b[i])
    BY <1>1, <2>1, OrderOfWhole
  <2> QED
    BY <1>3, <2>2 DEF Partition
<1>8. ASSUME NEW i \in DOMAIN plan, NEW e \in analysis.edges
      PROVE  e[1] \in plan[i].symbols <=> e[2] \in plan[i].symbols
  BY <1>1, <1>3, <1>5, WeakPartition
<1>9. ASSUME NEW i \in DOMAIN plan, NEW j \in DOMAIN plan \ {i}
      PROVE  plan[i].symbols \cap plan[j].symbols = {}
  <2>1. b[i] # b[j]
    BY <1>2 DEF Listing
  <2> QED
    BY <1>3, <1>4, <1>5, <2>1 DEF Partition
<1> QED
  BY <1>6, <1>7, <1>8, <1>9 DEF PlanIsClosed

(* A unit without an entry is called from inside a cycle throughout. *)
LEMMA PlanMadeHasEntries ==
  ASSUME Made
  PROVE  PlanHasEntries
<1> DEFINE G == CallsGraph
<1> SUFFICES ASSUME stage = "planned", NEW i \in DOMAIN plan, plan[i].entries = {},
                    NEW s \in plan[i].symbols
             PROVE  \E e \in analysis.edges : <<e[2], e[1]>> \in Reaches(G) /\ <<e[1], s>> \in Reaches(G)
  BY DEF PlanHasEntries
<1>1. /\ G.node = Symbols /\ G.edge = analysis.edges /\ OfSymbols(G) /\ IsGraph(G)
      /\ plan = PlanUnits(G, analysis.entries)
  BY CallsAreCounted DEF Made
<1> HIDE DEF G
<1>2. PICK b : /\ Listing(b, WeakComponents(G)) /\ DOMAIN plan = 1 .. Len(b)
               /\ \A j \in 1 .. Len(b) :
                    plan[j] = [symbols |-> b[j], entries |-> EntriesOf(G, b[j], analysis.entries),
                               sccs |-> ComponentsIn(G, b[j])]
  BY <1>1, UnitsOfPlan
<1> DEFINE w == b[i]
           H == Subgraph(G, w)
           T == {r \in G.node : <<r, s>> \in Reaches(G)}
<1>3. w \in WeakComponents(G) /\ s \in w /\ EntriesOf(G, w, analysis.entries) = {}
  BY <1>2 DEF Listing
<1> HIDE DEF w
<1>4. w \in SUBSET G.node
  BY <1>1, <1>3, WeakPartition DEF Partition
<1>5. T # {} /\ T \subseteq w
  <2>1. s \in T
    BY <1>1, <1>3, <1>4, Reaching
  <2>2. \A r \in T : r \in w
    BY <1>1, <1>3, WeakPartition
  <2> QED
    BY <2>1, <2>2
<1>6. PICK r \in T : \A p \in T : <<p, r>> \in Reaches(G) => <<r, p>> \in Reaches(G)
  <2>1. T \in SUBSET G.node
    OBVIOUS
  <2> HIDE DEF T
  <2> QED
    BY <1>1, <1>5, <2>1, TopOf
<1>7. IsGraph(H) /\ H.node = w /\ H.edge = {e \in G.edge : e[1] \in w /\ e[2] \in w}
  BY <1>1, <1>4, SubgraphIsGraph
<1>8. InDegree(H, r) # 0
  <2>1. r \in w
    BY <1>5
  <2>2. {t \in w : InDegree(H, t) = 0} = {}
    BY <1>3 DEF EntriesOf
  <2> HIDE DEF H
  <2> QED
    BY <2>1, <2>2
<1> HIDE DEF H
<1>9. PICK e \in H.edge : e[2] = r
  BY <1>5, <1>7, <1>8, NoCaller
<1>10. e \in G.edge /\ <<e[1], r>> \in Reaches(G) /\ e[1] \in G.node
  BY <1>1, <1>7, <1>9, Reaching
<1>11. <<e[1], s>> \in Reaches(G)
  BY <1>1, <1>10, Reaching
<1>12. <<r, e[1]>> \in Reaches(G)
  BY <1>6, <1>10, <1>11
<1> QED
  BY <1>1, <1>9, <1>10, <1>11, <1>12

-----------------------------------------------------------------------------
(* Orders and graphs of parts. *)

(* A listing read backwards is one. *)
LEMMA ReverseIsListing ==
  ASSUME NEW f, NEW S, Listing(f, S)
  PROVE  Listing(Reverse(f), S)
<1> DEFINE n == Len(f)
           g == Reverse(f)
<1>1. n \in Nat /\ g = [i \in 1 .. n |-> f[(n - i) + 1]]
  BY DEF Listing, Reverse
<1>2. \A i \in 1 .. n : (n - i) + 1 \in 1 .. n
  BY <1>1
<1>3. \A i, j \in 1 .. n : (n - i) + 1 = (n - j) + 1 => i = j
  BY <1>1
<1>4. \A i \in 1 .. n : (n - ((n - i) + 1)) + 1 = i
  BY <1>1
<1> HIDE DEF g, n
<1>5. \A i \in 1 .. n : f[i] \in S
  BY DEF Listing, n
<1>6. g \in [1 .. n -> S]
  BY <1>1, <1>2, <1>5
<1>7. \A i \in 1 .. n : g[i] = f[(n - i) + 1]
  BY <1>1
<1>8. \A i, j \in 1 .. n : g[i] = g[j] => i = j
  <2>1. \A i, j \in 1 .. n : f[i] = f[j] => i = j
    BY DEF Listing, n
  <2> QED
    BY <1>2, <1>3, <1>7, <2>1
<1>9. ASSUME NEW x \in S PROVE \E i \in 1 .. n : g[i] = x
  <2>1. PICK i \in 1 .. n : f[i] = x
    BY DEF Listing, n
  <2>2. (n - i) + 1 \in 1 .. n /\ g[(n - i) + 1] = f[i]
    BY <1>2, <1>4, <1>7
  <2> QED
    BY <2>1, <2>2
<1> QED
  BY <1>1, <1>6, <1>8, <1>9, IsListing DEF g

(* A graph has no cycle through two nodes. *)
LEMMA AcyclicMeans ==
  ASSUME NEW G, IsGraph(G)
  PROVE  IsAcyclic(G) <=>
           \A m, n : <<m, n>> \in Reaches(G) /\ <<n, m>> \in Reaches(G) => m = n
<1> DEFINE R == Reaches(G)
           Class(m) == {n \in G.node : <<m, n>> \in R /\ <<n, m>> \in R}
<1>1. StrongComponents(G) = {Class(m) : m \in G.node}
  BY DEF StrongComponents
<1>2. /\ \A m, n : <<m, n>> \in R => m \in G.node /\ n \in G.node
      /\ \A m \in G.node : <<m, m>> \in R
  BY Reaching
<1>3. ASSUME NEW m \in G.node PROVE IsFiniteSet(Class(m))
  <2>1. Class(m) \in SUBSET G.node
    OBVIOUS
  <2> HIDE DEF Class
  <2> QED
    BY <2>1, FS_Subset DEF IsGraph
<1>4. IsAcyclic(G) <=> \A m \in G.node : Cardinality(Class(m)) = 1
  BY <1>1 DEF IsAcyclic
<1>5. ASSUME IsAcyclic(G), NEW m, NEW n, <<m, n>> \in R, <<n, m>> \in R PROVE m = n
  <2>1. m \in Class(m) /\ n \in Class(m) /\ m \in G.node
    BY <1>2, <1>5
  <2>2. Cardinality(Class(m)) = 1
    BY <1>4, <1>5, <2>1
  <2> HIDE DEF Class
  <2> QED
    BY <1>3, <2>1, <2>2, FS_Singleton
<1>6. ASSUME \A m, n : <<m, n>> \in R /\ <<n, m>> \in R => m = n PROVE IsAcyclic(G)
  <2> SUFFICES ASSUME NEW m \in G.node PROVE Cardinality(Class(m)) = 1
    BY <1>4
  <2>1. Class(m) = {m}
    BY <1>2, <1>6
  <2> QED
    BY <2>1, FS_Singleton
<1> QED
  BY <1>5, <1>6

(* The calls between parts form a graph without loops. *)
LEMMA ContractedIsGraph ==
  ASSUME NEW G, NEW P, IsFiniteSet(P)
  PROVE  /\ IsGraph(Contracted(G, P)) /\ Contracted(G, P).node = P
         /\ \A p, q : <<p, q>> \in Contracted(G, P).edge <=>
              /\ p \in P /\ q \in P /\ p # q
              /\ \E e \in G.edge : e[1] \in p /\ e[2] \in q
<1> DEFINE E == {p \in P \X P : p[1] # p[2] /\ \E e \in G.edge : e[1] \in p[1] /\ e[2] \in p[2]}
<1>1. Contracted(G, P).node = P /\ Contracted(G, P).edge = E
  BY DEF Contracted, Graph
<1>2. E \subseteq P \X P
  OBVIOUS
<1>3. \A p, q : <<p, q>> \in E <=> /\ p \in P /\ q \in P /\ p # q
                                  /\ \E e \in G.edge : e[1] \in p /\ e[2] \in q
  OBVIOUS
<1> HIDE DEF E
<1> QED
  BY <1>1, <1>2, <1>3 DEF IsGraph

(* Symbols of one component reach each other, and only they do. *)
LEMMA MutualIsComponent ==
  ASSUME NEW G, IsGraph(G)
  PROVE  /\ \A c \in StrongComponents(G) : \A s, t \in c : <<s, t>> \in Reaches(G)
         /\ \A c, d \in StrongComponents(G) : \A s \in c, t \in d :
              <<s, t>> \in Reaches(G) /\ <<t, s>> \in Reaches(G) => c = d
<1> DEFINE R == Reaches(G)
           Class(m) == {n \in G.node : <<m, n>> \in R /\ <<n, m>> \in R}
<1>1. StrongComponents(G) = {Class(m) : m \in G.node}
  BY DEF StrongComponents
<1>2. \A l, m, n : <<l, m>> \in R /\ <<m, n>> \in R => <<l, n>> \in R
  BY Reaching
<1>3. ASSUME NEW c \in StrongComponents(G), NEW s \in c, NEW t \in c PROVE <<s, t>> \in R
  <2>1. PICK m \in G.node : c = Class(m)
    BY <1>1
  <2>2. <<s, m>> \in R /\ <<m, t>> \in R
    BY <2>1
  <2> QED
    BY <1>2, <2>2
<1>4. ASSUME NEW c \in StrongComponents(G), NEW d \in StrongComponents(G), NEW s \in c, NEW t \in d,
             <<s, t>> \in R, <<t, s>> \in R
      PROVE  c = d
  <2>1. PICK m \in G.node : c = Class(m)
    BY <1>1
  <2>2. /\ <<m, s>> \in R /\ <<s, m>> \in R
    BY <2>1
  <2>3. <<m, t>> \in R /\ <<t, m>> \in R
    BY <1>2, <1>4, <2>2
  <2>4. t \in G.node
    BY <2>3, Reaching
  <2>5. t \in c
    BY <2>1, <2>3, <2>4
  <2> QED
    BY <2>5, StrongPartition DEF Partition
<1> QED
  BY <1>3, <1>4

(* The components of a graph call each other without a cycle. *)
LEMMA ComponentsAreAcyclic ==
  ASSUME NEW G, IsGraph(G)
  PROVE  IsAcyclic(Contracted(G, StrongComponents(G)))
<1> DEFINE C == StrongComponents(G)
           D == Contracted(G, C)
<1>1. IsFiniteSet(C) /\ Partition(C, G.node)
  BY StrongPartition
<1>2. /\ IsGraph(D) /\ D.node = C
      /\ \A p, q : <<p, q>> \in D.edge <=>
           /\ p \in C /\ q \in C /\ p # q
           /\ \E e \in G.edge : e[1] \in p /\ e[2] \in q
  BY <1>1, ContractedIsGraph
<1> HIDE DEF D
<1>3. /\ \A l, m, n : <<l, m>> \in Reaches(G) /\ <<m, n>> \in Reaches(G) => <<l, n>> \in Reaches(G)
      /\ \A e \in G.edge : <<e[1], e[2]>> \in Reaches(G)
  BY Reaching
<1>4. ASSUME NEW c, NEW d, <<c, d>> \in Reaches(D), NEW s \in c
      PROVE  \A t \in d : <<s, t>> \in Reaches(G)
  <2> DEFINE S == {b \in C : \A t \in b : <<s, t>> \in Reaches(G)}
  <2>1. ASSUME NEW e \in D.edge, e[1] \in S PROVE e[2] \in S
    <3>1. e = <<e[1], e[2]>>
      BY <1>2, Reaching
    <3>2. e[1] \in C /\ e[2] \in C /\ \E x \in G.edge : x[1] \in e[1] /\ x[2] \in e[2]
      BY <1>2, <3>1
    <3>3. PICK x \in G.edge : x[1] \in e[1] /\ x[2] \in e[2]
      BY <3>2
    <3>4. <<s, x[1]>> \in Reaches(G) /\ <<x[1], x[2]>> \in Reaches(G)
      BY <1>3, <2>1, <3>3
    <3>5. \A t \in e[2] : <<x[2], t>> \in Reaches(G)
      BY <3>2, <3>3, MutualIsComponent
    <3>6. \A t \in e[2] : <<s, t>> \in Reaches(G)
      BY <1>3, <3>4, <3>5
    <3> QED
      BY <3>2, <3>6
  <2>2. c \in S
    <3>1. c \in C
      BY <1>2, <1>4, Reaching
    <3> QED
      BY <3>1, MutualIsComponent
  <2>3. d \in S
    <3> HIDE DEF S
    <3> QED
      BY <1>2, <1>4, <2>1, <2>2, StaysInside
  <2> QED
    BY <2>3
<1>5. ASSUME NEW c, NEW d, <<c, d>> \in Reaches(D), <<d, c>> \in Reaches(D) PROVE c = d
  <2>1. c \in C /\ d \in C
    BY <1>2, <1>5, Reaching
  <2>2. PICK s \in c : TRUE
    BY <1>1, <2>1 DEF Partition
  <2>3. PICK t \in d : TRUE
    BY <1>1, <2>1 DEF Partition
  <2>4. <<s, t>> \in Reaches(G) /\ <<t, s>> \in Reaches(G)
    BY <1>4, <1>5, <2>2, <2>3
  <2> QED
    BY <2>1, <2>4, MutualIsComponent
<1>6. IsAcyclic(D)
  BY <1>2, <1>5, AcyclicMeans
<1> QED
  BY <1>6 DEF D

-----------------------------------------------------------------------------
(* The component that goes on. *)

(* A rank compares place by place. *)
Ranks == Int \X Int \X Int \X Int
(* What Higher says, place by place. *)
LEMMA HigherMeans ==
  ASSUME NEW p \in Ranks, NEW q \in Ranks
  PROVE  Higher(p, q) <=>
           \/ p[1] > q[1]
           \/ p[1] = q[1] /\ p[2] > q[2]
           \/ p[1] = q[1] /\ p[2] = q[2] /\ p[3] > q[3]
           \/ p[1] = q[1] /\ p[2] = q[2] /\ p[3] = q[3] /\ p[4] > q[4]
<1>1. DOMAIN p = {1, 2, 3, 4}
  BY DEF Ranks
<1>2. /\ 1 .. 1 - 1 = {} /\ 1 .. 2 - 1 = {1} /\ 1 .. 3 - 1 = {1, 2} /\ 1 .. 4 - 1 = {1, 2, 3}
  OBVIOUS
<1> QED
  BY <1>1, <1>2 DEF Higher

(* Higher is a strict order, and decides between any two ranks with *)
(* different names. *)
LEMMA HigherIsOrder ==
  /\ \A p \in Ranks : ~Higher(p, p)
  /\ \A p, q \in Ranks : Higher(p, q) \/ Higher(q, p) \/ p[4] = q[4]
  /\ \A p, q, r \in Ranks : Higher(p, q) /\ Higher(q, r) => Higher(p, r)
<1>0. \A p \in Ranks : p[1] \in Int /\ p[2] \in Int /\ p[3] \in Int /\ p[4] \in Int
  BY DEF Ranks
<1>1. ASSUME NEW p \in Ranks PROVE ~Higher(p, p)
  BY <1>0, HigherMeans
<1>2. ASSUME NEW p \in Ranks, NEW q \in Ranks PROVE Higher(p, q) \/ Higher(q, p) \/ p[4] = q[4]
  BY <1>0, HigherMeans
<1>3. ASSUME NEW p \in Ranks, NEW q \in Ranks, NEW r \in Ranks, Higher(p, q), Higher(q, r)
      PROVE  Higher(p, r)
  <2>1. /\ p[1] \in Int /\ p[2] \in Int /\ p[3] \in Int /\ p[4] \in Int
        /\ q[1] \in Int /\ q[2] \in Int /\ q[3] \in Int /\ q[4] \in Int
        /\ r[1] \in Int /\ r[2] \in Int /\ r[3] \in Int /\ r[4] \in Int
    BY <1>0
  <2>2. \/ p[1] > q[1]
        \/ p[1] = q[1] /\ p[2] > q[2]
        \/ p[1] = q[1] /\ p[2] = q[2] /\ p[3] > q[3]
        \/ p[1] = q[1] /\ p[2] = q[2] /\ p[3] = q[3] /\ p[4] > q[4]
    BY <1>3, HigherMeans
  <2>3. \/ q[1] > r[1]
        \/ q[1] = r[1] /\ q[2] > r[2]
        \/ q[1] = r[1] /\ q[2] = r[2] /\ q[3] > r[3]
        \/ q[1] = r[1] /\ q[2] = r[2] /\ q[3] = r[3] /\ q[4] > r[4]
    BY <1>3, HigherMeans
  <2>4. \/ p[1] > r[1]
        \/ p[1] = r[1] /\ p[2] > r[2]
        \/ p[1] = r[1] /\ p[2] = r[2] /\ p[3] > r[3]
        \/ p[1] = r[1] /\ p[2] = r[2] /\ p[3] = r[3] /\ p[4] > r[4]
    BY <2>1, <2>2, <2>3
  <2> QED
    BY <2>4, HigherMeans
<1> QED
  BY <1>1, <1>2, <1>3

(* Of finitely many ranks with different names one is the highest: max has *)
(* one answer. *)
LEMMA HighestExists ==
  ASSUME NEW S, IsFiniteSet(S), S # {}, NEW R, \A x \in S : R[x] \in Ranks,
         \A x, y \in S : R[x][4] = R[y][4] => x = y
  PROVE  \E c \in S : \A d \in S \ {c} : Higher(R[c], R[d])
<1> DEFINE A == {p \in S \X S : Higher(R[p[1]], R[p[2]])}
<1>1. \A x, y : <<x, y>> \in A <=> x \in S /\ y \in S /\ Higher(R[x], R[y])
  OBVIOUS
<1> HIDE DEF A
<1>2. \A x \in S : <<x, x>> \notin A
  BY <1>1, HigherIsOrder
<1>3. \A x, y, z \in S : <<x, y>> \in A /\ <<y, z>> \in A => <<x, z>> \in A
  BY <1>1, HigherIsOrder
<1>4. PICK c \in S : \A d \in S : <<d, c>> \notin A
  BY <1>2, <1>3, HasMinimal
<1>5. ASSUME NEW d \in S \ {c} PROVE Higher(R[c], R[d])
  <2>1. ~Higher(R[d], R[c])
    BY <1>1, <1>4
  <2>2. R[c][4] # R[d][4]
    OBVIOUS
  <2> QED
    BY <2>1, <2>2, HigherIsOrder
<1> QED
  BY <1>5

(* Finitely many symbols belong to finitely many modules. *)
LEMMA ModulesAreFinite ==
  ASSUME NEW S, IsFiniteSet(S), NEW module
  PROVE  IsFiniteSet(Modules(S, module))
<1> DEFINE f == [s \in S |-> module[s]]
<1>1. f \in Surjection(S, Modules(S, module))
  BY DEF Modules, Surjection
<1> QED
  BY <1>1, FS_Surjection

(* The rank of a component next to a group made of components. *)
LEMMA PriorityIsRank ==
  ASSUME NEW G, OfSymbols(G), NEW order, Listing(order, StrongComponents(G)),
         NEW g \in SUBSET G.node, \E d \in StrongComponents(G) : d \subseteq g,
         NEW c \in StrongComponents(G), NEW module
  PROVE  /\ Priority(G, g, order, c, module) \in Ranks
         /\ Priority(G, g, order, c, module)[4] = Min(c)
<1> DEFINE members == {i \in DOMAIN order : order[i] \subseteq g}
           own == CHOOSE i \in DOMAIN order : order[i] = c
           Calls(a, b) == \E e \in G.edge : e[1] \in a /\ e[2] \in b
           Near(i) == IF i < own THEN own - i ELSE i - own
           M == Modules(c, module) \cap Modules(g, module)
           In == {i \in members : Calls(order[i], c)}
           Out == {i \in members : Calls(c, order[i])}
           Gaps == {Near(i) : i \in members}
           n == Len(order)
<1>1. n \in Nat /\ DOMAIN order = 1 .. n
  BY DEF Listing
<1>2. IsGraph(G) /\ G.node \subseteq Nat /\ Partition(StrongComponents(G), G.node)
  BY StrongPartition DEF OfSymbols
<1>3. IsFiniteSet(members) /\ members \subseteq 1 .. n
  <2>1. members \in SUBSET (1 .. n)
    BY <1>1
  <2>2. IsFiniteSet(1 .. n)
    BY <1>1, FS_Interval
  <2> HIDE DEF members
  <2> QED
    BY <2>1, <2>2, FS_Subset
<1>4. members # {}
  <2>1. PICK d \in StrongComponents(G) : d \subseteq g
    OBVIOUS
  <2>2. PICK i \in 1 .. n : order[i] = d
    BY DEF Listing
  <2> QED
    BY <1>1, <2>1, <2>2
<1>5. own \in 1 .. n
  <2>1. \E i \in DOMAIN order : order[i] = c
    BY <1>1 DEF Listing
  <2>2. own \in DOMAIN order
    BY <2>1
  <2> HIDE DEF own
  <2> QED
    BY <1>1, <2>2
<1>6. Cardinality(M) \in Nat
  <2>1. c \in SUBSET G.node
    BY <1>2 DEF Partition
  <2>2. IsFiniteSet(c)
    BY <1>2, <2>1, FS_Subset DEF IsGraph
  <2>3. IsFiniteSet(Modules(c, module)) /\ M \in SUBSET Modules(c, module)
    BY <2>2, ModulesAreFinite
  <2> HIDE DEF M
  <2> QED
    BY <2>3, FS_Subset, FS_CardinalityType
<1>7. Cardinality(In) \in Nat /\ Cardinality(Out) \in Nat
  <2>1. In \in SUBSET members /\ Out \in SUBSET members
    OBVIOUS
  <2> HIDE DEF In, Out, members
  <2> QED
    BY <1>3, <2>1, FS_Subset, FS_CardinalityType
<1>8. Min(Gaps) \in Int
  <2>1. \A i \in 1 .. n : Near(i) \in 0 .. n
    <3> HIDE DEF own
    <3> QED
      BY <1>1, <1>5
  <2> HIDE DEF own, Near
  <2>2. Gaps \in SUBSET (0 .. n) /\ Gaps # {}
    <3> HIDE DEF members
    <3> QED
      BY <1>3, <1>4, <2>1
  <2> HIDE DEF Gaps
  <2>3. IsFiniteSet(0 .. n)
    BY <1>1, FS_Interval
  <2>4. IsFiniteSet(Gaps)
    BY <2>2, <2>3, FS_Subset
  <2>5. Gaps \in SUBSET Int
    BY <1>1, <2>2
  <2> QED
    BY <2>2, <2>4, <2>5, MinIsLeast
<1>9. Min(c) \in Int
  BY <1>2, LeastOfParts DEF IsGraph
<1> DEFINE r == << Cardinality(M), Cardinality(In) + Cardinality(Out), -Min(Gaps), Min(c) >>
<1>10. Priority(G, g, order, c, module) = r
  BY DEF Priority
<1> HIDE DEF M, In, Out, Gaps, members, own, Near
<1>11. r \in Ranks /\ r[4] = Min(c)
  BY <1>6, <1>7, <1>8, <1>9 DEF Ranks
<1> QED
  BY <1>10, <1>11

-----------------------------------------------------------------------------
(* Packing the chunks of a unit. *)

(* What the packer has made of a graph so far: groups of whole components, *)
(* no symbol in two of them, that fit or are one component, and that can *)
(* be converted one after another together with the rest. *)
Grouped(G, order, module, groups) ==
  /\ groups \in Seq(SUBSET G.node)
  /\ \A i \in 1 .. Len(groups) :
       /\ groups[i] # {}
       /\ \A c \in StrongComponents(G) : c \cap groups[i] # {} => c \subseteq groups[i]
       /\ Fits(groups[i], module) \/ groups[i] \in StrongComponents(G)
  /\ \A i, j \in 1 .. Len(groups) : groups[i] \cap groups[j] # {} => i = j
  /\ IsAcyclic(Contracted(G, Range(groups) \cup Rest(groups, order)))

(* Who is left to pack, and what has been packed. *)
LEMMA RestMeans ==
  ASSUME NEW groups, NEW S, groups \in Seq(S), NEW C, NEW order, Listing(order, C)
  PROVE  /\ Rest(groups, order) \subseteq C
         /\ \A c \in C : c \in Rest(groups, order) <=> \A i \in 1 .. Len(groups) : c \cap groups[i] = {}
         /\ \A x : x \in Range(groups) <=> \E i \in 1 .. Len(groups) : groups[i] = x
<1>1. DOMAIN groups = 1 .. Len(groups) /\ DOMAIN order = 1 .. Len(order)
  BY LenProperties DEF Listing
<1>2. \A x : x \in Range(groups) <=> \E i \in 1 .. Len(groups) : groups[i] = x
  BY <1>1 DEF Range
<1>3. \A x : x \in Range(order) <=> x \in C
  BY <1>1 DEF Range, Listing
<1> QED
  BY <1>2, <1>3 DEF Rest

(* The first component left is one of those left. *)
LEMMA FirstIsLeft ==
  ASSUME NEW order, NEW C, Listing(order, C), NEW rest \in SUBSET C, rest # {}
  PROVE  FirstOf(rest, order) \in rest
<1> DEFINE n == Len(order)
           I == {i \in DOMAIN order : order[i] \in rest}
<1>1. n \in Nat /\ DOMAIN order = 1 .. n
  BY DEF Listing
<1>2. IsFiniteSet(1 .. n)
  BY <1>1, FS_Interval
<1>3. I \in SUBSET (1 .. n)
  BY <1>1
<1>4. I # {}
  BY <1>1 DEF Listing
<1>5. \A i \in I : order[i] \in rest
  OBVIOUS
<1>6. FirstOf(rest, order) = order[Min(I)]
  BY DEF FirstOf
<1> HIDE DEF I
<1>7. IsFiniteSet(I)
  BY <1>2, <1>3, FS_Subset
<1>8. I \in SUBSET Int
  BY <1>1, <1>3
<1> QED
  BY <1>4, <1>5, <1>6, <1>7, <1>8, MinIsLeast

(* A component opens a group of its own. *)
LEMMA GroupOpens ==
  ASSUME NEW G, OfSymbols(G), NEW order, Listing(order, StrongComponents(G)), NEW module,
         NEW groups, Grouped(G, order, module, groups), NEW c \in Rest(groups, order)
  PROVE  /\ Grouped(G, order, module, Append(groups, c))
         /\ Rest(Append(groups, c), order) = Rest(groups, order) \ {c}
<1> DEFINE C == StrongComponents(G)
           n == Len(groups)
           new == Append(groups, c)
<1>1. groups \in Seq(SUBSET G.node) /\ n \in Nat
  BY LenProperties DEF Grouped
<1>2. c \in C /\ c # {} /\ c \in SUBSET G.node /\ Partition(C, G.node)
  BY <1>1, RestMeans, StrongPartition DEF OfSymbols, Partition
<1>3. \A i \in 1 .. n : c \cap groups[i] = {}
  BY <1>1, <1>2, RestMeans
<1>4. /\ new \in Seq(SUBSET G.node) /\ Len(new) = n + 1 /\ new[n + 1] = c
      /\ \A i \in 1 .. n : new[i] = groups[i]
  BY <1>1, <1>2, AppendProperties
<1> HIDE DEF new
<1>5. \A i \in 1 .. Len(new) : i = n + 1 \/ i \in 1 .. n
  BY <1>1, <1>4
<1>6. n + 1 \in 1 .. Len(new) /\ \A i \in 1 .. n : i \in 1 .. Len(new)
  BY <1>1, <1>4
<1>7. Rest(new, order) = Rest(groups, order) \ {c}
  <2>1. ASSUME NEW d \in C PROVE d \in Rest(new, order) <=> d \in Rest(groups, order) /\ d # c
    <3>1. d \in Rest(new, order) <=> \A i \in 1 .. Len(new) : d \cap new[i] = {}
      BY <1>4, RestMeans
    <3>2. d \in Rest(groups, order) <=> \A i \in 1 .. n : d \cap groups[i] = {}
      BY <1>1, RestMeans
    <3>3. d \cap c = {} <=> d # c
      BY <1>2 DEF Partition
    <3> QED
      BY <1>4, <1>5, <1>6, <3>1, <3>2, <3>3
  <2>2. Rest(new, order) \subseteq C /\ Rest(groups, order) \subseteq C
    BY <1>1, <1>4, RestMeans
  <2> QED
    BY <2>1, <2>2
<1>8. Range(new) = Range(groups) \cup {c}
  <2>1. \A x : x \in Range(new) <=> x \in Range(groups) \/ x = c
    <3>1. \A x : x \in Range(new) <=> \E i \in 1 .. Len(new) : new[i] = x
      BY <1>4, RestMeans
    <3>2. \A x : x \in Range(groups) <=> \E i \in 1 .. n : groups[i] = x
      BY <1>1, RestMeans
    <3> QED
      BY <1>4, <1>5, <1>6, <3>1, <3>2
  <2> QED
    BY <2>1
<1>9. Range(new) \cup Rest(new, order) = Range(groups) \cup Rest(groups, order)
  BY <1>7, <1>8
<1>10. ASSUME NEW i \in 1 .. Len(new)
       PROVE  /\ new[i] # {}
              /\ \A d \in C : d \cap new[i] # {} => d \subseteq new[i]
              /\ Fits(new[i], module) \/ new[i] \in C
  <2>1. CASE i = n + 1
    BY <1>2, <1>4, <2>1 DEF Partition
  <2>2. CASE i \in 1 .. n
    BY <1>4, <2>2 DEF Grouped
  <2> QED
    BY <1>5, <2>1, <2>2
<1>11. ASSUME NEW i \in 1 .. Len(new), NEW j \in 1 .. Len(new), new[i] \cap new[j] # {}
       PROVE  i = j
  <2>1. CASE i = n + 1 /\ j = n + 1
    BY <2>1
  <2>2. CASE i = n + 1 /\ j \in 1 .. n
    BY <1>3, <1>4, <1>11, <2>2
  <2>3. CASE i \in 1 .. n /\ j = n + 1
    BY <1>3, <1>4, <1>11, <2>3
  <2>4. CASE i \in 1 .. n /\ j \in 1 .. n
    BY <1>4, <1>11, <2>4 DEF Grouped
  <2> QED
    BY <1>5, <2>1, <2>2, <2>3, <2>4
<1>12. IsAcyclic(Contracted(G, Range(new) \cup Rest(new, order)))
  BY <1>9 DEF Grouped
<1> HIDE DEF C
<1>13. Grouped(G, order, module, new)
  BY <1>4, <1>10, <1>11, <1>12 DEF Grouped, C
<1> QED
  BY <1>7, <1>13 DEF new

(* Front is the sequence without its last element. *)
LEMMA FrontIsPart ==
  ASSUME NEW S, NEW s \in Seq(S), Len(s) # 0
  PROVE  /\ Front(s) \in Seq(S) /\ Len(Front(s)) = Len(s) - 1
         /\ \A i \in 1 .. Len(s) - 1 : Front(s)[i] = s[i]
<1> DEFINE n == Len(s)
           m == n - 1
<1>1. n \in Nat /\ m \in Nat /\ m <= n
  BY LenProperties
<1>2. Front(s) = SubSeq(s, 1, m)
  BY DEF Front
<1> HIDE DEF m
<1>3. \A i \in 1 .. m : s[i] \in S
  <2>1. \A i \in 1 .. m : i \in 1 .. n
    BY <1>1
  <2> QED
    BY <2>1, ElementOfSeq
<1>4. 1 \in Int /\ m \in Int
  BY <1>1
<1>5. /\ SubSeq(s, 1, m) \in Seq(S)
      /\ Len(SubSeq(s, 1, m)) = IF 1 <= m THEN m - 1 + 1 ELSE 0
      /\ \A i \in 1 .. m - 1 + 1 : SubSeq(s, 1, m)[i] = s[1 + i - 1]
  BY <1>3, <1>4, SubSeqProperties
<1>6. Len(Front(s)) = m
  BY <1>1, <1>2, <1>5
<1>7. \A i \in 1 .. m : Front(s)[i] = s[i]
  <2>1. \A i \in 1 .. m : i \in 1 .. m - 1 + 1 /\ 1 + i - 1 = i
    BY <1>1
  <2> QED
    BY <1>2, <1>5, <2>1
<1> QED
  BY <1>2, <1>5, <1>6, <1>7 DEF m

(* A component that fits and may join, joins the last group. *)
LEMMA GroupGrows ==
  ASSUME NEW G, OfSymbols(G), NEW order, Listing(order, StrongComponents(G)), NEW module,
         NEW groups, groups # <<>>, Grouped(G, order, module, groups), NEW c \in Rest(groups, order),
         Fits(Last(groups) \cup c, module), SafeMerge(G, groups, order, c)
  PROVE  /\ Grouped(G, order, module, Append(Front(groups), Last(groups) \cup c))
         /\ Rest(Append(Front(groups), Last(groups) \cup c), order) = Rest(groups, order) \ {c}
<1> DEFINE C == StrongComponents(G)
           n == Len(groups)
           front == Front(groups)
           joined == Last(groups) \cup c
           new == Append(front, joined)
<1>1. groups \in Seq(SUBSET G.node) /\ n \in Nat /\ n # 0
  BY LenProperties, EmptySeq DEF Grouped
<1>2. c \in C /\ c # {} /\ c \in SUBSET G.node /\ Partition(C, G.node)
  BY <1>1, RestMeans, StrongPartition DEF OfSymbols, Partition
<1>3. \A i \in 1 .. n : c \cap groups[i] = {}
  BY <1>1, <1>2, RestMeans
<1>4. /\ front \in Seq(SUBSET G.node) /\ Len(front) = n - 1
      /\ \A i \in 1 .. n - 1 : front[i] = groups[i]
  <2> DEFINE X == SUBSET G.node
  <2>1. groups \in Seq(X) /\ Len(groups) # 0
    BY <1>1
  <2> HIDE DEF X
  <2>2. /\ front \in Seq(X) /\ Len(front) = n - 1
        /\ \A i \in 1 .. n - 1 : front[i] = groups[i]
    BY <2>1, FrontIsPart
  <2> QED
    BY <2>2 DEF X
<1>5. Last(groups) = groups[n] /\ n \in 1 .. n
  BY <1>1 DEF Last
<1>6. joined \in SUBSET G.node
  <2>1. groups[n] \in SUBSET G.node
    BY <1>1, <1>5, ElementOfSeq
  <2> QED
    BY <1>2, <1>5, <2>1
<1> HIDE DEF front
<1>7. /\ new \in Seq(SUBSET G.node) /\ Len(new) = n /\ new[n] = joined
      /\ \A i \in 1 .. n - 1 : new[i] = groups[i]
  <2> DEFINE m == Len(front)
  <2> HIDE DEF joined
  <2>1. /\ new \in Seq(SUBSET G.node) /\ Len(new) = m + 1 /\ new[m + 1] = joined
        /\ \A i \in 1 .. m : new[i] = front[i]
    BY <1>4, <1>6, AppendProperties
  <2>2. m = n - 1 /\ m + 1 = n
    BY <1>1, <1>4
  <2> HIDE DEF new, m
  <2> QED
    BY <1>4, <2>1, <2>2
<1> HIDE DEF new
<1>8. \A i \in 1 .. n : i = n \/ i \in 1 .. n - 1
  BY <1>1
<1>9. \A i \in 1 .. n - 1 : i \in 1 .. n /\ i # n
  BY <1>1
<1>10. joined = groups[n] \cup c
  BY <1>5
<1> HIDE DEF joined
<1>11. Rest(new, order) = Rest(groups, order) \ {c}
  <2>1. ASSUME NEW d \in C PROVE d \in Rest(new, order) <=> d \in Rest(groups, order) /\ d # c
    <3>1. d \in Rest(new, order) <=> \A i \in 1 .. n : d \cap new[i] = {}
      BY <1>7, RestMeans
    <3>2. d \in Rest(groups, order) <=> \A i \in 1 .. n : d \cap groups[i] = {}
      BY <1>1, RestMeans
    <3>3. d \cap c = {} <=> d # c
      BY <1>2 DEF Partition
    <3>4. d \cap joined = {} <=> d \cap groups[n] = {} /\ d \cap c = {}
      BY <1>10
    <3> QED
      BY <1>5, <1>7, <1>8, <1>9, <3>1, <3>2, <3>3, <3>4
  <2>2. Rest(new, order) \subseteq C /\ Rest(groups, order) \subseteq C
    BY <1>1, <1>7, RestMeans
  <2> QED
    BY <2>1, <2>2
<1>12. Range(new) = Range(front) \cup {joined}
  <2>1. \A x : x \in Range(new) <=> x \in Range(front) \/ x = joined
    <3>1. \A x : x \in Range(new) <=> \E i \in 1 .. n : new[i] = x
      BY <1>7, RestMeans
    <3>2. \A x : x \in Range(front) <=> \E i \in 1 .. n - 1 : front[i] = x
      BY <1>4, RestMeans
    <3> QED
      BY <1>4, <1>5, <1>7, <1>8, <1>9, <3>1, <3>2
  <2> QED
    BY <2>1
<1>13. IsAcyclic(Contracted(G, Range(new) \cup Rest(new, order)))
  <2>1. IsAcyclic(Contracted(G, Range(front) \cup {joined} \cup (Rest(groups, order) \ {c})))
    BY DEF SafeMerge, front, joined
  <2>2. Range(new) \cup Rest(new, order) = Range(front) \cup {joined} \cup (Rest(groups, order) \ {c})
    BY <1>11, <1>12
  <2> QED
    BY <2>1, <2>2
<1>14. ASSUME NEW i \in 1 .. n
       PROVE  /\ new[i] # {}
              /\ \A d \in C : d \cap new[i] # {} => d \subseteq new[i]
              /\ Fits(new[i], module) \/ new[i] \in C
  <2>1. CASE i = n
    <3>1. new[i] # {} /\ Fits(new[i], module)
      BY <1>2, <1>7, <1>10, <2>1 DEF joined
    <3>2. ASSUME NEW d \in C, d \cap new[i] # {} PROVE d \subseteq new[i]
      <4>1. d \cap c # {} => d = c
        BY <1>2 DEF Partition
      <4>2. d \cap groups[n] # {} => d \subseteq groups[n]
        BY <1>5 DEF Grouped
      <4>3. d \cap c # {} \/ d \cap groups[n] # {}
        BY <1>7, <1>10, <2>1, <3>2
      <4> QED
        BY <1>7, <1>10, <2>1, <4>1, <4>2, <4>3
    <3> QED
      BY <3>1, <3>2
  <2>2. CASE i \in 1 .. n - 1
    BY <1>7, <2>2 DEF Grouped
  <2> QED
    BY <1>8, <2>1, <2>2
<1>15. ASSUME NEW i \in 1 .. n, NEW j \in 1 .. n, new[i] \cap new[j] # {}
       PROVE  i = j
  <2>0. \A k \in 1 .. n - 1 : new[n] \cap new[k] = {}
    <3> SUFFICES ASSUME NEW k \in 1 .. n - 1 PROVE new[n] \cap new[k] = {}
      OBVIOUS
    <3>1. c \cap groups[k] = {} /\ groups[n] \cap groups[k] = {}
      BY <1>3, <1>5, <1>9 DEF Grouped
    <3> QED
      BY <1>7, <1>10, <3>1
  <2>1. CASE i = n /\ j = n
    BY <2>1
  <2>2. CASE i = n /\ j \in 1 .. n - 1
    BY <1>15, <2>0, <2>2
  <2>3. CASE i \in 1 .. n - 1 /\ j = n
    BY <1>15, <2>0, <2>3
  <2>4. CASE i \in 1 .. n - 1 /\ j \in 1 .. n - 1
    BY <1>7, <1>15, <2>4 DEF Grouped
  <2> QED
    BY <1>8, <2>1, <2>2, <2>3, <2>4
<1> HIDE DEF C
<1>16. Grouped(G, order, module, new)
  BY <1>7, <1>13, <1>14, <1>15 DEF Grouped, C
<1> QED
  BY <1>11, <1>16 DEF new, front, joined

(* One step of the packer takes one of the components left, and keeps the *)
(* groups sound. *)
LEMMA PackOneTakes ==
  ASSUME NEW G, OfSymbols(G), NEW order, Listing(order, StrongComponents(G)), NEW module,
         NEW groups, Grouped(G, order, module, groups), Rest(groups, order) # {}
  PROVE  /\ Grouped(G, order, module, PackOne(G, groups, order, module))
         /\ \E c \in Rest(groups, order) :
              Rest(PackOne(G, groups, order, module), order) = Rest(groups, order) \ {c}
<1> DEFINE rest == Rest(groups, order)
           joining == IF groups = <<>> THEN {}
                      ELSE {c \in rest : /\ Fits(Last(groups) \cup c, module)
                                         /\ SafeMerge(G, groups, order, c)}
           Rank(c) == Priority(G, Last(groups), order, c, module)
           best == CHOOSE c \in joining : \A d \in joining \ {c} : Higher(Rank(c), Rank(d))
           next == PackOne(G, groups, order, module)
<1>0. groups \in Seq(SUBSET G.node)
  BY DEF Grouped
<1>1. rest \subseteq StrongComponents(G)
  BY <1>0, RestMeans
<1>2. next = IF joining = {} THEN Append(groups, FirstOf(rest, order))
             ELSE Append(Front(groups), Last(groups) \cup best)
  BY DEF PackOne
<1>3. CASE joining = {}
  <2>1. next = Append(groups, FirstOf(rest, order)) /\ FirstOf(rest, order) \in rest
    <3> HIDE DEF next, joining
    <3> QED
      BY <1>1, <1>2, <1>3, FirstIsLeft
  <2> HIDE DEF next, joining, best
  <2>2. Grouped(G, order, module, next) /\ Rest(next, order) = rest \ {FirstOf(rest, order)}
    BY <2>1, GroupOpens
  <2>3. Grouped(G, order, module, next) /\ \E c \in rest : Rest(next, order) = rest \ {c}
    BY <2>1, <2>2
  <2> QED
    BY <2>3 DEF next
<1>4. CASE joining # {}
  <2>1. groups # <<>>
    BY <1>4
  <2>2. joining \subseteq rest /\ \A c \in joining : /\ Fits(Last(groups) \cup c, module)
                                                     /\ SafeMerge(G, groups, order, c)
    BY <2>1
  <2> HIDE DEF next, joining, rest
  <2>3. \A c \in joining : Rank(c) \in Ranks /\ Rank(c)[4] = Min(c)
    <3> DEFINE last == Last(groups)
               n == Len(groups)
    <3>1. n \in 1 .. Len(groups) /\ last = groups[n]
      BY <1>0, <2>1, LenProperties, EmptySeq DEF Last
    <3>2. last \in SUBSET G.node /\ last # {}
      BY <1>0, <3>1, ElementOfSeq DEF Grouped
    <3> HIDE DEF last
    <3>3. \E d \in StrongComponents(G) : d \subseteq last
      <4>1. PICK s \in last : s \in G.node
        BY <3>2
      <4>2. PICK d \in StrongComponents(G) : s \in d
        BY <4>1, StrongPartition DEF OfSymbols, Partition
      <4>3. d \cap last # {}
        BY <4>1, <4>2
      <4> QED
        BY <3>1, <4>3 DEF Grouped
    <3>4. ASSUME NEW c \in joining
          PROVE  /\ Priority(G, last, order, c, module) \in Ranks
                 /\ Priority(G, last, order, c, module)[4] = Min(c)
      <4>1. c \in StrongComponents(G)
        BY <1>1, <2>2
      <4> QED
        BY <3>2, <3>3, <4>1, PriorityIsRank
    <3> QED
      BY <3>4 DEF last
  <2> DEFINE R == [c \in joining |-> Rank(c)]
  <2>4. IsFiniteSet(joining)
    <3>1. joining \in SUBSET StrongComponents(G)
      BY <1>1, <2>2
    <3> QED
      BY <3>1, StrongPartition, FS_Subset DEF OfSymbols
  <2>5. \A c, d \in joining : Min(c) = Min(d) => c = d
    <3>1. Partition(StrongComponents(G), G.node) /\ IsFiniteSet(G.node) /\ G.node \subseteq Nat
      BY StrongPartition DEF OfSymbols, IsGraph
    <3>2. \A c, d \in StrongComponents(G) : Min(c) = Min(d) => c = d
      BY <3>1, LeastOfParts
    <3> QED
      BY <1>1, <2>2, <3>2
  <2> HIDE DEF Rank
  <2>6. \E c \in joining : \A d \in joining \ {c} : Higher(Rank(c), Rank(d))
    <3>1. \A c \in joining : R[c] = Rank(c)
      OBVIOUS
    <3>2. (\A c \in joining : R[c] \in Ranks) /\ \A c, d \in joining : R[c][4] = R[d][4] => c = d
      BY <2>3, <2>5, <3>1
    <3> HIDE DEF R
    <3>3. PICK c \in joining : \A d \in joining \ {c} : Higher(R[c], R[d])
      BY <1>4, <2>4, <3>2, HighestExists
    <3> QED
      BY <3>1, <3>3
  <2>7. best \in joining
    BY <2>6
  <2> HIDE DEF best
  <2>8. next = Append(Front(groups), Last(groups) \cup best)
    BY <1>2, <1>4
  <2>9. Grouped(G, order, module, next) /\ Rest(next, order) = rest \ {best}
    <3> DEFINE v == Append(Front(groups), Last(groups) \cup best)
    <3>1. /\ best \in Rest(groups, order) /\ Fits(Last(groups) \cup best, module)
          /\ SafeMerge(G, groups, order, best)
      BY <2>2, <2>7 DEF rest
    <3>2. Grouped(G, order, module, v) /\ Rest(v, order) = Rest(groups, order) \ {best}
      BY <2>1, <3>1, GroupGrows
    <3> QED
      BY <2>8, <3>2 DEF rest
  <2>10. Grouped(G, order, module, next) /\ \E c \in rest : Rest(next, order) = rest \ {c}
    BY <2>2, <2>7, <2>9
  <2> QED
    BY <2>10 DEF next, rest
<1> QED
  BY <1>3, <1>4

(* The groups after k components. *)
GroupsAfter(G, order, module, k) ==
  {g \in Seq(SUBSET G.node) : /\ Grouped(G, order, module, g)
                              /\ Cardinality(Rest(g, order)) = Len(order) - k}

(* With nothing packed, all components are left. *)
LEMMA PackingStarts ==
  ASSUME NEW G, OfSymbols(G), NEW order, Listing(order, StrongComponents(G)), NEW module
  PROVE  <<>> \in GroupsAfter(G, order, module, 0)
<1> DEFINE C == StrongComponents(G)
           e == <<>>
           n == Len(order)
<1>1. e \in Seq(SUBSET G.node) /\ Len(e) = 0 /\ 1 .. Len(e) = {}
  OBVIOUS
<1> HIDE DEF e
<1>2. Rest(e, order) = C /\ Range(e) = {}
  <2> DEFINE X == SUBSET G.node
  <2>1. e \in Seq(X)
    BY <1>1
  <2> HIDE DEF X, C
  <2>2. /\ Rest(e, order) \subseteq C
        /\ \A c \in C : c \in Rest(e, order) <=> \A i \in 1 .. Len(e) : c \cap e[i] = {}
        /\ \A x : x \in Range(e) <=> \E i \in 1 .. Len(e) : e[i] = x
    BY <2>1, RestMeans DEF C
  <2> QED
    BY <1>1, <2>2
<1>4. Grouped(G, order, module, e)
  <2>1. Range(e) \cup Rest(e, order) = C
    BY <1>2
  <2>2. IsAcyclic(Contracted(G, Range(e) \cup Rest(e, order)))
    BY <2>1, ComponentsAreAcyclic DEF OfSymbols
  <2> QED
    BY <1>1, <2>2 DEF Grouped
<1>5. Cardinality(C) = n /\ n \in Nat
  <2>1. n \in Nat
    BY DEF Listing
  <2>2. IsFiniteSet(1 .. n) /\ Cardinality(1 .. n) = n
    BY <2>1, FS_Interval
  <2>3. [i \in 1 .. n |-> order[i]] \in Bijection(1 .. n, C)
    BY DEF Listing, Bijection, Injection, Surjection, IsInjective
  <2>4. ExistsBijection(1 .. n, C)
    BY <2>3 DEF ExistsBijection
  <2> QED
    BY <2>1, <2>2, <2>4, FS_Bijection
<1>6. e \in GroupsAfter(G, order, module, 0)
  BY <1>1, <1>2, <1>4, <1>5 DEF GroupsAfter
<1> QED
  BY <1>6 DEF e

(* After k steps k components are packed. *)
LEMMA PackingGoesOn ==
  ASSUME NEW G, OfSymbols(G), NEW order, Listing(order, StrongComponents(G)), NEW module,
         NEW k \in 1 .. Len(order), NEW g \in GroupsAfter(G, order, module, k - 1)
  PROVE  PackOne(G, g, order, module) \in GroupsAfter(G, order, module, k)
<1> DEFINE rest == Rest(g, order)
           next == PackOne(G, g, order, module)
           n == Len(order)
<1>1. /\ g \in Seq(SUBSET G.node) /\ Grouped(G, order, module, g)
      /\ Cardinality(rest) = n - (k - 1) /\ n \in Nat /\ k \in Nat /\ k <= n
  BY DEF GroupsAfter, Listing
<1>2. rest \subseteq StrongComponents(G)
  BY <1>1, RestMeans
<1>3. IsFiniteSet(rest)
  <2>1. rest \in SUBSET StrongComponents(G)
    BY <1>2
  <2> QED
    BY <2>1, StrongPartition, FS_Subset DEF OfSymbols
<1>4. rest # {}
  <2>1. Cardinality(rest) # 0
    BY <1>1
  <2> QED
    BY <2>1, FS_EmptySet
<1> HIDE DEF next
<1>5. Grouped(G, order, module, next) /\ \E c \in rest : Rest(next, order) = rest \ {c}
  BY <1>1, <1>4, PackOneTakes DEF next
<1>6. PICK c \in rest : Rest(next, order) = rest \ {c}
  BY <1>5
<1> HIDE DEF rest
<1>7. Cardinality(rest \ {c}) = Cardinality(rest) - 1
  BY <1>3, FS_RemoveElement
<1>8. Cardinality(Rest(next, order)) = n - k
  BY <1>1, <1>6, <1>7
<1>9. next \in GroupsAfter(G, order, module, k)
  BY <1>5, <1>8 DEF GroupsAfter, Grouped
<1> QED
  BY <1>9 DEF next

(* The groups of a whole order. *)
PackAll(G, order, module) ==
  FoldLeft(LAMBDA g, c : PackOne(G, g, order, module), <<>>, order)

(* In the end no component is left. *)
LEMMA AllArePacked ==
  ASSUME NEW G, OfSymbols(G), NEW order, Listing(order, StrongComponents(G)), NEW module, NEW groups,
         groups = PackAll(G, order, module)
  PROVE  Grouped(G, order, module, groups) /\ Rest(groups, order) = {}
<1> DEFINE m == Len(order)
           D == DOMAIN order
           A(k) == GroupsAfter(G, order, module, k)
           Body(iter, s) == IF s = {} THEN <<>>
                            ELSE LET x == Max(s)
                                 IN  PackOne(G, iter[s \ {x}], order, module)
           Solved(iter) == iter = [s \in SUBSET D |-> Body(iter, s)]
           K == CHOOSE iter : Solved(iter)
           Until(g, n) == g = [s \in Upto(D, n) |-> Body(g, s)]
           Good == {n \in Nat : \E g : Until(g, n)}
           Sound == {n \in Nat : n <= m => K[1 .. n] \in A(n)}
<1>1. m \in Nat /\ D = 1 .. m
  BY DEF Listing
<1>4. groups = K[D]
  BY DEF PackAll, FoldLeft, MapThenFoldSet
<1> HIDE DEF m, D
<1>2. IsFiniteSet(D)
  BY <1>1, FS_Interval
<1>3. D \in SUBSET Int
  BY <1>1
<1>5. \A s \in SUBSET D : s # {} => Max(s) \in s
  <2> SUFFICES ASSUME NEW N \in SUBSET D, N # {} PROVE Max(N) \in N
    OBVIOUS
  <2>1. IsFiniteSet(N) /\ N \in SUBSET Int
    BY <1>2, <1>3, FS_Subset
  <2> QED
    BY <2>1, MaxIsGreatest
<1>6. /\ \A s \in Upto(D, 0) : s = {}
      /\ \A n \in Nat : Upto(D, n) \subseteq Upto(D, n + 1) /\ Upto(D, n) \subseteq SUBSET D
      /\ \A n \in Nat : \A s \in Upto(D, n + 1) : s # {} => s \ {Max(s)} \in Upto(D, n)
      /\ Upto(D, Cardinality(D)) = SUBSET D
  BY <1>2, <1>5, SmallSubsets
<1>7. 0 \in Good
  <2> DEFINE g == [s \in Upto(D, 0) |-> <<>>]
  <2>1. \A s \in Upto(D, 0) : Body(g, s) = <<>>
    BY <1>6
  <2> HIDE DEF Body
  <2>2. Until(g, 0)
    BY <2>1
  <2> HIDE DEF Until, g
  <2> QED
    BY <2>2
<1>8. ASSUME NEW n \in Nat, n \in Good PROVE n + 1 \in Good
  <2>1. PICK g : Until(g, n)
    BY <1>8
  <2> DEFINE h == [s \in Upto(D, n + 1) |-> Body(g, s)]
  <2>2. \A s \in Upto(D, n) : h[s] = g[s]
    <3> HIDE DEF Body
    <3>1. \A s \in Upto(D, n) : g[s] = Body(g, s)
      BY <2>1
    <3>2. \A s \in Upto(D, n) : s \in Upto(D, n + 1)
      BY <1>6
    <3> QED
      BY <3>1, <3>2
  <2>3. \A s \in Upto(D, n + 1) : Body(h, s) = Body(g, s)
    <3> HIDE DEF h
    <3> QED
      BY <1>6, <2>2
  <2>4. Until(h, n + 1)
    <3> HIDE DEF Body
    <3> QED
      BY <2>3
  <2> HIDE DEF Until, h
  <2> QED
    BY <2>4
<1>9. PICK g : Until(g, Cardinality(D))
  <2> HIDE DEF Until
  <2>1. Cardinality(D) \in Nat
    BY <1>2, FS_CardinalityType
  <2>2. Cardinality(D) \in Good
    <3> HIDE DEF Good
    <3> QED
      BY <1>7, <1>8, <2>1, NatInduct
  <2> QED
    BY <2>2
<1>10. Solved(g)
  <2> HIDE DEF Body
  <2> QED
    BY <1>6, <1>9
<1>11. Solved(K)
  <2> HIDE DEF Solved
  <2> QED
    BY <1>10
<1>12. ASSUME NEW s \in SUBSET D PROVE K[s] = Body(K, s)
  <2> HIDE DEF K, Body
  <2> QED
    BY <1>11
<1> HIDE DEF K, Good, Until, Solved
<1>13. 0 \in Sound
  <2>1. 1 .. 0 = {}
    OBVIOUS
  <2>2. K[{}] = <<>>
    BY <1>12
  <2> QED
    BY <2>1, <2>2, PackingStarts
<1>14. ASSUME NEW n \in Nat, n \in Sound PROVE n + 1 \in Sound
  <2> SUFFICES ASSUME n + 1 <= m PROVE K[1 .. n + 1] \in A(n + 1)
    OBVIOUS
  <2> DEFINE k == n + 1
  <2>1. k \in 1 .. m /\ k \in Nat /\ k # 0 /\ k - 1 = n /\ n <= m
    BY <1>1
  <2> HIDE DEF k
  <2>2. Max(1 .. k) = k /\ (1 .. k) \ {k} = 1 .. n
    BY <2>1, LastOfInterval
  <2>3. 1 .. k \in SUBSET D /\ 1 .. k # {}
    <3>1. k \in 1 .. k /\ \A i \in 1 .. k : i \in 1 .. m
      BY <1>1, <2>1
    <3> QED
      BY <1>1, <3>1
  <2>4. K[1 .. k] = PackOne(G, K[1 .. n], order, module)
    BY <1>12, <2>2, <2>3
  <2>5. K[1 .. n] \in A(k - 1)
    BY <1>14, <2>1
  <2>6. PackOne(G, K[1 .. n], order, module) \in A(k)
    BY <2>1, <2>5, PackingGoesOn DEF m
  <2> QED
    BY <2>4, <2>6 DEF k
<1>15. m \in Sound
  <2> HIDE DEF Sound
  <2> QED
    BY <1>1, <1>13, <1>14, NatInduct
<1>16. groups \in A(m)
  BY <1>1, <1>4, <1>15
<1>17. Grouped(G, order, module, groups) /\ Cardinality(Rest(groups, order)) = 0
  BY <1>1, <1>16 DEF GroupsAfter, m
<1>18. Rest(groups, order) \in SUBSET StrongComponents(G)
  BY <1>17, RestMeans DEF Grouped
<1>19. IsFiniteSet(Rest(groups, order))
  BY <1>18, StrongPartition, FS_Subset DEF OfSymbols
<1> QED
  BY <1>17, <1>19, FS_EmptySet

-----------------------------------------------------------------------------
(* The chunks of a plan. *)

(* The chunks of a unit are groups of its components, and wait along calls. *)
LEMMA ChunksOfUnit ==
  ASSUME NEW G, OfSymbols(G), NEW unit, Closed(G, unit.symbols), NEW module, NEW p,
         p = PackChunks(G, unit, module)
  PROVE  \E g : LET H == Subgraph(G, unit.symbols)
                    order == Reverse(TopologicalOrder(H))
                IN  /\ Grouped(H, order, module, g)
                    /\ DOMAIN p = 1 .. Len(g) /\ Len(g) \in Nat
                    /\ \A k \in 1 .. Len(g) :
                         /\ p[k].symbols = g[k]
                         /\ p[k].deps = {l \in 1 .. Len(g) : <<g[k], g[l]>> \in Contracted(H, Range(g)).edge}
                    /\ Partition(Range(g), unit.symbols)
                    /\ IsAcyclic(Contracted(H, Range(g)))
<1> DEFINE w == unit.symbols
           H == Subgraph(G, w)
           order == Reverse(TopologicalOrder(H))
           g == PackAll(H, order, module)
           parts == Contracted(H, Range(g))
           Deps(k) == {l \in DOMAIN g : <<g[k], g[l]>> \in parts.edge}
<1>1. p = [k \in DOMAIN g |-> [symbols |-> g[k], deps |-> Deps(k)]]
  BY DEF PackChunks, PackAll
<1>2. w \in SUBSET G.node /\ IsGraph(G) /\ OfSymbols(H) /\ IsGraph(H) /\ H.node = w
  BY SubgraphIsGraph DEF OfSymbols, Closed
<1> HIDE DEF H
<1>3. Listing(order, StrongComponents(H))
  BY <1>2, TopologicalOrderIsOrdered, ReverseIsListing DEF Ordered
<1> HIDE DEF order
<1>4. Grouped(H, order, module, g) /\ Rest(g, order) = {}
  BY <1>2, <1>3, AllArePacked
<1> HIDE DEF g
<1>5. g \in Seq(SUBSET w) /\ DOMAIN g = 1 .. Len(g) /\ Len(g) \in Nat
  BY <1>2, <1>4, LenProperties DEF Grouped
<1>6. \A x : x \in Range(g) <=> \E i \in 1 .. Len(g) : g[i] = x
  BY <1>5 DEF Range
<1>7. \A c \in StrongComponents(H) : \E i \in 1 .. Len(g) : c \cap g[i] # {}
  <2> DEFINE X == SUBSET w
  <2>1. g \in Seq(X)
    BY <1>5
  <2> HIDE DEF X
  <2>2. \A c \in StrongComponents(H) :
          c \in Rest(g, order) <=> \A i \in 1 .. Len(g) : c \cap g[i] = {}
    BY <1>3, <2>1, RestMeans
  <2> QED
    BY <1>4, <2>2
<1>8. Partition(StrongComponents(H), w)
  BY <1>2, StrongPartition
<1>9. Partition(Range(g), w)
  <2>1. ASSUME NEW s \in w PROVE \E x \in Range(g) : s \in x
    <3>1. PICK c \in StrongComponents(H) : s \in c
      BY <1>8 DEF Partition
    <3>2. PICK i \in 1 .. Len(g) : c \cap g[i] # {}
      BY <1>7
    <3>3. c \subseteq g[i]
      BY <1>4, <3>2 DEF Grouped
    <3> QED
      BY <1>6, <3>1, <3>3
  <2>2. \A x \in Range(g) : x # {}
    BY <1>4, <1>6 DEF Grouped
  <2>3. ASSUME NEW x \in Range(g) PROVE x \subseteq w
    <3>1. PICK i \in 1 .. Len(g) : g[i] = x
      BY <1>6
    <3>2. g[i] \in SUBSET w
      BY <1>5, ElementOfSeq
    <3> QED
      BY <3>1, <3>2
  <2>4. ASSUME NEW x \in Range(g), NEW y \in Range(g), x \cap y # {} PROVE x = y
    <3>1. PICK i \in 1 .. Len(g) : g[i] = x
      BY <1>6
    <3>2. PICK j \in 1 .. Len(g) : g[j] = y
      BY <1>6
    <3>3. i = j
      BY <1>4, <2>4, <3>1, <3>2 DEF Grouped
    <3> QED
      BY <3>1, <3>2, <3>3
  <2> QED
    BY <2>1, <2>2, <2>3, <2>4 DEF Partition
<1>10. IsAcyclic(parts)
  <2>1. Range(g) \cup Rest(g, order) = Range(g)
    BY <1>4
  <2> QED
    BY <1>4, <2>1 DEF Grouped
<1>11. \A k \in 1 .. Len(g) : p[k].symbols = g[k] /\ p[k].deps = Deps(k)
  <2> HIDE DEF Deps
  <2> QED
    BY <1>1, <1>5
<1>12. \A k : Deps(k) = {l \in 1 .. Len(g) : <<g[k], g[l]>> \in parts.edge}
  BY <1>5
<1>13. DOMAIN p = 1 .. Len(g)
  BY <1>1, <1>5
<1> HIDE DEF Deps
<1>14. /\ Grouped(H, order, module, g)
       /\ DOMAIN p = 1 .. Len(g) /\ Len(g) \in Nat
       /\ \A k \in 1 .. Len(g) :
            /\ p[k].symbols = g[k]
            /\ p[k].deps = {l \in 1 .. Len(g) : <<g[k], g[l]>> \in parts.edge}
       /\ Partition(Range(g), w) /\ IsAcyclic(parts)
  BY <1>4, <1>5, <1>9, <1>10, <1>11, <1>12, <1>13
<1> QED
  BY <1>14 DEF H, order

(* Among parts that call each other without a cycle, any set of them has *)
(* one that calls no other of the set. *)
LEMMA LastOfParts ==
  ASSUME NEW G, IsGraph(G), IsAcyclic(G), NEW T \in SUBSET G.node, T # {},
         \A n : <<n, n>> \notin G.edge
  PROVE  \E m \in T : \A n \in T : <<m, n>> \notin G.edge
<1> DEFINE R == {p \in T \X T : p[1] # p[2] /\ <<p[2], p[1]>> \in Reaches(G)}
<1>1. \A x, y : <<x, y>> \in R <=> x \in T /\ y \in T /\ x # y /\ <<y, x>> \in Reaches(G)
  OBVIOUS
<1> HIDE DEF R
<1>2. /\ \A l, m, n : <<l, m>> \in Reaches(G) /\ <<m, n>> \in Reaches(G) => <<l, n>> \in Reaches(G)
      /\ \A e \in G.edge : e \in Reaches(G)
  BY Reaching
<1>3. \A m, n : <<m, n>> \in Reaches(G) /\ <<n, m>> \in Reaches(G) => m = n
  BY AcyclicMeans
<1>4. \A x, y, z \in T : <<x, y>> \in R /\ <<y, z>> \in R => <<x, z>> \in R
  BY <1>1, <1>2, <1>3
<1>5. IsFiniteSet(T)
  BY FS_Subset DEF IsGraph
<1>6. PICK m \in T : \A x \in T : <<x, m>> \notin R
  BY <1>1, <1>4, <1>5, HasMinimal
<1>7. ASSUME NEW n \in T PROVE <<m, n>> \notin G.edge
  BY <1>1, <1>2, <1>6
<1> QED
  BY <1>7

(* The unit with its chunks, as the plan lists them. *)
LEMMA ChunksMade ==
  ASSUME Made, stage = "packed", NEW i \in DOMAIN plan
  PROVE  LET w == plan[i].symbols
             H == Subgraph(CallsGraph, w)
             order == Reverse(TopologicalOrder(H))
         IN  /\ Closed(CallsGraph, w) /\ w \subseteq Symbols
             /\ plan[i].sccs = StrongComponents(H) /\ IsGraph(H) /\ H.node = w
             /\ H.edge = {e \in analysis.edges : e[1] \in w /\ e[2] \in w}
             /\ Partition(StrongComponents(H), w)
             /\ \E g : /\ Grouped(H, order, ModuleOf, g)
                       /\ DOMAIN chunks[i] = 1 .. Len(g) /\ Len(g) \in Nat
                       /\ \A k \in 1 .. Len(g) :
                            /\ chunks[i][k].symbols = g[k]
                            /\ chunks[i][k].deps =
                                 {l \in 1 .. Len(g) : <<g[k], g[l]>> \in Contracted(H, Range(g)).edge}
                       /\ Partition(Range(g), w)
                       /\ IsAcyclic(Contracted(H, Range(g)))
<1> DEFINE G == CallsGraph
           w == plan[i].symbols
           H == Subgraph(G, w)
<1>1. /\ G.node = Symbols /\ G.edge = analysis.edges /\ OfSymbols(G) /\ IsGraph(G)
      /\ plan = PlanUnits(G, analysis.entries)
      /\ chunks = [j \in DOMAIN plan |-> PackChunks(G, plan[j], ModuleOf)]
  BY CallsAreCounted DEF Made
<1> HIDE DEF G
<1>2. PICK b : /\ Listing(b, WeakComponents(G)) /\ DOMAIN plan = 1 .. Len(b)
               /\ \A j \in 1 .. Len(b) :
                    plan[j] = [symbols |-> b[j], entries |-> EntriesOf(G, b[j], analysis.entries),
                               sccs |-> ComponentsIn(G, b[j])]
  BY <1>1, UnitsOfPlan
<1>3. w \in WeakComponents(G) /\ plan[i].sccs = ComponentsIn(G, w)
  BY <1>2 DEF Listing
<1> HIDE DEF w
<1>4. Closed(G, w)
  BY <1>1, <1>3, WeakPartition DEF Closed, Partition
<1>5. w \in SUBSET G.node
  BY <1>4 DEF Closed
<1>6. IsGraph(H) /\ H.node = w /\ H.edge = {e \in G.edge : e[1] \in w /\ e[2] \in w}
  BY <1>1, <1>5, SubgraphIsGraph
<1>7. StrongComponents(H) = ComponentsIn(G, w)
  BY <1>1, <1>4, SubgraphComponents DEF ComponentsIn
<1>8. Partition(StrongComponents(H), w)
  BY <1>6, StrongPartition
<1>9. chunks[i] = PackChunks(G, plan[i], ModuleOf)
  BY <1>1
<1>10. \E g : LET J == Subgraph(G, plan[i].symbols)
                  order == Reverse(TopologicalOrder(J))
              IN  /\ Grouped(J, order, ModuleOf, g)
                  /\ DOMAIN chunks[i] = 1 .. Len(g) /\ Len(g) \in Nat
                  /\ \A k \in 1 .. Len(g) :
                       /\ chunks[i][k].symbols = g[k]
                       /\ chunks[i][k].deps =
                            {l \in 1 .. Len(g) : <<g[k], g[l]>> \in Contracted(J, Range(g)).edge}
                  /\ Partition(Range(g), plan[i].symbols)
                  /\ IsAcyclic(Contracted(J, Range(g)))
  BY <1>1, <1>4, <1>9, ChunksOfUnit DEF w
<1> QED
  BY <1>1, <1>3, <1>4, <1>5, <1>6, <1>7, <1>8, <1>10 DEF w, G

(* The chunks hold each symbol and component once and wait for the chunks *)
(* they call. *)
LEMMA ChunksMadeFollow ==
  ASSUME Made
  PROVE  ChunksFollowCalls
<1> SUFFICES ASSUME stage = "packed" PROVE ChunksFollowCalls
  BY DEF ChunksFollowCalls
<1> SUFFICES ASSUME NEW i \in DOMAIN plan
             PROVE  /\ UNION {chunks[i][k].symbols : k \in DOMAIN chunks[i]} = plan[i].symbols
                    /\ \A c \in plan[i].sccs :
                         Cardinality({k \in DOMAIN chunks[i] : c \subseteq chunks[i][k].symbols}) = 1
                    /\ \A e \in analysis.edges, k, l \in DOMAIN chunks[i] :
                         e[1] \in chunks[i][k].symbols /\ e[2] \in chunks[i][l].symbols /\ k # l
                           => l \in chunks[i][k].deps
  BY DEF ChunksFollowCalls
<1> DEFINE w == plan[i].symbols
           H == Subgraph(CallsGraph, w)
           order == Reverse(TopologicalOrder(H))
           pack == chunks[i]
<1>1. /\ plan[i].sccs = StrongComponents(H) /\ IsGraph(H)
      /\ H.edge = {e \in analysis.edges : e[1] \in w /\ e[2] \in w}
      /\ Partition(StrongComponents(H), w)
  BY ChunksMade
<1>2. PICK g : /\ Grouped(H, order, ModuleOf, g)
               /\ DOMAIN pack = 1 .. Len(g) /\ Len(g) \in Nat
               /\ \A k \in 1 .. Len(g) :
                    /\ pack[k].symbols = g[k]
                    /\ pack[k].deps = {l \in 1 .. Len(g) : <<g[k], g[l]>> \in Contracted(H, Range(g)).edge}
               /\ Partition(Range(g), w)
               /\ IsAcyclic(Contracted(H, Range(g)))
  BY ChunksMade
<1> HIDE DEF pack, order, H, w
<1>3. \A x : x \in Range(g) <=> \E k \in 1 .. Len(g) : g[k] = x
  <2>1. DOMAIN g = 1 .. Len(g)
    BY <1>2, LenProperties DEF Grouped
  <2> QED
    BY <2>1 DEF Range
<1>4. UNION {pack[k].symbols : k \in DOMAIN pack} = w
  <2>1. \A s : s \in UNION {pack[k].symbols : k \in DOMAIN pack} <=> \E k \in 1 .. Len(g) : s \in g[k]
    BY <1>2
  <2>2. \A s : s \in w <=> \E x \in Range(g) : s \in x
    BY <1>2 DEF Partition
  <2>3. \A s : s \in w <=> \E k \in 1 .. Len(g) : s \in g[k]
    BY <1>3, <2>2
  <2> QED
    BY <2>1, <2>3
<1>5. ASSUME NEW c \in plan[i].sccs
      PROVE  Cardinality({k \in DOMAIN pack : c \subseteq pack[k].symbols}) = 1
  <2>1. c \in StrongComponents(H) /\ c # {} /\ c \subseteq w
    BY <1>1 DEF Partition
  <2>2. PICK s \in c : s \in w
    BY <2>1
  <2>3. PICK k \in 1 .. Len(g) : s \in g[k]
    <3>1. PICK x \in Range(g) : s \in x
      BY <1>2, <2>2 DEF Partition
    <3> QED
      BY <1>3, <3>1
  <2>4. c \subseteq g[k]
    <3>1. c \cap g[k] # {}
      BY <2>2, <2>3
    <3> QED
      BY <1>2, <2>1, <3>1 DEF Grouped
  <2>5. \A l \in 1 .. Len(g) : c \subseteq g[l] => l = k
    <3> SUFFICES ASSUME NEW l \in 1 .. Len(g), c \subseteq g[l] PROVE l = k
      OBVIOUS
    <3>1. g[l] \cap g[k] # {}
      BY <2>2, <2>3
    <3> QED
      BY <1>2, <3>1 DEF Grouped
  <2>6. {l \in DOMAIN pack : c \subseteq pack[l].symbols} = {k}
    BY <1>2, <2>4, <2>5
  <2> QED
    BY <2>6, FS_Singleton
<1>6. ASSUME NEW e \in analysis.edges, NEW k \in DOMAIN pack, NEW l \in DOMAIN pack,
             e[1] \in pack[k].symbols, e[2] \in pack[l].symbols, k # l
      PROVE  l \in pack[k].deps
  <2>1. k \in 1 .. Len(g) /\ l \in 1 .. Len(g) /\ e[1] \in g[k] /\ e[2] \in g[l]
    BY <1>2, <1>6
  <2>2. g[k] \in Range(g) /\ g[l] \in Range(g)
    BY <1>3, <2>1
  <2>3. g[k] # g[l]
    <3>1. g[k] \cap g[l] = {}
      BY <1>2, <1>6, <2>1 DEF Grouped
    <3> QED
      BY <2>1, <3>1
  <2>4. e \in H.edge
    <3>1. e[1] \in w /\ e[2] \in w
      BY <1>2, <2>1, <2>2 DEF Partition
    <3> QED
      BY <1>1, <3>1
  <2>5. <<g[k], g[l]>> \in Contracted(H, Range(g)).edge
    <3>1. IsFiniteSet(Range(g))
      <4>1. IsFiniteSet(w)
        BY <1>1, ChunksMade DEF IsGraph, H, w
      <4> QED
        BY <1>2, <4>1, FiniteUnion
    <3> QED
      BY <2>1, <2>2, <2>3, <2>4, <3>1, ContractedIsGraph
  <2> QED
    BY <1>2, <2>1, <2>5
<1> QED
  BY <1>4, <1>5, <1>6 DEF pack, w

(* No group of chunks waits for itself. *)
LEMMA ChunksMadeCanRun ==
  ASSUME Made
  PROVE  ChunksCanRun
<1> SUFFICES ASSUME stage = "packed", NEW i \in DOMAIN plan,
                    NEW K \in (SUBSET DOMAIN chunks[i]) \ {{}}
             PROVE  \E k \in K : chunks[i][k].deps \cap K = {}
  BY DEF ChunksCanRun
<1> DEFINE w == plan[i].symbols
           H == Subgraph(CallsGraph, w)
           order == Reverse(TopologicalOrder(H))
           pack == chunks[i]
<1>1. IsGraph(H) /\ H.node = w
  BY ChunksMade
<1>2. PICK g : /\ Grouped(H, order, ModuleOf, g)
               /\ DOMAIN pack = 1 .. Len(g) /\ Len(g) \in Nat
               /\ \A k \in 1 .. Len(g) :
                    /\ pack[k].symbols = g[k]
                    /\ pack[k].deps = {l \in 1 .. Len(g) : <<g[k], g[l]>> \in Contracted(H, Range(g)).edge}
               /\ Partition(Range(g), w)
               /\ IsAcyclic(Contracted(H, Range(g)))
  BY ChunksMade
<1> DEFINE parts == Contracted(H, Range(g))
           T == {g[k] : k \in K}
<1> HIDE DEF pack, order, H, w
<1>3. \A x : x \in Range(g) <=> \E k \in 1 .. Len(g) : g[k] = x
  <2>1. DOMAIN g = 1 .. Len(g)
    BY <1>2, LenProperties DEF Grouped
  <2> QED
    BY <2>1 DEF Range
<1>4. IsFiniteSet(Range(g))
  <2>1. IsFiniteSet(w)
    BY <1>1 DEF IsGraph
  <2> QED
    BY <1>2, <2>1, FiniteUnion
<1>5. IsGraph(parts) /\ parts.node = Range(g) /\ \A n : <<n, n>> \notin parts.edge
  BY <1>4, ContractedIsGraph
<1>6. K # {} /\ \A k \in K : k \in 1 .. Len(g)
  <2>1. K \in SUBSET (DOMAIN pack) /\ K # {}
    BY DEF pack
  <2> QED
    BY <1>2, <2>1
<1>7. T \in SUBSET Range(g) /\ T # {}
  BY <1>3, <1>6
<1> HIDE DEF parts, T
<1>8. PICK m \in T : \A n \in T : <<m, n>> \notin parts.edge
  BY <1>2, <1>5, <1>7, LastOfParts DEF parts
<1>9. PICK k \in K : m = g[k]
  BY DEF T
<1>10. \A l \in K : g[l] \in T
  BY DEF T
<1>11. \A l \in K : <<g[k], g[l]>> \notin parts.edge
  BY <1>8, <1>9, <1>10
<1>12. pack[k].deps \cap K = {}
  BY <1>2, <1>6, <1>11 DEF parts
<1> QED
  BY <1>12 DEF pack

(* A chunk is within its limits, or is one component. *)
LEMMA ChunksMadeFit ==
  ASSUME Made
  PROVE  ChunksFit
<1> SUFFICES ASSUME stage = "packed", NEW i \in DOMAIN plan, NEW k \in DOMAIN chunks[i]
             PROVE  Fits(chunks[i][k].symbols, ModuleOf) \/ chunks[i][k].symbols \in plan[i].sccs
  BY DEF ChunksFit
<1> DEFINE H == Subgraph(CallsGraph, plan[i].symbols)
           order == Reverse(TopologicalOrder(H))
<1>1. plan[i].sccs = StrongComponents(H)
  BY ChunksMade
<1>2. PICK g : /\ Grouped(H, order, ModuleOf, g)
               /\ DOMAIN chunks[i] = 1 .. Len(g)
               /\ \A l \in 1 .. Len(g) : chunks[i][l].symbols = g[l]
  BY ChunksMade
<1> HIDE DEF H, order
<1> QED
  BY <1>1, <1>2 DEF Grouped

(* In every state of every project the migration plan is made of whole *)
(* call chains, each with its entries, and with chunks that hold every *)
(* symbol once, fit a request and can be converted one after the other: *)
(* MigrationPlanBuilder.build and ActChunkPlanner.build with _safe_merge. *)
THEOREM PlanStaysWhole == Spec => []PlanIsWhole
<1>1. Made => PlanIsWhole
  BY PlanMadeIsClosed, PlanMadeHasEntries, ChunksMadeFollow, ChunksMadeCanRun, ChunksMadeFit
     DEF PlanIsWhole
<1> QED
  BY <1>1, SpecMakes, PTL

-----------------------------------------------------------------------------
(* The entries of the analysis. *)

(* Entries are symbols; with none configured they are public, and hold *)
(* every public symbol that nothing calls. *)
LEMMA EntriesAreSymbols ==
  ASSUME Made, stage # "parsed"
  PROVE  /\ analysis.entries \subseteq Symbols
         /\ configured = {} => /\ analysis.entries \subseteq Public
                               /\ \A s \in Public : InDegree(CallsGraph, s) = 0 => s \in analysis.entries
<1> DEFINE G == CallsGraph
<1>1. analysis.entries = EntryPoints(G)
  <2> DEFINE A == UNION {EdgesOf(s) : s \in Symbols}
  <2>1. analysis = Analyzed
    BY DEF Made
  <2>2. Analyzed.symbols = Symbols /\ Analyzed.edges = A /\ Analyzed.entries = EntryPoints(Graph(Symbols, A))
    <3> DEFINE u == [s \in Symbols |-> Unresolved(s)]
               o == {s \in Symbols : ~Touches(Graph(Symbols, A), s)}
               c == Clusters(Graph(Symbols, A))
               y == UNION {Representatives(Graph(Symbols, A), d) : d \in c}
    <3>1. Analyzed = [symbols |-> Symbols, edges |-> Graph(Symbols, A).edge, unresolved |-> u,
                      entries |-> EntryPoints(Graph(Symbols, A)), orphans |-> o, clusters |-> c,
                      cycles |-> y]
      BY DEF Analyzed
    <3> HIDE DEF u, o, c, y, A
    <3> QED
      BY <3>1 DEF Graph
  <2> HIDE DEF A
  <2> QED
    BY <2>1, <2>2 DEF CallsGraph
<1> HIDE DEF G
<1>2. Public \subseteq Symbols /\ Mains \subseteq Public
  BY DEF Public, Mains
<1>3. ASSUME configured = {}
      PROVE  /\ analysis.entries \subseteq Public
             /\ \A s \in Public : InDegree(G, s) = 0 => s \in analysis.entries
  <2>1. analysis.entries = Mains \cup Uncalled(G)
    BY <1>1, <1>3 DEF EntryPoints
  <2> QED
    BY <1>2, <2>1 DEF Uncalled
<1>4. ASSUME configured # {} PROVE analysis.entries \subseteq Symbols
  <2>1. analysis.entries = UNION {ResolveEntry(text) : text \in configured}
    BY <1>1, <1>4 DEF EntryPoints
  <2>2. \A text : ResolveEntry(text) \subseteq Symbols
    BY DEF ResolveEntry, OrElse, Unique, Named, Titled
  <2> QED
    BY <2>1, <2>2
<1> QED
  BY <1>2, <1>3, <1>4 DEF G

(* Every result talks about symbols of the project. *)
LEMMA MadeIsTyped ==
  ASSUME Made
  PROVE  TypeOK
<1>1. stage \in {"parsed", "analyzed", "prepared", "too_large", "split", "planned", "packed"}
  BY DEF Made
<1>2. ASSUME stage # "parsed"
      PROVE  /\ analysis.edges \subseteq Symbols \X Symbols
             /\ analysis.entries \subseteq (IF configured = {} THEN {s \in Symbols : Info(s).public}
                                            ELSE Symbols)
  <2>1. analysis.edges \subseteq Symbols \X Symbols
    BY <1>2, CallsAreCounted DEF IsGraph
  <2>2. configured = {} => analysis.entries \subseteq {s \in Symbols : Info(s).public}
    BY <1>2, EntriesAreSymbols DEF Public
  <2> QED
    BY <1>2, <2>1, <2>2, EntriesAreSymbols
<1>3. ASSUME NEW i \in DOMAIN units PROVE units[i] \subseteq Symbols
  <2>1. stage \in {"prepared", "split"}
    BY <1>3 DEF Made
  <2> QED
    BY <2>1, UnitsMade
<1>4. ASSUME NEW i \in DOMAIN plan PROVE plan[i].symbols \subseteq Symbols
  <2>1. stage \in {"planned", "packed"}
    BY <1>4 DEF Made
  <2> DEFINE G == CallsGraph
             entries == analysis.entries
  <2>2. plan = PlanUnits(G, entries)
    BY <2>1 DEF Made
  <2>3. OfSymbols(G) /\ IsGraph(G) /\ G.node = Symbols
    BY <2>1, CallsAreCounted
  <2> HIDE DEF G, entries
  <2>4. PICK b : /\ Listing(b, WeakComponents(G)) /\ DOMAIN plan = 1 .. Len(b)
                 /\ \A j \in 1 .. Len(b) :
                      plan[j] = [symbols |-> b[j], entries |-> EntriesOf(G, b[j], entries),
                                 sccs |-> ComponentsIn(G, b[j])]
    BY ONLY <2>2, <2>3, UnitsOfPlan
  <2>5. plan[i].symbols \in WeakComponents(G)
    BY <1>4, <2>4 DEF Listing
  <2> QED
    BY <2>3, <2>5, WeakPartition DEF Partition
<1> QED
  BY <1>1, <1>2, <1>3, <1>4 DEF TypeOK

-----------------------------------------------------------------------------
(* Walks and shortest paths. *)

(* Within a component its symbols reach each other without leaving it. *)
LEMMA ClusterIsConnected ==
  ASSUME NEW G, IsGraph(G), NEW c \in StrongComponents(G), NEW s \in c, NEW t \in c
  PROVE  <<s, t>> \in Reaches(Subgraph(G, c))
<1> DEFINE H == Subgraph(G, c)
           R == Reaches(G)
           S == {k \in G.node : (k \in c /\ <<s, k>> \in Reaches(H)) \/ <<k, s>> \notin R}
<1>1. c \in SUBSET G.node
  BY StrongPartition DEF Partition
<1>2. IsGraph(H) /\ H.node = c /\ H.edge = {e \in G.edge : e[1] \in c /\ e[2] \in c}
  BY <1>1, SubgraphIsGraph
<1>3. \A k, l : <<k, l>> \in Reaches(H) => <<k, l>> \in R
  BY <1>1, SubgraphReaches
<1> HIDE DEF H
<1>4. /\ \A e \in G.edge : e \in R /\ e = <<e[1], e[2]>> /\ e[1] \in G.node /\ e[2] \in G.node
      /\ \A l, m, n : <<l, m>> \in R /\ <<m, n>> \in R => <<l, n>> \in R
  BY Reaching
<1>5. ASSUME NEW e \in G.edge, e[1] \in S PROVE e[2] \in S
  <2>1. CASE <<e[2], s>> \notin R
    BY <1>4, <2>1
  <2>2. CASE <<e[2], s>> \in R
    <3>1. <<e[1], e[2]>> \in R
      BY <1>4
    <3>2. <<e[1], s>> \in R
      BY <1>4, <2>2, <3>1
    <3>3. e[1] \in c /\ <<s, e[1]>> \in Reaches(H)
      BY <1>5, <3>2
    <3>4. <<s, e[1]>> \in R
      BY <1>3, <3>3
    <3>5. <<s, e[2]>> \in R
      BY <1>4, <3>1, <3>4
    <3>6. PICK d \in StrongComponents(G) : e[2] \in d
      BY <1>4, StrongPartition DEF Partition
    <3>7. e[2] \in c
      BY <2>2, <3>5, <3>6, MutualIsComponent
    <3>8. e \in H.edge
      BY <1>2, <3>3, <3>7
    <3>9. <<e[1], e[2]>> \in Reaches(H)
      BY <1>2, <3>8, Reaching
    <3>10. <<s, e[2]>> \in Reaches(H)
      BY <1>2, <3>3, <3>9, Reaching
    <3> QED
      BY <1>4, <3>7, <3>10
  <2> QED
    BY <2>1, <2>2
<1>6. s \in S
  BY <1>1, <1>2, Reaching
<1>7. <<s, t>> \in R /\ <<t, s>> \in R
  BY MutualIsComponent
<1>8. t \in S
  <2> HIDE DEF S
  <2> QED
    BY <1>5, <1>6, <1>7, StaysInside
<1>9. <<s, t>> \in Reaches(H)
  BY <1>7, <1>8
<1> QED
  BY <1>9 DEF H

(* The ways from one node to another that pass n nodes. *)
Walks(G, from, to, n) ==
  {p \in [1 .. n -> G.node] : p[1] = from /\ p[n] = to /\ IsPath(G, p)}

(* A walk is a sequence of calls. *)
LEMMA WalkMeans ==
  ASSUME NEW G, NEW from, NEW to, NEW n \in Nat, NEW p \in [1 .. n -> G.node]
  PROVE  /\ p \in Seq(G.node) /\ Len(p) = n
         /\ p \in Walks(G, from, to, n) <=>
              /\ p[1] = from /\ p[n] = to
              /\ \A i \in 1 .. n - 1 : <<p[i], p[i + 1]>> \in G.edge
<1>1. p \in Seq(G.node)
  BY SeqDef
<1>2. Len(p) = n
  <2>1. DOMAIN p = 1 .. n
    OBVIOUS
  <2>2. Len(p) \in Nat /\ DOMAIN p = 1 .. Len(p)
    BY <1>1, LenProperties
  <2> HIDE DEF Walks
  <2> QED
    BY <2>1, <2>2
<1> QED
  BY <1>1, <1>2 DEF Walks, IsPath

(* A walk goes on along a call. *)
LEMMA WalkGoesOn ==
  ASSUME NEW G, IsGraph(G), NEW from, NEW m, NEW n \in Nat \ {0}, NEW p \in Walks(G, from, m, n),
         NEW to, <<m, to>> \in G.edge
  PROVE  \E q : q \in Walks(G, from, to, n + 1)
<1> DEFINE q == [i \in 1 .. n + 1 |-> IF i = n + 1 THEN to ELSE p[i]]
<1>0. p \in [1 .. n -> G.node]
  BY DEF Walks
<1>1. p[1] = from /\ p[n] = m /\ \A i \in 1 .. n - 1 : <<p[i], p[i + 1]>> \in G.edge
  BY <1>0, WalkMeans
<1>2. to \in G.node
  BY DEF IsGraph
<1>3. \A i \in 1 .. n + 1 : i # n + 1 => i \in 1 .. n
  OBVIOUS
<1>4. q \in [1 .. n + 1 -> G.node]
  BY <1>0, <1>2, <1>3
<1>5. \A i \in 1 .. n + 1 : q[i] = IF i = n + 1 THEN to ELSE p[i]
  OBVIOUS
<1> HIDE DEF q
<1>6. 1 \in 1 .. n + 1 /\ 1 # n + 1 /\ n + 1 \in 1 .. n + 1
  OBVIOUS
<1>7. q[1] = from /\ q[n + 1] = to
  BY <1>1, <1>5, <1>6
<1>8. ASSUME NEW i \in 1 .. n + 1 - 1 PROVE <<q[i], q[i + 1]>> \in G.edge
  <2>1. i \in 1 .. n /\ i \in 1 .. n + 1 /\ i + 1 \in 1 .. n + 1 /\ i # n + 1
    OBVIOUS
  <2>2. CASE i = n
    BY <1>1, <1>5, <2>1, <2>2
  <2>3. CASE i # n
    <3>1. i \in 1 .. n - 1 /\ i + 1 # n + 1
      BY <2>1, <2>3
    <3> QED
      BY <1>1, <1>5, <2>1, <3>1
  <2> QED
    BY <2>2, <2>3
<1>9. n + 1 \in Nat
  OBVIOUS
<1>10. q \in Walks(G, from, to, n + 1)
  <2> DEFINE k == n + 1
  <2>1. k \in Nat /\ q \in [1 .. k -> G.node] /\ q[1] = from /\ q[k] = to
        /\ \A i \in 1 .. k - 1 : <<q[i], q[i + 1]>> \in G.edge
    BY <1>4, <1>7, <1>8, <1>9
  <2> HIDE DEF k
  <2>2. q \in Walks(G, from, to, k)
    BY <2>1, WalkMeans
  <2> QED
    BY <2>2 DEF k
<1> QED
  BY <1>10

(* A way that passes a node twice can be cut short. *)
LEMMA WalkIsCut ==
  ASSUME NEW G, NEW from, NEW to, NEW n \in Nat, NEW p \in Walks(G, from, to, n),
         NEW i \in 1 .. n, NEW j \in 1 .. n, i < j, p[i] = p[j]
  PROVE  \E m \in 1 .. n - 1 : \E q : q \in Walks(G, from, to, m)
<1> DEFINE m == n - (j - i)
           q == [k \in 1 .. m |-> IF k <= i THEN p[k] ELSE p[k + (j - i)]]
<1>0. p \in [1 .. n -> G.node]
  BY DEF Walks
<1>1. p[1] = from /\ p[n] = to /\ \A k \in 1 .. n - 1 : <<p[k], p[k + 1]>> \in G.edge
  BY <1>0, WalkMeans
<1>2. m \in 1 .. n - 1 /\ m \in Nat /\ i <= m /\ m + (j - i) = n
  OBVIOUS
<1>3. \A k \in 1 .. m : k \in 1 .. n /\ k + (j - i) \in 1 .. n
  OBVIOUS
<1>4. q \in [1 .. m -> G.node]
  BY <1>0, <1>3
<1>5. \A k \in 1 .. m : q[k] = IF k <= i THEN p[k] ELSE p[k + (j - i)]
  OBVIOUS
<1> HIDE DEF q
<1>6. q[1] = from
  <2>1. 1 \in 1 .. m /\ 1 <= i
    BY <1>2
  <2> HIDE DEF m
  <2> QED
    BY <1>1, <1>5, <2>1
<1>7. q[m] = to
  <2>1. m \in 1 .. m
    BY <1>2
  <2>2. CASE m <= i
    <3>1. m = i /\ j = n
      BY <1>2, <2>2
    <3> HIDE DEF m
    <3> QED
      BY <1>1, <1>5, <2>1, <2>2, <3>1
  <2>3. CASE ~(m <= i)
    <3> HIDE DEF m
    <3> QED
      BY <1>1, <1>2, <1>5, <2>1, <2>3
  <2> QED
    BY <2>2, <2>3
<1>8. ASSUME NEW k \in 1 .. m - 1 PROVE <<q[k], q[k + 1]>> \in G.edge
  <2>1. k \in 1 .. m /\ k + 1 \in 1 .. m /\ k \in 1 .. n - 1
    BY <1>2
  <2>2. CASE k < i
    <3>1. k <= i /\ k + 1 <= i
      BY <2>2
    <3> HIDE DEF m
    <3> QED
      BY <1>1, <1>5, <2>1, <3>1
  <2>3. CASE k = i
    <3>1. k <= i /\ ~(k + 1 <= i) /\ j \in 1 .. n - 1 /\ k + 1 + (j - i) = j + 1
      BY <1>2, <2>3
    <3> HIDE DEF m
    <3>2. q[k] = p[j] /\ q[k + 1] = p[j + 1]
      BY <1>5, <2>1, <2>3, <3>1
    <3> QED
      BY <1>1, <3>1, <3>2
  <2>4. CASE k > i
    <3> DEFINE l == k + (j - i)
    <3>1. ~(k <= i) /\ ~(k + 1 <= i) /\ l \in 1 .. n - 1 /\ k + 1 + (j - i) = l + 1
      BY <1>2, <2>4
    <3> HIDE DEF m
    <3>2. q[k] = p[l]
      BY <1>5, <2>1, <3>1
    <3>3. q[k + 1] = p[l + 1]
      <4>1. q[k + 1] = p[k + 1 + (j - i)]
        BY <1>5, <2>1, <3>1
      <4> QED
        BY <3>1, <4>1
    <3> HIDE DEF l
    <3> QED
      BY <1>1, <3>1, <3>2, <3>3
  <2> QED
    BY <2>2, <2>3, <2>4
<1> HIDE DEF m
<1>9. q \in Walks(G, from, to, m)
  BY <1>2, <1>4, <1>6, <1>7, <1>8, WalkMeans
<1> QED
  BY <1>2, <1>9

(* A node that reaches another one has a walk to it. *)
LEMMA WalkExists ==
  ASSUME NEW G, IsGraph(G), NEW from, NEW to, <<from, to>> \in Reaches(G)
  PROVE  \E n \in Nat \ {0} : \E p : p \in Walks(G, from, to, n)
<1> DEFINE Walked(k) == \E n \in Nat \ {0} : \E p : p \in Walks(G, from, k, n)
           S == {k \in G.node : Walked(k)}
<1>1. from \in S
  <2> DEFINE p == [i \in 1 .. 1 |-> from]
  <2>1. from \in G.node
    BY Reaching
  <2>2. p \in [1 .. 1 -> G.node] /\ p[1] = from /\ 1 .. 1 - 1 = {}
    BY <2>1
  <2> HIDE DEF p
  <2>3. p \in Walks(G, from, from, 1)
    BY <2>2, WalkMeans
  <2> QED
    BY <2>1, <2>3
<1>2. ASSUME NEW e \in G.edge, e[1] \in S PROVE e[2] \in S
  <2>1. PICK n \in Nat \ {0} : \E p : p \in Walks(G, from, e[1], n)
    BY <1>2
  <2>2. PICK p : p \in Walks(G, from, e[1], n)
    BY <2>1
  <2>3. <<e[1], e[2]>> \in G.edge /\ e[2] \in G.node
    BY Reaching
  <2>4. \E q : q \in Walks(G, from, e[2], n + 1)
    BY <2>2, <2>3, WalkGoesOn
  <2>5. n + 1 \in Nat \ {0}
    OBVIOUS
  <2> QED
    BY <2>3, <2>4, <2>5
<1>3. to \in S
  <2> HIDE DEF S
  <2> QED
    BY <1>1, <1>2, StaysInside
<1> QED
  BY <1>3

(* A shortest way passes no node twice. *)
LEMMA LeastWalk ==
  ASSUME NEW G, NEW from, NEW to, NEW n \in Nat \ {0}, NEW p \in Walks(G, from, to, n),
         \A m \in 1 .. n - 1 : Walks(G, from, to, m) = {}
  PROVE  \A i, j \in 1 .. n : p[i] = p[j] => i = j
<1>1. ASSUME NEW i \in 1 .. n, NEW j \in 1 .. n, i < j PROVE p[i] # p[j]
  <2> SUFFICES ASSUME p[i] = p[j] PROVE FALSE
    OBVIOUS
  <2>1. PICK m \in 1 .. n - 1 : \E q : q \in Walks(G, from, to, m)
    BY <1>1, WalkIsCut
  <2> QED
    BY <2>1
<1>2. \A i, j \in 1 .. n : i = j \/ i < j \/ j < i
  OBVIOUS
<1> QED
  BY <1>1, <1>2

(* A shortest walk is no longer than there are nodes: ShortestPath looks *)
(* far enough. *)
LEMMA LeastWalkFits ==
  ASSUME NEW G, IsGraph(G), NEW from, NEW to, NEW n \in Nat \ {0}, NEW p \in Walks(G, from, to, n),
         \A m \in 1 .. n - 1 : Walks(G, from, to, m) = {}
  PROVE  n <= Cardinality(G.node)
<1>1. p \in [1 .. n -> G.node]
  BY DEF Walks
<1>2. \A i, j \in 1 .. n : p[i] = p[j] => i = j
  BY LeastWalk
<1>3. p \in Injection(1 .. n, G.node)
  BY <1>1, <1>2 DEF Injection, IsInjective
<1>4. Cardinality(1 .. n) <= Cardinality(G.node)
  BY <1>3, FS_Injection DEF IsGraph
<1>5. Cardinality(1 .. n) = n
  <2>1. 1 \in Int /\ n \in Int /\ ~(1 > n) /\ n - 1 + 1 = n
    OBVIOUS
  <2> QED
    BY <2>1, FS_Interval
<1> QED
  BY <1>4, <1>5

(* A set of numbers that is not empty has a least one. *)
LEMMA LeastLength ==
  ASSUME NEW L \in SUBSET Nat, L # {}
  PROVE  \E n \in L : \A m \in L : n <= m
<1>1. PICK k \in L : TRUE
  OBVIOUS
<1> DEFINE I == {n \in L : n <= k}
<1>2. I \in SUBSET (0 .. k) /\ k \in Nat /\ k \in I
  <2>1. k \in Nat /\ k <= k
    BY <1>1
  <2>2. \A n \in I : n \in Nat /\ n <= k
    OBVIOUS
  <2>3. \A n \in I : n \in 0 .. k
    BY <2>1, <2>2
  <2>4. k \in I
    BY <1>1, <2>1
  <2> HIDE DEF I
  <2> QED
    BY <2>1, <2>3, <2>4
<1>3. IsFiniteSet(0 .. k)
  BY <1>2, FS_Interval
<1>4. IsFiniteSet(I)
  <2> HIDE DEF I
  <2> QED
    BY <1>2, <1>3, FS_Subset
<1>5. Min(I) \in I /\ \A m \in I : Min(I) <= m
  <2>1. I \in SUBSET Int /\ I # {}
    BY <1>2
  <2> HIDE DEF I
  <2> QED
    BY <1>4, <2>1, MinIsLeast
<1> DEFINE n == Min(I)
<1>6. n \in I /\ \A m \in I : n <= m
  BY <1>5
<1> HIDE DEF n
<1>7. n \in L /\ n <= k
  BY <1>6
<1>8. \A m \in L : n <= m
  <2> SUFFICES ASSUME NEW m \in L PROVE n <= m
    OBVIOUS
  <2>1. CASE m <= k
    BY <1>6, <2>1
  <2>2. CASE ~(m <= k)
    <3>1. m \in Nat /\ n \in Nat /\ k \in Nat
      BY <1>7
    <3> QED
      BY <1>7, <2>2, <3>1
  <2> QED
    BY <2>1, <2>2
<1> QED
  BY <1>7, <1>8

(* ShortestPath is a walk that passes no node twice. *)
LEMMA ShortestPathIsSimple ==
  ASSUME NEW G, IsGraph(G), NEW from, NEW to, <<from, to>> \in Reaches(G)
  PROVE  \E n \in Nat \ {0} :
           /\ ShortestPath(G, from, to) \in Walks(G, from, to, n)
           /\ \A i, j \in 1 .. n :
                ShortestPath(G, from, to)[i] = ShortestPath(G, from, to)[j] => i = j
<1> DEFINE L == {n \in Nat \ {0} : Walks(G, from, to, n) # {}}
           I == {n \in 1 .. Cardinality(G.node) : Walks(G, from, to, n) # {}}
           n == Min(I)
           p == ShortestPath(G, from, to)
<1>1. L # {}
  BY WalkExists
<1>2. PICK k \in L : \A m \in L : k <= m
  <2>1. L \in SUBSET Nat
    OBVIOUS
  <2> HIDE DEF L
  <2> QED
    BY <1>1, <2>1, LeastLength
<1>3. k \in Nat \ {0} /\ \E q : q \in Walks(G, from, to, k)
  BY <1>2
<1>4. \A m \in 1 .. k - 1 : Walks(G, from, to, m) = {}
  <2> SUFFICES ASSUME NEW m \in 1 .. k - 1, m \in L PROVE FALSE
    OBVIOUS
  <2> QED
    BY <1>2
<1> HIDE DEF L
<1>5. k <= Cardinality(G.node)
  BY <1>3, <1>4, LeastWalkFits
<1>6. Cardinality(G.node) \in Nat
  BY FS_CardinalityType DEF IsGraph
<1>7. k \in I
  BY <1>3, <1>5, <1>6
<1>8. IsFiniteSet(I) /\ I \in SUBSET Int
  <2>1. I \in SUBSET (1 .. Cardinality(G.node))
    OBVIOUS
  <2>2. IsFiniteSet(1 .. Cardinality(G.node))
    BY <1>6, FS_Interval
  <2>3. I \in SUBSET Int
    BY <1>6
  <2> HIDE DEF I
  <2> QED
    BY <2>1, <2>2, <2>3, FS_Subset
<1>9. n \in I /\ \A m \in I : n <= m
  <2> HIDE DEF I
  <2> QED
    BY <1>7, <1>8, MinIsLeast
<1>10. p = CHOOSE q \in Walks(G, from, to, n) : TRUE
  BY DEF ShortestPath, Walks
<1> HIDE DEF n, p
<1>11. n \in Nat \ {0} /\ Walks(G, from, to, n) # {}
  BY <1>6, <1>9
<1>12. p \in Walks(G, from, to, n)
  BY <1>10, <1>11
<1>13. \A m \in 1 .. n - 1 : Walks(G, from, to, m) = {}
  <2> SUFFICES ASSUME NEW m \in 1 .. n - 1, Walks(G, from, to, m) # {} PROVE FALSE
    OBVIOUS
  <2>1. m \in 1 .. Cardinality(G.node) /\ ~(n <= m)
    BY <1>6, <1>9, <1>11
  <2>2. m \in I
    BY <2>1
  <2> QED
    BY <1>9, <2>1, <2>2
<1>14. \A i, j \in 1 .. n : p[i] = p[j] => i = j
  BY <1>11, <1>12, <1>13, LeastWalk
<1> QED
  BY <1>11, <1>12, <1>14 DEF p

-----------------------------------------------------------------------------
(* Cycles. *)

(* The place after i around a cycle of n. *)
After(i, n) == IF i = n THEN 1 ELSE i + 1
(* A cycle: it calls on from each node to the next, and passes none twice. *)
Ring(G, q) ==
  /\ q \in Seq(G.node) /\ Len(q) \in Nat \ {0}
  /\ \A i, j \in 1 .. Len(q) : q[i] = q[j] => i = j
  /\ \A i \in 1 .. Len(q) : <<q[i], q[After(i, Len(q))]>> \in G.edge

(* The successor around a cycle, by remainder. *)
LEMMA AfterIsNext ==
  ASSUME NEW n \in Nat, NEW i \in 1 .. n
  PROVE  (i % n) + 1 = After(i, n)
<1>1. CASE i = n
  <2>1. n % n = 0
    OBVIOUS
  <2> QED
    BY <2>1, <1>1 DEF After
<1>2. CASE i # n
  <2>1. i % n = i
    BY <1>2
  <2> QED
    BY <2>1, <1>2 DEF After
<1> QED
  BY <1>1, <1>2

(* A call and a shortest way back make a cycle. *)
LEMMA WayBackCloses ==
  ASSUME NEW G, IsGraph(G), NEW e \in G.edge, NEW n \in Nat \ {0}, NEW p \in Walks(G, e[2], e[1], n),
         \A i, j \in 1 .. n : p[i] = p[j] => i = j
  PROVE  Ring(G, <<e[1]>> \o Front(p)) /\ Len(<<e[1]>> \o Front(p)) = n
<1> DEFINE head == <<e[1]>>
           q == head \o Front(p)
           X == G.node
<1>1. /\ p \in Seq(X) /\ Len(p) = n /\ p[1] = e[2] /\ p[n] = e[1]
      /\ \A i \in 1 .. n - 1 : <<p[i], p[i + 1]>> \in G.edge
  <2>1. p \in [1 .. n -> G.node]
    BY DEF Walks
  <2> QED
    BY <2>1, WalkMeans
<1>2. e = <<e[1], e[2]>> /\ e[1] \in X
  BY Reaching
<1>3. /\ Front(p) \in Seq(X) /\ Len(Front(p)) = n - 1
      /\ \A i \in 1 .. n - 1 : Front(p)[i] = p[i]
  BY <1>1, FrontIsPart
<1>4. head \in Seq(X) /\ Len(head) = 1 /\ head[1] = e[1]
  <2> DEFINE x == e[1]
  <2>1. x \in X
    BY <1>2
  <2> HIDE DEF x, X
  <2>2. <<x>> \in Seq(X) /\ Len(<<x>>) = 1 /\ <<x>>[1] = x
    BY <2>1
  <2> QED
    BY <2>2 DEF x
<1>5. /\ q \in Seq(X) /\ Len(q) = n /\ q[1] = e[1]
      /\ \A i \in 2 .. n : q[i] = p[i - 1]
  <2> DEFINE f == Front(p)
  <2>0. f \in Seq(X) /\ head \in Seq(X)
    BY <1>3, <1>4
  <2> HIDE DEF head, f, X
  <2>1. /\ head \o f \in Seq(X) /\ Len(head \o f) = Len(head) + Len(f)
        /\ \A i \in 1 .. Len(head) + Len(f) :
             (head \o f)[i] = IF i <= Len(head) THEN head[i] ELSE f[i - Len(head)]
    BY <2>0, ConcatProperties
  <2> DEFINE r == head \o f
  <2>2. Len(head) = 1 /\ Len(f) = n - 1 /\ 1 + (n - 1) = n
    BY <1>3, <1>4 DEF f
  <2>3. r \in Seq(X) /\ Len(r) = n /\ \A i \in 1 .. n : r[i] = IF i <= 1 THEN head[i] ELSE f[i - 1]
    BY <2>1, <2>2
  <2> HIDE DEF r
  <2>4. \A i \in 2 .. n : i \in 1 .. n /\ ~(i <= 1) /\ i - 1 \in 1 .. n - 1
    OBVIOUS
  <2>5. 1 \in 1 .. n
    OBVIOUS
  <2>6. \A i \in 2 .. n : r[i] = p[i - 1]
    BY <1>3, <2>3, <2>4 DEF f
  <2> QED
    BY <1>4, <2>3, <2>5, <2>6 DEF r, f
<1> HIDE DEF q, head, X
<1>6. \A i \in 1 .. n : i = 1 \/ i \in 2 .. n
  OBVIOUS
<1>7. ASSUME NEW i \in 1 .. n PROVE q[i] = p[IF i = 1 THEN n ELSE i - 1]
  <2>1. CASE i = 1
    BY <1>1, <1>5, <2>1
  <2>2. CASE i \in 2 .. n
    BY <1>5, <2>2
  <2> QED
    BY <1>6, <2>1, <2>2
<1>8. \A i \in 1 .. n : (IF i = 1 THEN n ELSE i - 1) \in 1 .. n
  OBVIOUS
<1>9. \A i, j \in 1 .. n : (IF i = 1 THEN n ELSE i - 1) = (IF j = 1 THEN n ELSE j - 1) => i = j
  OBVIOUS
<1>10. \A i, j \in 1 .. n : q[i] = q[j] => i = j
  BY <1>7, <1>8, <1>9
<1>11. ASSUME NEW i \in 1 .. n PROVE <<q[i], q[After(i, n)]>> \in G.edge
  <2>1. CASE i = 1 /\ i = n
    <3>1. e[1] = e[2]
      BY <1>1, <2>1
    <3> QED
      BY <1>2, <1>5, <2>1, <3>1 DEF After
  <2>2. CASE i = 1 /\ i # n
    <3>1. 2 \in 2 .. n /\ After(i, n) = 2 /\ 2 - 1 = 1
      BY <2>2 DEF After
    <3>2. q[2] = e[2]
      BY <1>1, <1>5, <3>1
    <3> QED
      BY <1>2, <1>5, <2>2, <3>1, <3>2
  <2>3. CASE i # 1 /\ i = n
    <3>1. i \in 2 .. n /\ i - 1 \in 1 .. n - 1 /\ i - 1 + 1 = n /\ After(i, n) = 1
      BY <2>3 DEF After
    <3>2. <<p[i - 1], p[n]>> \in G.edge
      BY <1>1, <3>1
    <3> QED
      BY <1>1, <1>5, <3>1, <3>2
  <2>4. CASE i # 1 /\ i # n
    <3>1. /\ i \in 2 .. n /\ i + 1 \in 2 .. n /\ i - 1 \in 1 .. n - 1 /\ i - 1 + 1 = i
          /\ i + 1 - 1 = i /\ After(i, n) = i + 1
      BY <2>4 DEF After
    <3>2. <<p[i - 1], p[i]>> \in G.edge
      BY <1>1, <3>1
    <3>3. q[i] = p[i - 1] /\ q[i + 1] = p[i]
      BY <1>5, <3>1
    <3> QED
      BY <3>1, <3>2, <3>3
  <2> QED
    BY <2>1, <2>2, <2>3, <2>4
<1>12. Ring(G, q) /\ Len(q) = n
  BY <1>5, <1>10, <1>11 DEF Ring, X
<1> QED
  BY <1>12 DEF q, head

(* Turning a cycle keeps it, and puts its least node first. *)
LEMMA TurnedIsRing ==
  ASSUME NEW G, IsGraph(G), G.node \subseteq Int, NEW q, Ring(G, q)
  PROVE  /\ Ring(G, Turned(q))
         /\ Turned(q)[1] = Min(Range(Turned(q))) /\ Turned(q)[1] \in G.node
<1> DEFINE n == Len(q)
           k == CHOOSE i \in DOMAIN q : \A j \in DOMAIN q : q[i] <= q[j]
           X == G.node
           a == SubSeq(q, k, n)
           b == SubSeq(q, 1, k - 1)
           r == a \o b
           Place1(i) == IF i <= n - k + 1 THEN k + i - 1 ELSE i - (n - k + 1)
<1>1. Turned(q) = r
  BY DEF Turned
<1>2. q \in Seq(X) /\ n \in Nat \ {0} /\ DOMAIN q = 1 .. n /\ \A i \in 1 .. n : q[i] \in X
  BY LenProperties, ElementOfSeq DEF Ring
<1>3. k \in 1 .. n /\ \A j \in 1 .. n : q[k] <= q[j]
  <2> DEFINE V == {q[i] : i \in 1 .. n}
  <2>1. V \in SUBSET X /\ q[1] \in V
    BY <1>2
  <2>2. IsFiniteSet(V)
    <3> HIDE DEF V
    <3> QED
      BY <2>1, FS_Subset DEF IsGraph
  <2>3. V \in SUBSET Int /\ V # {}
    BY <2>1
  <2>4. \A i \in 1 .. n : q[i] \in V
    OBVIOUS
  <2>5. \A v \in V : \E i \in 1 .. n : q[i] = v
    OBVIOUS
  <2> HIDE DEF V
  <2>6. PICK i \in 1 .. n : q[i] = Min(V)
    BY <2>2, <2>3, <2>5, MinIsLeast
  <2>7. i \in DOMAIN q /\ \A j \in DOMAIN q : q[i] <= q[j]
    BY <1>2, <2>2, <2>3, <2>4, <2>6, MinIsLeast
  <2>8. k \in DOMAIN q /\ \A j \in DOMAIN q : q[k] <= q[j]
    BY <2>7
  <2> HIDE DEF k
  <2> QED
    BY <1>2, <2>8
<1> HIDE DEF k, n, X
<1>4. /\ a \in Seq(X) /\ Len(a) = n - k + 1
      /\ \A i \in 1 .. n - k + 1 : a[i] = q[k + i - 1]
  <2>1. k \in Int /\ n \in Int /\ k <= n
    BY <1>2, <1>3
  <2>2. \A i \in k .. n : q[i] \in X
    BY <1>2, <1>3
  <2> QED
    BY <2>1, <2>2, SubSeqProperties
<1>5. b \in Seq(X) /\ Len(b) = k - 1 /\ \A i \in 1 .. k - 1 : b[i] = q[i]
  <2> DEFINE l == k - 1
  <2>1. l \in Nat /\ 1 \in Int /\ l \in Int /\ l <= n
    BY <1>2, <1>3
  <2> HIDE DEF l
  <2>2. \A i \in 1 .. l : q[i] \in X
    BY <1>2, <2>1
  <2>3. /\ SubSeq(q, 1, l) \in Seq(X)
        /\ Len(SubSeq(q, 1, l)) = IF 1 <= l THEN l - 1 + 1 ELSE 0
        /\ \A i \in 1 .. l - 1 + 1 : SubSeq(q, 1, l)[i] = q[1 + i - 1]
    BY <2>1, <2>2, SubSeqProperties
  <2>4. Len(SubSeq(q, 1, l)) = l
    BY <2>1, <2>3
  <2>5. \A i \in 1 .. l : SubSeq(q, 1, l)[i] = q[i]
    <3>1. \A i \in 1 .. l : i \in 1 .. l - 1 + 1 /\ 1 + i - 1 = i
      BY <2>1
    <3> QED
      BY <2>3, <3>1
  <2> QED
    BY <2>3, <2>4, <2>5 DEF l
<1> HIDE DEF a, b
<1>6. /\ r \in Seq(X) /\ Len(r) = Len(a) + Len(b)
      /\ \A i \in 1 .. Len(a) + Len(b) : r[i] = IF i <= Len(a) THEN a[i] ELSE b[i - Len(a)]
  BY <1>4, <1>5, ConcatProperties
<1> HIDE DEF r
<1>7. Len(a) + Len(b) = n
  BY <1>2, <1>3, <1>4, <1>5
<1>8. \A i \in 1 .. n : Place1(i) \in 1 .. n
  BY <1>2, <1>3
<1>9. \A i, j \in 1 .. n : Place1(i) = Place1(j) => i = j
  BY <1>2, <1>3
<1>10. \A i \in 1 .. n : Place1(After(i, n)) = After(Place1(i), n) /\ After(i, n) \in 1 .. n
  BY <1>2, <1>3 DEF After
<1>11. ASSUME NEW i \in 1 .. n PROVE r[i] = q[Place1(i)]
  <2>1. r[i] = IF i <= n - k + 1 THEN a[i] ELSE b[i - (n - k + 1)]
    BY <1>4, <1>6, <1>7
  <2>2. CASE i <= n - k + 1
    <3>1. i \in 1 .. n - k + 1
      BY <1>2, <1>3, <2>2
    <3> QED
      BY <1>4, <2>1, <2>2, <3>1
  <2>3. CASE ~(i <= n - k + 1)
    <3>1. i - (n - k + 1) \in 1 .. k - 1
      BY <1>2, <1>3, <2>3
    <3> QED
      BY <1>5, <2>1, <2>3, <3>1
  <2> QED
    BY <2>2, <2>3
<1>12. Place1(1) = k /\ 1 \in 1 .. n
  BY <1>2, <1>3
<1> HIDE DEF Place1
<1>13. \A i, j \in 1 .. n : r[i] = r[j] => i = j
  BY <1>8, <1>9, <1>11 DEF Ring, n
<1>14. \A i \in 1 .. n : <<r[i], r[After(i, n)]>> \in G.edge
  BY <1>8, <1>10, <1>11 DEF Ring, n
<1>15. Ring(G, r)
  BY <1>2, <1>6, <1>7, <1>13, <1>14 DEF Ring, X
<1>16. r[1] = Min(Range(r)) /\ r[1] \in G.node
  <2>1. DOMAIN r = 1 .. n
    BY <1>6, <1>7, LenProperties
  <2>2. \A v : v \in Range(r) <=> \E i \in 1 .. n : r[i] = v
    BY <2>1 DEF Range
  <2>3. \A i \in 1 .. n : r[i] \in X /\ r[1] <= r[i]
    BY <1>2, <1>3, <1>8, <1>11, <1>12
  <2>4. Range(r) \in SUBSET X /\ r[1] \in Range(r)
    BY <1>12, <2>2, <2>3
  <2>5. IsFiniteSet(Range(r))
    BY <2>4, FS_Subset DEF IsGraph, X
  <2>6. Range(r) \in SUBSET Int
    BY <2>4 DEF X
  <2>7. Min(Range(r)) \in Range(r) /\ \A v \in Range(r) : Min(Range(r)) <= v
    BY <2>4, <2>5, <2>6, MinIsLeast
  <2>8. Min(Range(r)) <= r[1] /\ r[1] <= Min(Range(r))
    BY <2>2, <2>3, <2>4, <2>7
  <2>9. r[1] \in Int /\ Min(Range(r)) \in Int
    BY <2>4, <2>6, <2>7
  <2>10. \A x, y \in Int : x <= y /\ y <= x => x = y
    OBVIOUS
  <2> QED
    BY <2>4, <2>8, <2>9, <2>10 DEF X
<1> QED
  BY <1>1, <1>15, <1>16

-----------------------------------------------------------------------------
(* The clusters of the analysis. *)

(* The cycle through a call of a cluster stays in the cluster and starts *)
(* at its least symbol. *)
LEMMA CyclesOfCluster ==
  ASSUME NEW G, OfSymbols(G), NEW c \in StrongComponents(G), NEW e \in Subgraph(G, c).edge
  PROVE  LET p == CycleThrough(Subgraph(G, c), e)
         IN  Ring(Subgraph(G, c), p) /\ p[1] = Min(Range(p)) /\ p[1] \in c
<1> DEFINE H == Subgraph(G, c)
           way == ShortestPath(H, e[2], e[1])
           q == <<e[1]>> \o Front(way)
<1>1. IsGraph(G) /\ c \in SUBSET G.node /\ G.node \subseteq Int
  BY StrongPartition DEF OfSymbols, Partition
<1>2. IsGraph(H) /\ H.node = c
  BY <1>1, SubgraphIsGraph
<1>3. \A s, t \in c : <<s, t>> \in Reaches(H)
  BY <1>1, ClusterIsConnected
<1>4. CycleThrough(H, e) = Turned(q)
  BY DEF CycleThrough
<1>5. e \in H.edge
  OBVIOUS
<1> HIDE DEF H
<1>6. e[1] \in c /\ e[2] \in c
  BY <1>2, <1>5, Reaching
<1>7. PICK n \in Nat \ {0} : /\ way \in Walks(H, e[2], e[1], n)
                             /\ \A i, j \in 1 .. n : way[i] = way[j] => i = j
  <2>1. <<e[2], e[1]>> \in Reaches(H)
    BY <1>3, <1>6
  <2> QED
    BY <1>2, <2>1, ShortestPathIsSimple
<1> HIDE DEF way
<1>8. Ring(H, q)
  BY <1>2, <1>5, <1>7, WayBackCloses
<1> HIDE DEF q
<1>9. Ring(H, Turned(q)) /\ Turned(q)[1] = Min(Range(Turned(q))) /\ Turned(q)[1] \in c
  BY <1>1, <1>2, <1>8, TurnedIsRing
<1> QED
  BY <1>4, <1>9 DEF H

(* Before orders the calls. *)
LEMMA BeforeIsOrder ==
  ASSUME NEW E \in SUBSET (Int \X Int)
  PROVE  /\ \A e \in E : ~Before(e, e)
         /\ \A e, f \in E : Before(e, f) \/ Before(f, e) \/ e = f
         /\ \A e, f, g \in E : Before(e, f) /\ Before(f, g) => Before(e, g)
<1>1. \A e \in E : e[1] \in Int /\ e[2] \in Int /\ e = <<e[1], e[2]>>
  OBVIOUS
<1>2. \A e \in E : ~Before(e, e)
  BY <1>1 DEF Before
<1>3. \A e, f \in E : Before(e, f) \/ Before(f, e) \/ e = f
  <2> SUFFICES ASSUME NEW e \in E, NEW f \in E PROVE Before(e, f) \/ Before(f, e) \/ e = f
    OBVIOUS
  <2>1. e[1] = f[1] /\ e[2] = f[2] => e = f
    BY <1>1
  <2>2. e[1] \in Int /\ e[2] \in Int /\ f[1] \in Int /\ f[2] \in Int
    BY <1>1
  <2> QED
    BY <2>1, <2>2 DEF Before
<1>4. \A e, f, g \in E : Before(e, f) /\ Before(f, g) => Before(e, g)
  BY <1>1 DEF Before
<1> QED
  BY <1>2, <1>3, <1>4

(* A function has finitely many values on a finite set. *)
LEMMA ImageIsFinite ==
  ASSUME NEW S, IsFiniteSet(S), NEW f
  PROVE  IsFiniteSet({f[x] : x \in S}) /\ Cardinality({f[x] : x \in S}) \in Nat
<1> DEFINE T == {f[x] : x \in S}
           g == [x \in S |-> f[x]]
<1>1. g \in Surjection(S, T)
  BY DEF Surjection
<1> HIDE DEF T, g
<1>2. IsFiniteSet(T)
  BY <1>1, FS_Surjection
<1>3. Cardinality(T) \in Nat
  BY <1>2, FS_CardinalityType
<1> QED
  BY <1>2, <1>3 DEF T

(* The edges kept while fewer than CycleLimit values came before them. *)
Limited(E, cycle, Found, A) ==
  /\ E \in SUBSET (Int \X Int) /\ IsFiniteSet(E) /\ E # {}
  /\ \A e \in E : Found[e] = {cycle[f] : f \in {f \in E : Before(f, e)}}
  /\ A = {e \in E : Cardinality(Found[e]) < CycleLimit}

(* Of the values of a function on ordered pairs, those kept while fewer *)
(* than CycleLimit came before are some, and no more than CycleLimit. *)
LEMMA FirstValues ==
  ASSUME NEW E, NEW cycle, NEW Found, NEW A, Limited(E, cycle, Found, A)
  PROVE  Cardinality({cycle[e] : e \in A}) \in 1 .. CycleLimit
<1> USE DEF Limited
<1>0. CycleLimit \in Nat \ {0}
  BY CycleLimitIsPositive
<1>1. /\ \A e \in E : ~Before(e, e)
      /\ \A e, f \in E : Before(e, f) \/ Before(f, e) \/ e = f
      /\ \A e, f, g \in E : Before(e, f) /\ Before(f, g) => Before(e, g)
  BY BeforeIsOrder
<1> DEFINE R == {p \in E \X E : Before(p[1], p[2])}
           Q == {p \in E \X E : Before(p[2], p[1])}
           V == {cycle[e] : e \in A}
<1>2. /\ \A x, y : <<x, y>> \in R <=> x \in E /\ y \in E /\ Before(x, y)
      /\ \A x, y : <<x, y>> \in Q <=> x \in E /\ y \in E /\ Before(y, x)
  OBVIOUS
<1> HIDE DEF R, Q
<1>3. A # {}
  <2>1. PICK m \in E : \A x \in E : <<x, m>> \notin R
    <3>1. \A x, y, z \in E : <<x, y>> \in R /\ <<y, z>> \in R => <<x, z>> \in R
      BY <1>1, <1>2
    <3>2. \A x \in E : <<x, x>> \notin R
      BY <1>1, <1>2
    <3> QED
      BY <3>1, <3>2, HasMinimal
  <2>2. Found[m] = {}
    BY <1>2, <2>1
  <2>3. Cardinality(Found[m]) < CycleLimit
    BY <1>0, <2>2, FS_EmptySet
  <2> QED
    BY <2>3
<1>4. A \in SUBSET E /\ IsFiniteSet(A)
  <2>1. A \in SUBSET E
    OBVIOUS
  <2> QED
    BY <2>1, FS_Subset
<1>5. PICK m \in A : \A x \in A : <<x, m>> \notin Q
  <2>1. \A x, y, z \in A : <<x, y>> \in Q /\ <<y, z>> \in Q => <<x, z>> \in Q
    BY <1>1, <1>2, <1>4
  <2>2. \A x \in A : <<x, x>> \notin Q
    BY <1>1, <1>2, <1>4
  <2> QED
    BY ONLY <1>3, <1>4, <2>1, <2>2, HasMinimal
<1>6. \A x \in A : x = m \/ Before(x, m)
  BY <1>1, <1>2, <1>4, <1>5
<1> DEFINE B == {f \in E : Before(f, m)}
           F == {cycle[f] : f \in B}
<1>7. m \in E /\ Cardinality(F) < CycleLimit
  BY <1>4
<1>8. V \subseteq F \cup {cycle[m]}
  BY <1>4, <1>6
<1>9. IsFiniteSet(F) /\ Cardinality(F) \in Nat
  <2>1. B \in SUBSET E
    OBVIOUS
  <2> HIDE DEF B
  <2>2. IsFiniteSet(B)
    BY <2>1, FS_Subset
  <2> QED
    BY <2>2, ImageIsFinite
<1>10. IsFiniteSet(V) /\ Cardinality(V) \in Nat
  BY <1>4, ImageIsFinite
<1>11. V # {}
  BY <1>3
<1> HIDE DEF F, V
<1> DEFINE W == F \cup {cycle[m]}
<1>12. IsFiniteSet(W) /\ (Cardinality(W) = Cardinality(F) \/ Cardinality(W) = Cardinality(F) + 1)
  BY <1>9, FS_AddElement
<1>13. Cardinality(V) <= Cardinality(W)
  <2>1. V \in SUBSET W
    BY <1>8
  <2> HIDE DEF W
  <2> QED
    BY <1>12, <2>1, FS_Subset
<1> HIDE DEF W
<1>14. Cardinality(V) <= CycleLimit
  BY <1>0, <1>7, <1>9, <1>10, <1>12, <1>13
<1>15. Cardinality(V) # 0
  BY <1>10, <1>11, FS_EmptySet
<1>16. Cardinality(V) \in 1 .. CycleLimit
  BY <1>0, <1>10, <1>14, <1>15
<1> QED
  BY <1>16 DEF V

(* A cluster has one to CycleLimit representatives, all of them cycles in *)
(* it. *)
LEMMA RepresentativesShow ==
  ASSUME NEW G, OfSymbols(G), NEW c \in Clusters(G)
  PROVE  /\ Cardinality(Representatives(G, c)) \in 1 .. CycleLimit
         /\ \A p \in Representatives(G, c) :
              Ring(Subgraph(G, c), p) /\ p[1] = Min(Range(p)) /\ p[1] \in c
<1> DEFINE H == Subgraph(G, c)
           E == H.edge
           cycle == [e \in E |-> CycleThrough(H, e)]
           Of(e) == {cycle[f] : f \in {f \in E : Before(f, e)}}
           Found == [e \in E |-> Of(e)]
           A == {e \in E : Cardinality(Found[e]) < CycleLimit}
<1>1. IsGraph(G) /\ c \in StrongComponents(G) /\ c \in SUBSET G.node /\ G.node \subseteq Int
  BY StrongPartition DEF OfSymbols, Partition, Clusters
<1>2. IsGraph(H) /\ H.node = c
  BY <1>1, SubgraphIsGraph
<1>3. \A s, t \in c : <<s, t>> \in Reaches(H)
  BY <1>1, ClusterIsConnected
<1>4. \A e \in E : /\ Ring(H, CycleThrough(H, e)) /\ CycleThrough(H, e)[1] \in c
                   /\ CycleThrough(H, e)[1] = Min(Range(CycleThrough(H, e)))
  BY <1>1, CyclesOfCluster
<1>5. Representatives(G, c) = {cycle[e] : e \in A}
  <2>1. Representatives(G, c) = {cycle[e] : e \in {e \in E : Cardinality(Of(e)) < CycleLimit}}
    BY DEF Representatives
  <2>2. A = {e \in E : Cardinality(Of(e)) < CycleLimit}
    <3> HIDE DEF Of, E
    <3> QED
      OBVIOUS
  <2> HIDE DEF A, Of, E, cycle
  <2> QED
    BY <2>1, <2>2
<1> HIDE DEF H
<1>6. E \in SUBSET (Int \X Int) /\ IsFiniteSet(E)
  <2>1. E \in SUBSET (c \X c) /\ c \subseteq Int
    BY <1>1, <1>2 DEF IsGraph
  <2>2. IsFiniteSet(c)
    BY <1>2 DEF IsGraph
  <2>3. IsFiniteSet(c \X c)
    BY <2>2, FS_Product
  <2> HIDE DEF E
  <2>4. IsFiniteSet(E)
    BY <2>1, <2>3, FS_Subset
  <2> QED
    BY <2>1, <2>4
<1>7. E # {}
  <2>1. Cardinality(c) # 1 /\ IsFiniteSet(c) /\ c # {}
    <3>1. Cardinality(c) > 1
      BY DEF Clusters
    <3> QED
      BY <1>1, <1>2, <3>1, StrongPartition DEF IsGraph, Partition
  <2>2. PICK s \in c : TRUE
    BY <2>1
  <2>3. PICK t \in c : t # s
    <3>1. c # {s}
      BY <2>1, FS_Singleton
    <3> QED
      BY <2>2, <3>1
  <2>4. \E x : <<s, x>> \in E /\ <<x, t>> \in Reaches(H)
    BY <1>2, <1>3, <2>2, <2>3, FirstCall
  <2> QED
    BY <2>4
<1>8. \A e \in E : cycle[e] = CycleThrough(H, e) /\ Found[e] = Of(e)
  <2> HIDE DEF Of, E
  <2> QED
    OBVIOUS
<1>9. Cardinality({cycle[e] : e \in A}) \in 1 .. CycleLimit
  <2>1. \A e \in E : Found[e] = {cycle[f] : f \in {f \in E : Before(f, e)}}
    BY <1>8
  <2>2. A = {e \in E : Cardinality(Found[e]) < CycleLimit}
    OBVIOUS
  <2> HIDE DEF cycle, Found, E, A
  <2>3. Limited(E, cycle, Found, A)
    BY <1>6, <1>7, <2>1, <2>2 DEF Limited
  <2> QED
    BY <2>3, FirstValues
<1>10. \A p \in {cycle[e] : e \in A} : Ring(H, p) /\ p[1] = Min(Range(p)) /\ p[1] \in c
  <2>1. \A e \in A : e \in E
    OBVIOUS
  <2> HIDE DEF cycle, Found, E, A
  <2> QED
    BY <1>4, <1>8, <2>1
<1> QED
  BY <1>5, <1>9, <1>10 DEF H

(* The analyzed clusters and cycles are those of the call graph. *)
LEMMA ClustersAnalyzed ==
  ASSUME Made, stage # "parsed"
  PROVE  /\ analysis.clusters = Clusters(CallsGraph)
         /\ analysis.cycles = UNION {Representatives(CallsGraph, c) : c \in Clusters(CallsGraph)}
<1> DEFINE A == UNION {EdgesOf(s) : s \in Symbols}
           G == Graph(Symbols, A)
           Y == UNION {Representatives(G, c) : c \in Clusters(G)}
<1>1. analysis = Analyzed
  BY DEF Made
<1>2. /\ Analyzed.symbols = Symbols /\ Analyzed.edges = A
      /\ Analyzed.clusters = Clusters(G) /\ Analyzed.cycles = Y
  <2> DEFINE u == [s \in Symbols |-> Unresolved(s)]
             o == {s \in Symbols : ~Touches(G, s)}
  <2>1. Analyzed = [symbols |-> Symbols, edges |-> G.edge, unresolved |-> u,
                    entries |-> EntryPoints(G), orphans |-> o, clusters |-> Clusters(G), cycles |-> Y]
    BY DEF Analyzed
  <2>2. G.edge = A
    BY DEF Graph
  <2> HIDE DEF u, o, A, G, Y
  <2> QED
    BY <2>1, <2>2
<1>3. CallsGraph = G
  <2> HIDE DEF A, Y
  <2> QED
    BY <1>1, <1>2 DEF CallsGraph
<1> HIDE DEF A, G
<1> QED
  BY <1>1, <1>2, <1>3

(* What calls a symbol from furthest above is an entry, recursive, or *)
(* neither public nor called. *)
LEMMA EntriesMadeReach ==
  ASSUME Made
  PROVE  EntriesReachTheRest
<1> DEFINE G == CallsGraph
<1> SUFFICES ASSUME stage = "analyzed", configured = {}, NEW s \in Symbols
             PROVE  \E r \in Symbols :
                      /\ <<r, s>> \in Reaches(G)
                      /\ \/ r \in analysis.entries
                         \/ \E c \in analysis.clusters : r \in c
                         \/ <<r, r>> \in analysis.edges
                         \/ ~Info(r).public /\ InDegree(G, r) = 0
  BY DEF EntriesReachTheRest
<1>1. G.node = Symbols /\ G.edge = analysis.edges /\ IsGraph(G)
  BY CallsAreCounted
<1>2. \A r \in Public : InDegree(G, r) = 0 => r \in analysis.entries
  BY EntriesAreSymbols
<1>2a. analysis.clusters = Clusters(G)
  BY ClustersAnalyzed
<1> HIDE DEF G
<1> DEFINE T == {r \in G.node : <<r, s>> \in Reaches(G)}
<1>3. T \in SUBSET G.node /\ T # {}
  BY <1>1, Reaching
<1>4. PICK r \in T : \A p \in T : <<p, r>> \in Reaches(G) => <<r, p>> \in Reaches(G)
  <2> HIDE DEF T
  <2> QED
    BY <1>1, <1>3, TopOf
<1>5. r \in Symbols /\ <<r, s>> \in Reaches(G)
  BY <1>1, <1>4
<1>6. CASE InDegree(G, r) = 0
  BY <1>2, <1>5, <1>6 DEF Public
<1>7. CASE InDegree(G, r) # 0
  <2>1. PICK e \in G.edge : e[2] = r
    BY <1>1, <1>5, <1>7, NoCaller
  <2> DEFINE p == e[1]
  <2>2. p \in G.node /\ <<p, r>> \in Reaches(G) /\ e = <<p, r>>
    BY <1>1, <2>1, Reaching
  <2>3. <<p, s>> \in Reaches(G)
    BY <1>1, <1>5, <2>2, Reaching
  <2>4. <<r, p>> \in Reaches(G)
    BY <1>4, <2>2, <2>3
  <2>5. CASE p = r
    BY <1>1, <1>5, <2>1, <2>2, <2>5
  <2>6. CASE p # r
    <3>1. PICK c \in StrongComponents(G) : r \in c
      BY <1>1, <1>5, StrongPartition DEF Partition
    <3>2. p \in c /\ IsFiniteSet(c)
      BY <1>1, <2>2, <2>4, <3>1, StrongPartition, FS_Subset DEF IsGraph, Partition
    <3>3. Cardinality(c) \in Nat /\ Cardinality(c) # 0 /\ Cardinality(c) # 1
      BY <2>6, <3>1, <3>2, FS_EmptySet, FS_Singleton, FS_CardinalityType
    <3> QED
      BY <1>5, <1>2a, <3>1, <3>3 DEF Clusters
  <2> QED
    BY <2>5, <2>6
<1> QED
  BY <1>6, <1>7

(* Every cluster is shown, and by cycles. *)
LEMMA ClustersMadeShow ==
  ASSUME Made
  PROVE  ClustersAreShown
<1> SUFFICES ASSUME stage = "analyzed"
             PROVE  /\ \A c \in analysis.clusters :
                         Cardinality({p \in analysis.cycles : p[1] \in c}) \in 1 .. CycleLimit
                    /\ \A p \in analysis.cycles :
                         /\ IsInjective(p) /\ p[1] = Min(Range(p))
                         /\ \A i \in DOMAIN p : <<p[i], p[(i % Len(p)) + 1]>> \in analysis.edges
  BY DEF ClustersAreShown
<1> DEFINE G == CallsGraph
<1>1. /\ G.edge = analysis.edges /\ OfSymbols(G) /\ IsGraph(G)
      /\ analysis.clusters = Clusters(G)
      /\ analysis.cycles = UNION {Representatives(G, c) : c \in Clusters(G)}
  BY CallsAreCounted, ClustersAnalyzed
<1> HIDE DEF G
<1>2. ASSUME NEW c \in Clusters(G)
      PROVE  /\ Cardinality(Representatives(G, c)) \in 1 .. CycleLimit
             /\ \A p \in Representatives(G, c) :
                  Ring(Subgraph(G, c), p) /\ p[1] = Min(Range(p)) /\ p[1] \in c
  BY <1>1, RepresentativesShow
<1>3. \A c, d \in Clusters(G) : c \cap d # {} => c = d
  BY <1>1, StrongPartition DEF Partition, Clusters
<1>4. ASSUME NEW c \in analysis.clusters
      PROVE  Cardinality({p \in analysis.cycles : p[1] \in c}) \in 1 .. CycleLimit
  <2>1. c \in Clusters(G)
    BY <1>1
  <2>2. ASSUME NEW p \in analysis.cycles, p[1] \in c PROVE p \in Representatives(G, c)
    <3>1. PICK d \in Clusters(G) : p \in Representatives(G, d)
      BY <1>1
    <3>2. p[1] \in d
      BY <1>2, <3>1
    <3>3. c = d
      BY <1>3, <2>1, <2>2, <3>2
    <3> QED
      BY <3>1, <3>3
  <2>3. ASSUME NEW p \in Representatives(G, c) PROVE p \in analysis.cycles /\ p[1] \in c
    BY <1>1, <1>2, <2>1
  <2>4. {p \in analysis.cycles : p[1] \in c} = Representatives(G, c)
    BY <2>2, <2>3
  <2> QED
    BY <1>2, <2>1, <2>4
<1>5. ASSUME NEW p \in analysis.cycles
      PROVE  /\ IsInjective(p) /\ p[1] = Min(Range(p))
             /\ \A i \in DOMAIN p : <<p[i], p[(i % Len(p)) + 1]>> \in analysis.edges
  <2>1. PICK c \in Clusters(G) : p \in Representatives(G, c)
    BY <1>1
  <2> DEFINE H == Subgraph(G, c)
             n == Len(p)
  <2>2. Ring(H, p) /\ p[1] = Min(Range(p))
    BY <1>2, <2>1
  <2>3. H.edge \subseteq analysis.edges
    <3>1. c \in SUBSET G.node
      BY <1>1, StrongPartition DEF Partition, Clusters
    <3>2. H.edge = {e \in G.edge : e[1] \in c /\ e[2] \in c}
      BY <1>1, <3>1, SubgraphIsGraph
    <3> QED
      BY <1>1, <3>2
  <2> HIDE DEF H
  <2>4. n \in Nat /\ DOMAIN p = 1 .. n
    BY <2>2, LenProperties DEF Ring
  <2>5. IsInjective(p)
    BY <2>2, <2>4 DEF IsInjective, Ring
  <2>6. ASSUME NEW i \in DOMAIN p PROVE <<p[i], p[(i % n) + 1]>> \in analysis.edges
    <3>1. i \in 1 .. n /\ (i % n) + 1 = After(i, n)
      BY <2>4, AfterIsNext
    <3>2. <<p[i], p[After(i, n)]>> \in H.edge
      BY <2>2, <3>1 DEF Ring
    <3> QED
      BY <2>3, <3>1, <3>2
  <2> QED
    BY <2>2, <2>5, <2>6
<1> QED
  BY <1>4, <1>5

(* In every state of every project the analysis is well typed, whatever no *)
(* entry reaches is below recursion or below a local or private function *)
(* that nothing calls, and every cluster of mutual recursion is shown by *)
(* one to CycleLimit cycles: DependencyAnalyzer._entry_points and *)
(* _cycle_clusters. *)
THEOREM GraphStaysExplained == Spec => []GraphIsExplained
<1>1. Made => GraphIsExplained
  BY MadeIsTyped, EntriesMadeReach, ClustersMadeShow DEF GraphIsExplained
<1> QED
  BY <1>1, SpecMakes, PTL

-----------------------------------------------------------------------------
(* Iteration. *)

(* What N turns of step make of start: the values of g, each in its V[k]. *)
Iterates(g, N, V, step, start) ==
  /\ g = [k \in 0 .. N |-> g[k]] /\ g[0] = start
  /\ \A k \in 1 .. N : g[k] = step[g[k - 1]]
  /\ \A k \in 0 .. N : g[k] \in V[k]

(* A step that leads from each V[k] to the next has such values: a *)
(* recursive function over 0 .. N has a solution. *)
LEMMA Iterated ==
  ASSUME NEW N \in Nat, NEW V, NEW step, NEW start \in V[0],
         \A k \in 1 .. N : \A x \in V[k - 1] : step[x] \in V[k]
  PROVE  \E g : Iterates(g, N, V, step, start)
<1> DEFINE Until(g, m) == /\ g = [k \in 0 .. N |-> g[k]] /\ g[0] = start /\ g[0] \in V[0]
                          /\ \A k \in 1 .. m : g[k] = step[g[k - 1]] /\ g[k] \in V[k]
           Found == {m \in Nat : m <= N => \E g : Until(g, m)}
<1>1. 0 \in Found
  <2> DEFINE g == [k \in 0 .. N |-> start]
  <2>1. Until(g, 0)
    OBVIOUS
  <2> HIDE DEF Until, g
  <2> QED
    BY <2>1
<1>2. ASSUME NEW m \in Nat, m \in Found PROVE m + 1 \in Found
  <2> SUFFICES ASSUME m + 1 <= N PROVE \E g : Until(g, m + 1)
    <3> HIDE DEF Until
    <3> QED
      OBVIOUS
  <2>1. PICK g : Until(g, m)
    <3> HIDE DEF Until
    <3> QED
      BY <1>2
  <2> DEFINE h == [k \in 0 .. N |-> IF k = m + 1 THEN step[g[m]] ELSE g[k]]
  <2>2. \A k \in 0 .. m : h[k] = g[k]
    OBVIOUS
  <2>3. h[m + 1] = step[g[m]] /\ h = [k \in 0 .. N |-> h[k]]
    OBVIOUS
  <2>4. g[m] \in V[m]
    BY <2>1
  <2>5. step[g[m]] \in V[m + 1]
    <3>1. m + 1 \in 1 .. N /\ m + 1 - 1 = m
      OBVIOUS
    <3> QED
      BY <2>4, <3>1
  <2> HIDE DEF h
  <2>6. ASSUME NEW k \in 1 .. m + 1 PROVE h[k] = step[h[k - 1]] /\ h[k] \in V[k]
    <3>1. CASE k = m + 1
      <4>1. k - 1 = m /\ m \in 0 .. m
        BY <3>1
      <4> QED
        BY <2>2, <2>3, <2>5, <3>1, <4>1
    <3>2. CASE k # m + 1
      <4>1. k \in 1 .. m /\ k \in 0 .. m /\ k - 1 \in 0 .. m
        BY <3>2
      <4> QED
        BY <2>1, <2>2, <4>1
    <3> QED
      BY <3>1, <3>2
  <2>7. Until(h, m + 1)
    <3>1. h[0] = g[0]
      BY <2>2
    <3> QED
      BY <2>1, <2>3, <2>6, <3>1
  <2> HIDE DEF Until
  <2> QED
    BY <2>7
<1>3. N \in Found
  <2> HIDE DEF Found
  <2> QED
    BY <1>1, <1>2, NatInduct
<1>4. PICK g : Until(g, N)
  <2> HIDE DEF Until
  <2> QED
    BY <1>3
<1>5. \A k \in 0 .. N : g[k] \in V[k]
  <2>1. \A k \in 0 .. N : k = 0 \/ k \in 1 .. N
    OBVIOUS
  <2> QED
    BY <1>4, <2>1
<1>6. Iterates(g, N, V, step, start)
  BY <1>4, <1>5 DEF Iterates
<1> QED
  BY <1>6

(* ... and a function that takes these steps stays in the V[k]. *)
LEMMA IterationStays ==
  ASSUME NEW N \in Nat, NEW V, NEW step, NEW K, K[0] \in V[0],
         \A k \in 1 .. N : \A x \in V[k - 1] : step[x] \in V[k],
         \A k \in 1 .. N : K[k - 1] \in V[k - 1] => K[k] = step[K[k - 1]]
  PROVE  \A k \in 0 .. N : K[k] \in V[k]
<1> DEFINE Good == {k \in Nat : k <= N => K[k] \in V[k]}
<1>1. 0 \in Good
  OBVIOUS
<1>2. ASSUME NEW k \in Nat, k \in Good PROVE k + 1 \in Good
  <2> SUFFICES ASSUME k + 1 <= N PROVE K[k + 1] \in V[k + 1]
    OBVIOUS
  <2>1. k + 1 \in 1 .. N /\ k + 1 - 1 = k /\ K[k] \in V[k]
    BY <1>2
  <2> QED
    BY <2>1
<1>3. Nat \subseteq Good
  <2> HIDE DEF Good
  <2> QED
    BY <1>1, <1>2, NatInduct
<1> QED
  BY <1>3

-----------------------------------------------------------------------------
(* The tree: sequences that grow and shrink. *)

(* The places of a sequence with one element more. *)
LEMMA Appended ==
  ASSUME NEW S, NEW s \in Seq(S), NEW x \in S
  PROVE  /\ Append(s, x) \in Seq(S) /\ Len(s) \in Nat /\ Len(Append(s, x)) = Len(s) + 1
         /\ \A i \in 1 .. Len(Append(s, x)) :
              \/ i = Len(s) + 1 /\ Append(s, x)[i] = x
              \/ i \in 1 .. Len(s) /\ Append(s, x)[i] = s[i]
         /\ \A i \in 1 .. Len(s) : i \in 1 .. Len(Append(s, x)) /\ Append(s, x)[i] = s[i]
         /\ Len(s) + 1 \in 1 .. Len(Append(s, x)) /\ Append(s, x)[Len(s) + 1] = x
<1> DEFINE t == Append(s, x)
<1>1. /\ t \in Seq(S) /\ Len(s) \in Nat /\ Len(t) = Len(s) + 1
      /\ \A i \in 1 .. Len(s) : t[i] = s[i]
      /\ t[Len(s) + 1] = x
  BY AppendProperties, LenProperties
<1> HIDE DEF t
<1>2. \A i \in 1 .. Len(t) : i = Len(s) + 1 \/ i \in 1 .. Len(s)
  BY <1>1
<1>3. \A i \in 1 .. Len(s) : i \in 1 .. Len(t)
  BY <1>1
<1>4. Len(s) + 1 \in 1 .. Len(t)
  BY <1>1
<1> QED
  BY <1>1, <1>2, <1>3, <1>4 DEF t

(* The places of a sequence without its head. *)
LEMMA Beheaded ==
  ASSUME NEW S, NEW s \in Seq(S), s # <<>>
  PROVE  /\ Tail(s) \in Seq(S) /\ Len(s) \in Nat \ {0} /\ Len(Tail(s)) = Len(s) - 1
         /\ Head(s) = s[1] /\ Head(s) \in S /\ 1 \in 1 .. Len(s)
         /\ \A i \in 1 .. Len(Tail(s)) : i + 1 \in 1 .. Len(s) /\ i + 1 # 1 /\ Tail(s)[i] = s[i + 1]
         /\ \A i \in 1 .. Len(s) : i = 1 \/ (i - 1 \in 1 .. Len(Tail(s)) /\ Tail(s)[i - 1] = s[i])
<1>1. Len(s) \in Nat \ {0}
  BY EmptySeq
<1>2. /\ Head(s) \in S /\ Tail(s) \in Seq(S) /\ Len(Tail(s)) = Len(s) - 1
      /\ \A i \in 1 .. Len(Tail(s)) : Tail(s)[i] = s[i + 1]
  BY HeadTailProperties
<1>3. Head(s) = s[1]
  OBVIOUS
<1>4. ASSUME NEW i \in 1 .. Len(s), i # 1 PROVE i - 1 \in 1 .. Len(Tail(s)) /\ Tail(s)[i - 1] = s[i]
  <2>1. i - 1 \in 1 .. Len(Tail(s)) /\ i - 1 + 1 = i
    BY <1>1, <1>2, <1>4
  <2> QED
    BY <1>2, <2>1
<1>5. \A i \in 1 .. Len(Tail(s)) : i + 1 \in 1 .. Len(s) /\ i + 1 # 1
  BY <1>1, <1>2
<1>6. 1 \in 1 .. Len(s)
  BY <1>1
<1> QED
  BY <1>1, <1>2, <1>3, <1>4, <1>5, <1>6

(* The places of two sequences joined. *)
LEMMA Joined ==
  ASSUME NEW S, NEW s \in Seq(S), NEW t \in Seq(S)
  PROVE  /\ s \o t \in Seq(S) /\ Len(s \o t) = Len(s) + Len(t) /\ Len(s) \in Nat /\ Len(t) \in Nat
         /\ \A i \in 1 .. Len(s \o t) :
              \/ i \in 1 .. Len(s) /\ (s \o t)[i] = s[i]
              \/ i > Len(s) /\ i - Len(s) \in 1 .. Len(t) /\ (s \o t)[i] = t[i - Len(s)]
         /\ \A i \in 1 .. Len(s) : i \in 1 .. Len(s \o t) /\ (s \o t)[i] = s[i]
         /\ \A i \in 1 .. Len(t) : Len(s) + i \in 1 .. Len(s \o t) /\ (s \o t)[Len(s) + i] = t[i]
<1> DEFINE u == s \o t
<1>1. /\ u \in Seq(S) /\ Len(u) = Len(s) + Len(t) /\ Len(s) \in Nat /\ Len(t) \in Nat
      /\ \A i \in 1 .. Len(s) + Len(t) : u[i] = IF i <= Len(s) THEN s[i] ELSE t[i - Len(s)]
  BY ConcatProperties, LenProperties
<1> HIDE DEF u
<1>2. ASSUME NEW i \in 1 .. Len(u)
      PROVE  \/ i \in 1 .. Len(s) /\ u[i] = s[i]
             \/ i > Len(s) /\ i - Len(s) \in 1 .. Len(t) /\ u[i] = t[i - Len(s)]
  <2>1. CASE i <= Len(s)
    <3>1. i \in 1 .. Len(s)
      BY <1>1, <2>1
    <3> QED
      BY <1>1, <2>1, <3>1
  <2>2. CASE i > Len(s)
    <3>1. i - Len(s) \in 1 .. Len(t)
      BY <1>1, <2>2
    <3> QED
      BY <1>1, <2>2, <3>1
  <2> QED
    BY <1>1, <2>1, <2>2
<1>3. \A i \in 1 .. Len(s) : i \in 1 .. Len(u) /\ u[i] = s[i]
  BY <1>1
<1>4. ASSUME NEW i \in 1 .. Len(t) PROVE Len(s) + i \in 1 .. Len(u) /\ u[Len(s) + i] = t[i]
  <2>1. Len(s) + i \in 1 .. Len(u) /\ ~(Len(s) + i <= Len(s)) /\ Len(s) + i - Len(s) = i
    BY <1>1
  <2> QED
    BY <1>1, <2>1
<1> QED
  BY <1>1, <1>2, <1>3, <1>4 DEF u

(* A set that is listed is finite and has as many elements as the list. *)
LEMMA ListingCounts ==
  ASSUME NEW S, NEW f, Listing(f, S)
  PROVE  IsFiniteSet(S) /\ Cardinality(S) = Len(f) /\ Range(f) = S
<1>1. f \in [1 .. Len(f) -> S] /\ Len(f) \in Nat
  BY LenProperties DEF Listing
<1>2. f \in Bijection(1 .. Len(f), S)
  <2>1. f \in Injection(1 .. Len(f), S)
    BY <1>1 DEF Listing, Injection, IsInjective
  <2>2. f \in Surjection(1 .. Len(f), S)
    BY <1>1 DEF Listing, Surjection
  <2> QED
    BY <2>1, <2>2 DEF Bijection
<1>3. IsFiniteSet(1 .. Len(f)) /\ Cardinality(1 .. Len(f)) = Len(f)
  <2> DEFINE n == Len(f)
  <2>1. n \in Nat
    BY <1>1
  <2> HIDE DEF n
  <2>2. IsFiniteSet(1 .. n) /\ Cardinality(1 .. n) = n
    BY <2>1, FS_Interval
  <2> QED
    BY <2>2 DEF n
<1>4. IsFiniteSet(S) /\ Cardinality(S) = Cardinality(1 .. Len(f))
  BY <1>2, <1>3, FS_Bijection DEF ExistsBijection
<1>5. Range(f) = S
  BY DEF Listing, Range
<1> QED
  BY <1>3, <1>4, <1>5

-----------------------------------------------------------------------------
(* The tree: calls. *)

(* Every call of a function in E is drawn, or is still to be drawn below *)
(* functions that lead to its caller: once. *)
BranchType(G) == [call : G.edge, path : SUBSET G.node]
DrawnType(G) == G.edge \X {"cycle", "shared", "child"}
CallsOnce(G, drawn, branches, E) ==
  /\ drawn \in Seq(DrawnType(G)) /\ branches \in Seq(BranchType(G))
  /\ \A i, j \in 1 .. Len(drawn) : drawn[i][1] = drawn[j][1] => i = j
  /\ \A i, j \in 1 .. Len(branches) : branches[i].call = branches[j].call => i = j
  /\ \A i \in 1 .. Len(drawn), j \in 1 .. Len(branches) : drawn[i][1] # branches[j].call
  /\ \A i \in 1 .. Len(drawn) : drawn[i][1][1] \in E
  /\ \A i \in 1 .. Len(branches) : branches[i].call[1] \in E
  /\ \A e \in G.edge : e[1] \in E => \/ \E i \in 1 .. Len(drawn) : drawn[i][1] = e
                                     \/ \E i \in 1 .. Len(branches) : branches[i].call = e
  /\ \A i \in 1 .. Len(branches) : \A n \in branches[i].path : <<n, branches[i].call[1]>> \in Reaches(G)
  /\ \A i \in 1 .. Len(drawn) : drawn[i][2] = "cycle" => <<drawn[i][1][2], drawn[i][1][1]>> \in Reaches(G)

(* Drawing the call at hand keeps every call once, with any mark that is *)
(* true of it. *)
LEMMA CallIsDrawn ==
  ASSUME NEW G, IsGraph(G), NEW drawn, NEW branches, NEW E, CallsOnce(G, drawn, branches, E), branches # <<>>,
         NEW mark \in {"cycle", "shared", "child"},
         mark = "cycle" => Head(branches).call[2] \in Head(branches).path
  PROVE  CallsOnce(G, Append(drawn, <<Head(branches).call, mark>>), Tail(branches), E)
<1> DEFINE D == Append(drawn, <<Head(branches).call, mark>>)
           B == Tail(branches)
           h == branches[1]
<1>1. /\ B \in Seq(BranchType(G)) /\ h \in BranchType(G) /\ Head(branches) = h /\ 1 \in 1 .. Len(branches)
      /\ \A i \in 1 .. Len(B) : i + 1 \in 1 .. Len(branches) /\ i + 1 # 1 /\ B[i] = branches[i + 1]
      /\ \A i \in 1 .. Len(branches) : i = 1 \/ (i - 1 \in 1 .. Len(B) /\ B[i - 1] = branches[i])
  <2>1. branches \in Seq(BranchType(G))
    BY DEF CallsOnce
  <2> HIDE DEF CallsOnce
  <2> QED
    BY <2>1, Beheaded
<1>2. h.call \in G.edge /\ <<h.call, mark>> \in DrawnType(G)
  <2> HIDE DEF h
  <2> QED
    BY <1>1 DEF BranchType, DrawnType
<1>3. /\ D \in Seq(DrawnType(G))
      /\ \A i \in 1 .. Len(D) : \/ i = Len(drawn) + 1 /\ D[i] = <<h.call, mark>>
                                \/ i \in 1 .. Len(drawn) /\ D[i] = drawn[i]
      /\ \A i \in 1 .. Len(drawn) : i \in 1 .. Len(D) /\ D[i] = drawn[i]
      /\ Len(drawn) + 1 \in 1 .. Len(D) /\ D[Len(drawn) + 1] = <<h.call, mark>>
  <2> DEFINE x == <<h.call, mark>>
  <2>1. drawn \in Seq(DrawnType(G))
    BY DEF CallsOnce
  <2>2. x \in DrawnType(G) /\ D = Append(drawn, x)
    BY <1>1, <1>2
  <2> HIDE DEF h, x, D
  <2>3. /\ D \in Seq(DrawnType(G))
        /\ \A i \in 1 .. Len(D) : \/ i = Len(drawn) + 1 /\ D[i] = x
                                  \/ i \in 1 .. Len(drawn) /\ D[i] = drawn[i]
        /\ \A i \in 1 .. Len(drawn) : i \in 1 .. Len(D) /\ D[i] = drawn[i]
        /\ Len(drawn) + 1 \in 1 .. Len(D) /\ D[Len(drawn) + 1] = x
    BY <2>1, <2>2, Appended
  <2> QED
    BY <2>3 DEF x
<1> HIDE DEF D, B, h
<1>4. \A i, j \in 1 .. Len(D) : D[i][1] = D[j][1] => i = j
  <2>1. \A i \in 1 .. Len(drawn) : drawn[i][1] # h.call
    BY <1>1 DEF CallsOnce, h
  <2>2. \A i, j \in 1 .. Len(drawn) : drawn[i][1] = drawn[j][1] => i = j
    BY DEF CallsOnce
  <2> QED
    BY <1>3, <2>1, <2>2
<1>5. \A i, j \in 1 .. Len(B) : B[i].call = B[j].call => i = j
  <2> SUFFICES ASSUME NEW i \in 1 .. Len(B), NEW j \in 1 .. Len(B), B[i].call = B[j].call PROVE i = j
    OBVIOUS
  <2>1. \A k, l \in 1 .. Len(branches) : branches[k].call = branches[l].call => k = l
    BY DEF CallsOnce
  <2>2. i + 1 \in 1 .. Len(branches) /\ B[i] = branches[i + 1]
    BY <1>1
  <2>3. j + 1 \in 1 .. Len(branches) /\ B[j] = branches[j + 1]
    BY <1>1
  <2>4. i + 1 = j + 1
    BY <2>1, <2>2, <2>3
  <2> QED
    BY <2>4
<1>6. \A i \in 1 .. Len(D), j \in 1 .. Len(B) : D[i][1] # B[j].call
  <2> SUFFICES ASSUME NEW i \in 1 .. Len(D), NEW j \in 1 .. Len(B) PROVE D[i][1] # B[j].call
    OBVIOUS
  <2>1. j + 1 \in 1 .. Len(branches) /\ j + 1 # 1 /\ B[j] = branches[j + 1]
    BY <1>1
  <2>2. branches[j + 1].call # h.call
    BY <1>1, <2>1 DEF CallsOnce, h
  <2>3. \A k \in 1 .. Len(drawn) : drawn[k][1] # branches[j + 1].call
    BY <2>1 DEF CallsOnce
  <2> QED
    BY <1>3, <2>1, <2>2, <2>3
<1>7. h.call[1] \in E
  BY <1>1 DEF CallsOnce, h
<1>8. \A i \in 1 .. Len(D) : D[i][1][1] \in E
  BY <1>3, <1>7 DEF CallsOnce
<1>9. \A i \in 1 .. Len(B) : B[i].call[1] \in E
  BY <1>1 DEF CallsOnce
<1>10. ASSUME NEW e \in G.edge, e[1] \in E
       PROVE  \/ \E i \in 1 .. Len(D) : D[i][1] = e
              \/ \E i \in 1 .. Len(B) : B[i].call = e
  <2>1. CASE \E i \in 1 .. Len(drawn) : drawn[i][1] = e
    BY <1>3, <2>1
  <2>2. CASE \E i \in 1 .. Len(branches) : branches[i].call = e
    <3>1. PICK i \in 1 .. Len(branches) : branches[i].call = e
      BY <2>2
    <3>2. CASE i = 1
      BY <1>3, <3>1, <3>2 DEF h
    <3>3. CASE i # 1
      BY <1>1, <3>1, <3>3
    <3> QED
      BY <3>2, <3>3
  <2> QED
    BY <1>10, <2>1, <2>2 DEF CallsOnce
<1>11. \A i \in 1 .. Len(B) : \A n \in B[i].path : <<n, B[i].call[1]>> \in Reaches(G)
  BY <1>1 DEF CallsOnce
<1>12. mark = "cycle" => <<h.call[2], h.call[1]>> \in Reaches(G)
  BY <1>1 DEF CallsOnce, h
<1>13. \A i \in 1 .. Len(D) : D[i][2] = "cycle" => <<D[i][1][2], D[i][1][1]>> \in Reaches(G)
  BY <1>3, <1>12 DEF CallsOnce
<1> QED
  BY <1>1, <1>3, <1>4, <1>5, <1>6, <1>8, <1>9, <1>10, <1>11, <1>13 DEF CallsOnce, D, B

(* The branches of n: its calls, each of them once. *)
AreBranches(G, n, path, B) ==
  /\ B \in Seq(BranchType(G)) /\ Len(B) \in Nat
  /\ \A i \in 1 .. Len(B) : B[i].path = path /\ B[i].call[1] = n /\ B[i].call \in G.edge
  /\ \A i, j \in 1 .. Len(B) : B[i].call = B[j].call => i = j
  /\ \A e \in G.edge : e[1] = n => \E i \in 1 .. Len(B) : B[i].call = e
  /\ Len(B) = Cardinality({e \in G.edge : e[1] = n})

(* BranchesOf lists the calls of a function. *)
LEMMA BranchesMeans ==
  ASSUME NEW G, OfSymbols(G), NEW n \in G.node, NEW path \in SUBSET G.node
  PROVE  AreBranches(G, n, path, BranchesOf(G, n, path))
<1> DEFINE calls_ == {e \in G.edge : e[1] = n}
           targets == {e[2] : e \in calls_}
           s == Sorted(targets)
           B == BranchesOf(G, n, path)
<1>1. \A e \in G.edge : e = <<e[1], e[2]>> /\ e[1] \in G.node /\ e[2] \in G.node
  BY Reaching DEF OfSymbols
<1>2. targets \in SUBSET G.node /\ targets \in SUBSET Int /\ IsFiniteSet(targets)
  <2>1. targets \in SUBSET G.node
    BY <1>1
  <2> HIDE DEF targets
  <2>2. IsFiniteSet(targets)
    BY <2>1, FS_Subset DEF OfSymbols, IsGraph
  <2> QED
    BY <2>1, <2>2 DEF OfSymbols
<1>3. Listing(s, targets)
  <2> HIDE DEF targets
  <2> QED
    BY <1>2, SortedIsListing
<1>4. /\ Len(s) \in Nat /\ DOMAIN s = 1 .. Len(s) /\ \A i \in 1 .. Len(s) : s[i] \in targets
      /\ \A i, j \in 1 .. Len(s) : s[i] = s[j] => i = j
      /\ \A t \in targets : \E i \in 1 .. Len(s) : s[i] = t
  <2> HIDE DEF targets, s
  <2> QED
    BY <1>3 DEF Listing
<1>5. B = [i \in 1 .. Len(s) |-> [call |-> <<n, s[i]>>, path |-> path]]
  BY <1>4 DEF BranchesOf
<1>6. \A t : t \in targets <=> <<n, t>> \in G.edge
  BY <1>1
<1> HIDE DEF B, s, targets
<1>7. \A i \in 1 .. Len(s) : B[i].path = path /\ B[i].call = <<n, s[i]>> /\ <<n, s[i]>> \in G.edge
                             /\ B[i] \in BranchType(G)
  BY <1>4, <1>5, <1>6 DEF BranchType
<1>8. B \in [1 .. Len(s) -> BranchType(G)]
  BY <1>5, <1>7
<1>9. B \in Seq(BranchType(G)) /\ Len(B) = Len(s)
  <2>1. B \in Seq(BranchType(G))
    BY <1>4, <1>8, SeqDef
  <2>2. B \in [1 .. Len(B) -> BranchType(G)] /\ Len(B) \in Nat
    BY <2>1, LenProperties
  <2>3. 1 .. Len(s) = 1 .. Len(B)
    BY <1>8, <2>2
  <2> DEFINE n1 == Len(B)
             n2 == Len(s)
  <2>4. n1 \in Nat /\ n2 \in Nat /\ 1 .. n1 = 1 .. n2
    BY <1>4, <2>2, <2>3
  <2> HIDE DEF n1, n2
  <2>5. n1 = n2
    BY <2>4
  <2> QED
    BY <2>1, <2>5 DEF n1, n2
<1>10. \A e \in calls_ : \E i \in 1 .. Len(B) : B[i].call = e
  BY <1>1, <1>4, <1>6, <1>7, <1>9
<1>11. \A i, j \in 1 .. Len(B) : B[i].call = B[j].call => i = j
  <2> SUFFICES ASSUME NEW i \in 1 .. Len(B), NEW j \in 1 .. Len(B), B[i].call = B[j].call PROVE i = j
    OBVIOUS
  <2>1. i \in 1 .. Len(s) /\ j \in 1 .. Len(s)
    BY <1>9
  <2>2. <<n, s[i]>> = <<n, s[j]>>
    BY <1>7, <2>1
  <2>3. s[i] = s[j]
    BY <2>2
  <2> QED
    BY <1>4, <2>1, <2>3
<1> DEFINE C == [i \in 1 .. Len(B) |-> B[i].call]
<1>12. C \in [1 .. Len(B) -> calls_]
  <2>1. \A i \in 1 .. Len(B) : B[i].call \in calls_
    <3>1. ASSUME NEW i \in 1 .. Len(B) PROVE B[i].call \in G.edge /\ B[i].call[1] = n
      <4>1. B[i].call = <<n, s[i]>> /\ <<n, s[i]>> \in G.edge
        BY <1>7, <1>9
      <4> QED
        BY <4>1
    <3> QED
      BY <3>1
  <2> HIDE DEF calls_
  <2> QED
    BY <2>1
<1>13. Listing(C, calls_) /\ Len(C) = Len(B)
  <2>1. Len(B) \in Nat
    BY <1>4, <1>9
  <2>2. \A i \in 1 .. Len(B) : C[i] = B[i].call
    OBVIOUS
  <2> HIDE DEF C, calls_
  <2>3. \A i, j \in 1 .. Len(B) : C[i] = C[j] => i = j
    BY <1>11, <2>2
  <2>4. \A e \in calls_ : \E i \in 1 .. Len(B) : C[i] = e
    BY <1>10, <2>2
  <2> QED
    BY <1>12, <2>1, <2>3, <2>4, IsListing
<1>14. Len(B) = Cardinality(calls_)
  <2> HIDE DEF C, calls_
  <2> QED
    BY <1>13, ListingCounts
<1>15. \A i \in 1 .. Len(B) : B[i].path = path /\ B[i].call[1] = n /\ B[i].call \in G.edge
  <2>1. \A i \in 1 .. Len(B) : B[i].path = path /\ B[i].call = <<n, s[i]>> /\ B[i].call \in G.edge
    BY <1>7, <1>9
  <2> QED
    BY <2>1
<1>16. Len(B) \in Nat
  BY <1>4, <1>9
<1> QED
  BY <1>9, <1>10, <1>11, <1>14, <1>15, <1>16 DEF AreBranches, B

(* Expanding a function adds its calls, which no function expanded before *)
(* has. *)
LEMMA CallsAreAdded ==
  ASSUME NEW G, OfSymbols(G), NEW drawn, NEW branches, NEW E, CallsOnce(G, drawn, branches, E),
         NEW n \in G.node, n \notin E, NEW path \in SUBSET G.node, \A p \in path : <<p, n>> \in Reaches(G)
  PROVE  CallsOnce(G, drawn, BranchesOf(G, n, path) \o branches, E \cup {n})
<1> DEFINE N == BranchesOf(G, n, path)
           B == N \o branches
<1>1. /\ N \in Seq(BranchType(G)) /\ Len(N) \in Nat
      /\ \A i \in 1 .. Len(N) : N[i].path = path /\ N[i].call[1] = n /\ N[i].call \in G.edge
      /\ \A i, j \in 1 .. Len(N) : N[i].call = N[j].call => i = j
      /\ \A e \in G.edge : e[1] = n => \E i \in 1 .. Len(N) : N[i].call = e
  <2>1. AreBranches(G, n, path, N)
    BY BranchesMeans
  <2> QED
    BY <2>1 DEF AreBranches
<1> HIDE DEF N
<1>2. /\ B \in Seq(BranchType(G)) /\ Len(branches) \in Nat
      /\ \A i \in 1 .. Len(B) :
           \/ i \in 1 .. Len(N) /\ B[i] = N[i]
           \/ i > Len(N) /\ i - Len(N) \in 1 .. Len(branches) /\ B[i] = branches[i - Len(N)]
      /\ \A i \in 1 .. Len(N) : i \in 1 .. Len(B) /\ B[i] = N[i]
      /\ \A i \in 1 .. Len(branches) : Len(N) + i \in 1 .. Len(B) /\ B[Len(N) + i] = branches[i]
  BY <1>1, Joined DEF CallsOnce
<1> HIDE DEF B
<1>3. \A i \in 1 .. Len(branches) : branches[i].call[1] \in E
  BY DEF CallsOnce
<1>4. ASSUME NEW i \in 1 .. Len(B), NEW j \in 1 .. Len(B), B[i].call = B[j].call PROVE i = j
  <2>1. CASE i \in 1 .. Len(N) /\ B[i] = N[i]
    <3>1. B[j].call[1] = n
      BY <1>1, <1>4, <2>1
    <3>2. j \in 1 .. Len(N) /\ B[j] = N[j]
      BY <1>2, <1>3, <3>1
    <3> QED
      BY <1>1, <1>4, <2>1, <3>2
  <2>2. CASE i > Len(N) /\ i - Len(N) \in 1 .. Len(branches) /\ B[i] = branches[i - Len(N)]
    <3>1. B[j].call[1] \in E
      BY <1>3, <1>4, <2>2
    <3>2. j > Len(N) /\ j - Len(N) \in 1 .. Len(branches) /\ B[j] = branches[j - Len(N)]
      BY <1>1, <1>2, <3>1
    <3>3. i - Len(N) = j - Len(N)
      BY <1>4, <2>2, <3>2 DEF CallsOnce
    <3> QED
      BY <1>1, <3>3
  <2> QED
    BY <1>2, <2>1, <2>2
<1>5. \A i \in 1 .. Len(drawn), j \in 1 .. Len(B) : drawn[i][1] # B[j].call
  <2> SUFFICES ASSUME NEW i \in 1 .. Len(drawn), NEW j \in 1 .. Len(B) PROVE drawn[i][1] # B[j].call
    OBVIOUS
  <2>1. drawn[i][1][1] \in E /\ \A k \in 1 .. Len(branches) : drawn[i][1] # branches[k].call
    BY DEF CallsOnce
  <2>2. n # drawn[i][1][1]
    BY <2>1
  <2>3. CASE j \in 1 .. Len(N) /\ B[j] = N[j]
    <3>1. B[j].call[1] = n
      BY <1>1, <2>3
    <3> QED
      BY <2>2, <3>1
  <2>4. CASE j > Len(N) /\ j - Len(N) \in 1 .. Len(branches) /\ B[j] = branches[j - Len(N)]
    BY <2>1, <2>4
  <2> QED
    BY <1>2, <2>3, <2>4
<1>6. ASSUME NEW i \in 1 .. Len(B) PROVE B[i].call[1] \in E \cup {n}
  <2>1. CASE i \in 1 .. Len(N) /\ B[i] = N[i]
    <3>1. N[i].call[1] = n
      BY <1>1, <2>1
    <3> QED
      BY <2>1, <3>1
  <2>2. CASE i - Len(N) \in 1 .. Len(branches) /\ B[i] = branches[i - Len(N)]
    <3>1. branches[i - Len(N)].call[1] \in E
      BY <1>3, <2>2
    <3> QED
      BY <2>2, <3>1
  <2> QED
    BY <1>2, <2>1, <2>2
<1>7. ASSUME NEW e \in G.edge, e[1] \in E \cup {n}
      PROVE  \/ \E i \in 1 .. Len(drawn) : drawn[i][1] = e
             \/ \E i \in 1 .. Len(B) : B[i].call = e
  <2>1. CASE e[1] = n
    <3>1. PICK i \in 1 .. Len(N) : N[i].call = e
      BY <1>1, <2>1
    <3>2. i \in 1 .. Len(B) /\ B[i] = N[i]
      BY <1>2
    <3> QED
      BY <3>1, <3>2
  <2>2. CASE e[1] \in E
    <3>1. \/ \E i \in 1 .. Len(drawn) : drawn[i][1] = e
          \/ \E i \in 1 .. Len(branches) : branches[i].call = e
      BY <2>2 DEF CallsOnce
    <3>2. ASSUME NEW i \in 1 .. Len(branches), branches[i].call = e PROVE \E k \in 1 .. Len(B) : B[k].call = e
      <4>1. Len(N) + i \in 1 .. Len(B) /\ B[Len(N) + i].call = e
        BY <1>2, <3>2
      <4> QED
        BY <4>1
    <3> QED
      BY <3>1, <3>2
  <2> QED
    BY <1>7, <2>1, <2>2
<1>8. \A i \in 1 .. Len(B) : \A p \in B[i].path : <<p, B[i].call[1]>> \in Reaches(G)
  <2>1. \A i \in 1 .. Len(branches) : \A p \in branches[i].path : <<p, branches[i].call[1]>> \in Reaches(G)
    BY DEF CallsOnce
  <2> SUFFICES ASSUME NEW i \in 1 .. Len(B), NEW p \in B[i].path PROVE <<p, B[i].call[1]>> \in Reaches(G)
    OBVIOUS
  <2>2. CASE i \in 1 .. Len(N) /\ B[i] = N[i]
    <3>1. B[i].path = path /\ B[i].call[1] = n
      BY <1>1, <2>2
    <3> QED
      BY <3>1
  <2>3. CASE i > Len(N) /\ i - Len(N) \in 1 .. Len(branches) /\ B[i] = branches[i - Len(N)]
    BY <2>1, <2>3
  <2> QED
    BY <1>2, <2>2, <2>3
<1>9. \A i \in 1 .. Len(drawn) : drawn[i][1][1] \in E \cup {n}
  BY DEF CallsOnce
<1> QED
  BY <1>2, <1>4, <1>5, <1>6, <1>7, <1>8, <1>9 DEF CallsOnce, B, N

-----------------------------------------------------------------------------
(* The tree: functions, and its turns. *)

(* Every function of E is expanded once: as a root, or as a child. *)
ExpandedOnce(roots, drawn, E) ==
  /\ \A i \in 1 .. Len(roots) : roots[i] \in E
  /\ \A i, j \in 1 .. Len(roots) : roots[i] = roots[j] => i = j
  /\ \A i \in 1 .. Len(drawn) : drawn[i][2] = "child" => drawn[i][1][2] \in E
  /\ \A i, j \in 1 .. Len(drawn) :
       drawn[i][2] = "child" /\ drawn[j][2] = "child" /\ drawn[i][1][2] = drawn[j][1][2] => i = j
  /\ \A i \in 1 .. Len(roots), j \in 1 .. Len(drawn) : drawn[j][2] = "child" => roots[i] # drawn[j][1][2]
  /\ \A n \in E : \/ \E i \in 1 .. Len(roots) : roots[i] = n
                  \/ \E i \in 1 .. Len(drawn) : drawn[i][2] = "child" /\ drawn[i][1][2] = n

(* A root not expanded before is expanded once. *)
LEMMA RootIsExpanded ==
  ASSUME NEW S, NEW roots \in Seq(S), NEW drawn, NEW E, ExpandedOnce(roots, drawn, E), NEW n \in S, n \notin E
  PROVE  ExpandedOnce(Append(roots, n), drawn, E \cup {n})
<1> DEFINE R == Append(roots, n)
<1>1. /\ \A i \in 1 .. Len(R) : \/ i = Len(roots) + 1 /\ R[i] = n
                                \/ i \in 1 .. Len(roots) /\ R[i] = roots[i]
      /\ \A i \in 1 .. Len(roots) : i \in 1 .. Len(R) /\ R[i] = roots[i]
      /\ Len(roots) + 1 \in 1 .. Len(R) /\ R[Len(roots) + 1] = n
  <2> HIDE DEF ExpandedOnce
  <2> QED
    BY Appended
<1> HIDE DEF R
<1>2. \A i \in 1 .. Len(R) : R[i] \in E \cup {n}
  BY <1>1 DEF ExpandedOnce
<1>3. \A i, j \in 1 .. Len(R) : R[i] = R[j] => i = j
  <2>1. \A i \in 1 .. Len(roots) : roots[i] # n
    BY DEF ExpandedOnce
  <2>2. \A i, j \in 1 .. Len(roots) : roots[i] = roots[j] => i = j
    BY DEF ExpandedOnce
  <2> QED
    BY <1>1, <2>1, <2>2
<1>4. \A i \in 1 .. Len(R), j \in 1 .. Len(drawn) : drawn[j][2] = "child" => R[i] # drawn[j][1][2]
  <2>1. \A j \in 1 .. Len(drawn) : drawn[j][2] = "child" => drawn[j][1][2] # n
    BY DEF ExpandedOnce
  <2>2. \A i \in 1 .. Len(roots), j \in 1 .. Len(drawn) : drawn[j][2] = "child" => roots[i] # drawn[j][1][2]
    BY DEF ExpandedOnce
  <2> QED
    BY <1>1, <2>1, <2>2
<1>5. \A m \in E \cup {n} : \/ \E i \in 1 .. Len(R) : R[i] = m
                            \/ \E i \in 1 .. Len(drawn) : drawn[i][2] = "child" /\ drawn[i][1][2] = m
  BY <1>1 DEF ExpandedOnce
<1>6. /\ \A i \in 1 .. Len(drawn) : drawn[i][2] = "child" => drawn[i][1][2] \in E \cup {n}
      /\ \A i, j \in 1 .. Len(drawn) :
           drawn[i][2] = "child" /\ drawn[j][2] = "child" /\ drawn[i][1][2] = drawn[j][1][2] => i = j
  BY DEF ExpandedOnce
<1> QED
  BY <1>2, <1>3, <1>4, <1>5, <1>6 DEF ExpandedOnce, R

(* A call is drawn: with the mark "child" it expands a function. *)
LEMMA CallIsMarked ==
  ASSUME NEW S, NEW roots, NEW drawn \in Seq(S), NEW E, ExpandedOnce(roots, drawn, E),
         NEW b \in S, NEW F,
         \/ b[2] # "child" /\ F = E
         \/ b[2] = "child" /\ b[1][2] \notin E /\ F = E \cup {b[1][2]}
  PROVE  ExpandedOnce(roots, Append(drawn, b), F)
<1> DEFINE D == Append(drawn, b)
           Child(x) == x[2] = "child"
           Of(x) == x[1][2]
<1>1. /\ \A i \in 1 .. Len(D) : \/ i = Len(drawn) + 1 /\ D[i] = b
                                \/ i \in 1 .. Len(drawn) /\ D[i] = drawn[i]
      /\ \A i \in 1 .. Len(drawn) : i \in 1 .. Len(D) /\ D[i] = drawn[i]
      /\ Len(drawn) + 1 \in 1 .. Len(D) /\ D[Len(drawn) + 1] = b
  <2> HIDE DEF ExpandedOnce
  <2> QED
    BY Appended
<1>2. E \subseteq F /\ \A n \in F : n \in E \/ (Child(b) /\ n = Of(b))
  OBVIOUS
<1>3. Child(b) => Of(b) \notin E /\ Of(b) \in F
  OBVIOUS
<1>4. /\ \A i \in 1 .. Len(roots) : roots[i] \in E
      /\ \A i, j \in 1 .. Len(roots) : roots[i] = roots[j] => i = j
      /\ \A i \in 1 .. Len(drawn) : Child(drawn[i]) => Of(drawn[i]) \in E
      /\ \A i, j \in 1 .. Len(drawn) : Child(drawn[i]) /\ Child(drawn[j]) /\ Of(drawn[i]) = Of(drawn[j]) => i = j
      /\ \A i \in 1 .. Len(roots), j \in 1 .. Len(drawn) : Child(drawn[j]) => roots[i] # Of(drawn[j])
      /\ \A n \in E : \/ \E i \in 1 .. Len(roots) : roots[i] = n
                      \/ \E i \in 1 .. Len(drawn) : Child(drawn[i]) /\ Of(drawn[i]) = n
  BY DEF ExpandedOnce
<1> HIDE DEF D, Child, Of
<1>5. \A i \in 1 .. Len(roots) : roots[i] \in F
  BY <1>2, <1>4
<1>6. \A i \in 1 .. Len(D) : Child(D[i]) => Of(D[i]) \in F
  BY <1>1, <1>2, <1>3, <1>4
<1>7. \A i, j \in 1 .. Len(D) : Child(D[i]) /\ Child(D[j]) /\ Of(D[i]) = Of(D[j]) => i = j
  <2>1. \A i \in 1 .. Len(drawn) : Child(b) /\ Child(drawn[i]) => Of(drawn[i]) # Of(b)
    BY <1>3, <1>4
  <2> QED
    BY <1>1, <1>4, <2>1
<1>8. \A i \in 1 .. Len(roots), j \in 1 .. Len(D) : Child(D[j]) => roots[i] # Of(D[j])
  <2>1. \A i \in 1 .. Len(roots) : Child(b) => roots[i] # Of(b)
    BY <1>3, <1>4
  <2> QED
    BY <1>1, <1>4, <2>1
<1>9. ASSUME NEW n \in F
      PROVE  \/ \E i \in 1 .. Len(roots) : roots[i] = n
             \/ \E i \in 1 .. Len(D) : Child(D[i]) /\ Of(D[i]) = n
  <2>1. CASE n \in E
    BY <1>1, <1>4, <2>1
  <2>2. CASE Child(b) /\ n = Of(b)
    BY <1>1, <2>2
  <2> QED
    BY <1>2, <2>1, <2>2
<1>10. \A i, j \in 1 .. Len(roots) : roots[i] = roots[j] => i = j
  BY <1>4
<1> QED
  BY <1>5, <1>6, <1>7, <1>8, <1>9, <1>10 DEF ExpandedOnce, D, Child, Of

(* The calls of the functions that are still to be expanded. *)
CallsLeft(G, E) == Cardinality({e \in G.edge : e[1] \notin E})

(* A graph has finitely many calls. *)
LEMMA EdgesAreFinite ==
  ASSUME NEW G, IsGraph(G)
  PROVE  IsFiniteSet(G.edge) /\ \A S \in SUBSET G.edge : IsFiniteSet(S) /\ Cardinality(S) \in Nat
<1>1. IsFiniteSet(G.node \X G.node)
  BY FS_Product DEF IsGraph
<1>2. IsFiniteSet(G.edge)
  BY <1>1, FS_Subset DEF IsGraph
<1> QED
  BY <1>2, FS_Subset, FS_CardinalityType

(* Expanding a function leaves that many calls less to be expanded. *)
LEMMA CallsLeftFall ==
  ASSUME NEW G, IsGraph(G), NEW E, NEW n, n \notin E
  PROVE  /\ CallsLeft(G, E) \in Nat /\ CallsLeft(G, E \cup {n}) \in Nat
         /\ CallsLeft(G, E) = CallsLeft(G, E \cup {n}) + Cardinality({e \in G.edge : e[1] = n})
<1> DEFINE A == {e \in G.edge : e[1] \notin E}
           B == {e \in G.edge : e[1] \notin E \cup {n}}
           C == {e \in G.edge : e[1] = n}
<1>1. A = B \cup C /\ B \cap C = {} /\ A \in SUBSET G.edge /\ B \in SUBSET G.edge /\ C \in SUBSET G.edge
  OBVIOUS
<1>2. A = {e \in G.edge : e[1] \notin E} /\ B = {e \in G.edge : e[1] \notin E \cup {n}} /\ C = {e \in G.edge : e[1] = n}
  OBVIOUS
<1> HIDE DEF A, B, C
<1>3. /\ IsFiniteSet(B) /\ IsFiniteSet(C)
      /\ Cardinality(A) \in Nat /\ Cardinality(B) \in Nat /\ Cardinality(C) \in Nat
  BY <1>1, EdgesAreFinite
<1>4. Cardinality(B \cap C) = 0
  BY <1>1, FS_EmptySet
<1>5. Cardinality(A) = Cardinality(B) + Cardinality(C) - Cardinality(B \cap C)
  BY <1>1, <1>3, FS_Union
<1>6. Cardinality(A) = Cardinality(B) + Cardinality(C)
  BY <1>3, <1>4, <1>5
<1> QED
  BY <1>2, <1>3, <1>6 DEF CallsLeft

(* The inductive invariant of the turns of Tree, and how many are left. *)
TreeStates(G) == [roots : Seq(G.node), drawn : Seq(DrawnType(G)), expanded : SUBSET G.node,
                  branches : Seq(BranchType(G)), ahead : Seq(G.node)]
TreeHolds(G, t) ==
  /\ t \in TreeStates(G)
  /\ CallsOnce(G, t.drawn, t.branches, t.expanded)
  /\ ExpandedOnce(t.roots, t.drawn, t.expanded)
  /\ \A n \in G.node : n \in t.expanded \/ \E i \in 1 .. Len(t.ahead) : t.ahead[i] = n
TurnsLeft(G, t) == Len(t.branches) + Len(t.ahead) + CallsLeft(G, t.expanded)

(* The states of a tree field by field, as its steps change them. *)
TreeOf(r, p, q, v, w) == [roots |-> r, drawn |-> p, expanded |-> q, branches |-> v, ahead |-> w]
Taken(t, x, y) == [t EXCEPT !.branches = x, !.drawn = y]
Spread(t, x, y) == [t EXCEPT !.expanded = x, !.branches = y]
Past(t, x) == [t EXCEPT !.ahead = x]
Rooted(t, x) == [t EXCEPT !.roots = x]

(* What a step that changes two fields of a tree leaves of it. *)
LEMMA TreeChanges ==
  ASSUME NEW t, NEW a, NEW b, NEW c, NEW d, NEW e, NEW x, NEW y, t = TreeOf(a, b, c, d, e)
  PROVE  /\ Taken(t, x, y) = TreeOf(a, y, c, x, e)
         /\ Spread(t, x, y) = TreeOf(a, b, x, y, e)
<1> USE DEF Taken, Spread, TreeOf
<1> DEFINE u == [t EXCEPT !.branches = x]
           v == [t EXCEPT !.expanded = x]
<1>1. u = TreeOf(a, b, c, x, e) /\ v = TreeOf(a, b, x, d, e)
  OBVIOUS
<1>2. [t EXCEPT !.branches = x, !.drawn = y] = [u EXCEPT !.drawn = y]
  OBVIOUS
<1>3. [t EXCEPT !.expanded = x, !.branches = y] = [v EXCEPT !.branches = y]
  OBVIOUS
<1> HIDE DEF u, v
<1>4. [u EXCEPT !.drawn = y] = TreeOf(a, y, c, x, e) /\ [v EXCEPT !.branches = y] = TreeOf(a, b, x, y, e)
  BY <1>1
<1> QED
  BY <1>2, <1>3, <1>4

(* What a step that changes one field of a tree leaves of it. *)
LEMMA TreeMoves ==
  ASSUME NEW t, NEW a, NEW b, NEW c, NEW d, NEW e, NEW x, t = TreeOf(a, b, c, d, e)
  PROVE  /\ Past(t, x) = TreeOf(a, b, c, d, x)
         /\ Rooted(t, x) = TreeOf(x, b, c, d, e)
  BY DEF Past, Rooted, TreeOf

(* A branch or a root is drawn: one turn less is left. *)
LEMMA BranchGoesOn ==
  ASSUME NEW G, OfSymbols(G), NEW t, TreeHolds(G, t), t.branches # <<>>
  PROVE  TreeHolds(G, Branch(G, t)) /\ TurnsLeft(G, Branch(G, t)) = TurnsLeft(G, t) - 1
<1> DEFINE h == Head(t.branches)
           call == h.call
           target == call[2]
           B == Tail(t.branches)
<1>1. /\ t.roots \in Seq(G.node) /\ t.drawn \in Seq(DrawnType(G)) /\ t.expanded \in SUBSET G.node
      /\ t.branches \in Seq(BranchType(G)) /\ t.ahead \in Seq(G.node)
  BY DEF TreeHolds, TreeStates
<1>2. /\ CallsOnce(G, t.drawn, t.branches, t.expanded) /\ ExpandedOnce(t.roots, t.drawn, t.expanded)
      /\ \A n \in G.node : n \in t.expanded \/ \E i \in 1 .. Len(t.ahead) : t.ahead[i] = n
  BY DEF TreeHolds
<1>3. /\ B \in Seq(BranchType(G)) /\ h \in BranchType(G) /\ h = t.branches[1] /\ 1 \in 1 .. Len(t.branches)
      /\ Len(t.branches) \in Nat \ {0} /\ Len(B) = Len(t.branches) - 1
  <2> HIDE DEF TreeHolds
  <2> QED
    BY <1>1, Beheaded
<1>4. /\ call \in G.edge /\ call = <<call[1], target>> /\ target \in G.node /\ call[1] \in G.node
      /\ h.path \in SUBSET G.node
  <2>1. call \in G.edge /\ h.path \in SUBSET G.node
    <3> HIDE DEF h
    <3> QED
      BY <1>3 DEF BranchType
  <2>2. \A e \in G.edge : e = <<e[1], e[2]>> /\ e[1] \in G.node /\ e[2] \in G.node
    BY Reaching DEF OfSymbols
  <2> HIDE DEF call
  <2> QED
    BY <2>1, <2>2
<1>5. \A n \in h.path : <<n, call[1]>> \in Reaches(G)
  BY <1>2, <1>3 DEF CallsOnce
<1>6. Len(t.ahead) \in Nat /\ CallsLeft(G, t.expanded) \in Nat
  <2>1. {e \in G.edge : e[1] \notin t.expanded} \in SUBSET G.edge
    OBVIOUS
  <2> QED
    BY <1>1, <2>1, EdgesAreFinite, LenProperties DEF CallsLeft, OfSymbols
<1>7. t = TreeOf(t.roots, t.drawn, t.expanded, t.branches, t.ahead)
  BY DEF TreeHolds, TreeStates, TreeOf
<1> DEFINE D(m) == Append(t.drawn, <<call, m>>)
           Marked_(m) == TreeOf(t.roots, D(m), t.expanded, B, t.ahead)
<1>8. \A m : Drawn(t, m) = Marked_(m)
  <2> SUFFICES ASSUME NEW m PROVE Drawn(t, m) = Marked_(m)
    OBVIOUS
  <2>1. Drawn(t, m) = Taken(t, Tail(t.branches), Append(t.drawn, <<Head(t.branches).call, m>>))
    BY DEF Drawn, Taken
  <2> HIDE DEF TreeHolds
  <2> QED
    BY <1>7, <2>1, TreeChanges
<1>9. ASSUME NEW m \in {"cycle", "shared", "child"}, m = "cycle" => target \in h.path
      PROVE  /\ CallsOnce(G, D(m), B, t.expanded) /\ D(m) \in Seq(DrawnType(G))
             /\ <<call, m>> \in DrawnType(G)
  <2>1. CallsOnce(G, D(m), B, t.expanded)
    <3> HIDE DEF CallsOnce, TreeHolds
    <3> QED
      BY <1>2, <1>9, CallIsDrawn DEF OfSymbols
  <2>2. <<call, m>> \in DrawnType(G)
    <3> HIDE DEF call, h
    <3> QED
      BY <1>4 DEF DrawnType
  <2> QED
    BY <2>1, <2>2 DEF CallsOnce
<1> HIDE DEF TreeHolds
<1>10. ASSUME NEW m \in {"cycle", "shared"}, m = "cycle" => target \in h.path
       PROVE  TreeHolds(G, Marked_(m)) /\ TurnsLeft(G, Marked_(m)) = TurnsLeft(G, t) - 1
  <2> DEFINE u == Marked_(m)
             C == D(m)
             b == <<call, m>>
  <2>1. CallsOnce(G, C, B, t.expanded) /\ C \in Seq(DrawnType(G)) /\ b \in DrawnType(G)
    BY <1>9, <1>10
  <2>2. b[2] # "child" /\ C = Append(t.drawn, b)
    BY <1>10
  <2> HIDE DEF b, C
  <2>3. ExpandedOnce(t.roots, C, t.expanded)
    BY <1>1, <1>2, <2>1, <2>2, CallIsMarked
  <2>4. u = TreeOf(t.roots, C, t.expanded, B, t.ahead)
    BY DEF C
  <2> HIDE DEF u, B
  <2>5. u.roots = t.roots /\ u.drawn = C /\ u.expanded = t.expanded /\ u.branches = B /\ u.ahead = t.ahead
    BY <2>4 DEF TreeOf
  <2>6. u \in TreeStates(G)
    BY <1>1, <1>3, <2>1, <2>4 DEF TreeStates, TreeOf
  <2>7. TreeHolds(G, u)
    BY <1>2, <2>1, <2>3, <2>5, <2>6 DEF TreeHolds
  <2>8. TurnsLeft(G, u) = Len(B) + Len(t.ahead) + CallsLeft(G, t.expanded)
    BY <2>5 DEF TurnsLeft
  <2>9. TurnsLeft(G, u) = TurnsLeft(G, t) - 1
    <3> DEFINE x == Len(t.branches)
               y == Len(t.ahead)
               z == CallsLeft(G, t.expanded)
    <3>1. TurnsLeft(G, t) = x + y + z /\ TurnsLeft(G, u) = x - 1 + y + z /\ x \in Nat /\ y \in Nat /\ z \in Nat
      BY <1>3, <1>6, <2>8 DEF TurnsLeft
    <3> HIDE DEF x, y, z
    <3> QED
      BY <3>1
  <2> QED
    BY <2>7, <2>9 DEF u
<1> DEFINE path == h.path \cup {target}
           N == BranchesOf(G, target, path)
           E == t.expanded \cup {target}
           F == D("child")
           u == TreeOf(t.roots, F, E, N \o B, t.ahead)
<1>11. Expanded(G, Drawn(t, "child"), target, h.path) = u
  <2> DEFINE w == Drawn(t, "child")
  <2>1. w = TreeOf(t.roots, F, t.expanded, B, t.ahead)
    BY <1>8
  <2> HIDE DEF w, F, B
  <2>2. w.expanded = t.expanded /\ w.branches = B
    BY <2>1 DEF TreeOf
  <2>3. Expanded(G, w, target, h.path) = Spread(w, w.expanded \cup {target}, N \o w.branches)
    BY DEF Expanded, Spread
  <2> HIDE DEF N, target
  <2>4. Expanded(G, w, target, h.path) = u
    <3>1. Spread(w, E, N \o B) = TreeOf(t.roots, F, E, N \o B, t.ahead)
      BY <2>1, TreeChanges
    <3> QED
      BY <2>2, <2>3, <3>1
  <2> QED
    BY <2>4 DEF w
<1>12. ASSUME target \notin t.expanded
       PROVE  TreeHolds(G, u) /\ TurnsLeft(G, u) = TurnsLeft(G, t) - 1
  <2> DEFINE b == <<call, "child">>
  <2>1. CallsOnce(G, F, B, t.expanded) /\ F \in Seq(DrawnType(G)) /\ b \in DrawnType(G)
    BY <1>9
  <2>2. b[2] = "child" /\ b[1][2] = target /\ F = Append(t.drawn, b)
    OBVIOUS
  <2>3. path \in SUBSET G.node /\ target \in G.node /\ OfSymbols(G)
    BY <1>4
  <2>4. \A p \in path : <<p, target>> \in Reaches(G)
    <3>1. <<call[1], target>> \in Reaches(G) /\ <<target, target>> \in Reaches(G)
      BY <1>4, Reaching DEF OfSymbols
    <3>2. \A l, m, n : <<l, m>> \in Reaches(G) /\ <<m, n>> \in Reaches(G) => <<l, n>> \in Reaches(G)
      BY Reaching DEF OfSymbols
    <3> HIDE DEF target, call, h
    <3> QED
      BY <1>5, <3>1, <3>2
  <2>5. u.roots = t.roots /\ u.drawn = F /\ u.expanded = E /\ u.branches = N \o B /\ u.ahead = t.ahead
    <3> HIDE DEF F, E, N, B
    <3> QED
      BY DEF TreeOf
  <2> HIDE DEF b, F, path, target
  <2>6. ExpandedOnce(t.roots, F, E)
    BY <1>1, <1>2, <1>12, <2>1, <2>2, CallIsMarked
  <2>7. CallsOnce(G, F, N \o B, E)
    BY <1>12, <2>1, <2>3, <2>4, CallsAreAdded
  <2>8. AreBranches(G, target, path, N)
    BY <2>3, BranchesMeans
  <2>9. N \o B \in Seq(BranchType(G)) /\ Len(N \o B) = Len(N) + Len(B) /\ Len(N) = Cardinality({e \in G.edge : e[1] = target})
        /\ Len(N) \in Nat
    <3>1. N \in Seq(BranchType(G)) /\ Len(N) = Cardinality({e \in G.edge : e[1] = target}) /\ Len(N) \in Nat
      BY <2>8 DEF AreBranches
    <3> HIDE DEF N, B
    <3> QED
      BY <1>3, <3>1, Joined
  <2> HIDE DEF N, B
  <2>10. u \in TreeStates(G)
    BY <1>1, <2>1, <2>3, <2>9 DEF TreeStates, TreeOf
  <2> HIDE DEF u
  <2>11. \A n \in G.node : n \in E \/ \E i \in 1 .. Len(t.ahead) : t.ahead[i] = n
    BY <1>2
  <2> HIDE DEF E
  <2>12. TreeHolds(G, u)
    BY <2>5, <2>6, <2>7, <2>10, <2>11 DEF TreeHolds
  <2>13. TurnsLeft(G, u) = TurnsLeft(G, t) - 1
    <3> DEFINE x == Len(t.branches)
               y == Len(t.ahead)
               z == CallsLeft(G, E)
               k == Len(N)
    <3>1. CallsLeft(G, t.expanded) = z + k /\ z \in Nat
      <4>1. target \notin t.expanded /\ IsGraph(G) /\ E = t.expanded \cup {target}
        BY <1>12 DEF OfSymbols, E
      <4> HIDE DEF N, E
      <4>2. /\ CallsLeft(G, t.expanded \cup {target}) \in Nat
            /\ CallsLeft(G, t.expanded) = CallsLeft(G, t.expanded \cup {target})
                                           + Cardinality({e \in G.edge : e[1] = target})
        BY <4>1, CallsLeftFall
      <4> QED
        BY <2>9, <4>1, <4>2
    <3>2. TurnsLeft(G, t) = x + y + (z + k) /\ TurnsLeft(G, u) = k + (x - 1) + y + z
      BY <1>3, <2>5, <2>9, <3>1 DEF TurnsLeft
    <3>3. x \in Nat /\ y \in Nat /\ z \in Nat /\ k \in Nat
      BY <1>3, <1>6, <2>9, <3>1
    <3> HIDE DEF x, y, z, k
    <3> QED
      BY <3>2, <3>3
  <2> QED
    BY <2>12, <2>13
<1>13. Branch(G, t) = IF target \in h.path THEN Marked_("cycle")
                      ELSE IF target \in t.expanded THEN Marked_("shared") ELSE u
  <2> HIDE DEF Marked_, u
  <2> QED
    BY <1>8, <1>11 DEF Branch
<1> HIDE DEF Marked_, u
<1>14. CASE target \in h.path
  BY <1>10, <1>13, <1>14
<1>15. CASE target \notin h.path /\ target \in t.expanded
  BY <1>10, <1>13, <1>15
<1>16. CASE target \notin h.path /\ target \notin t.expanded
  BY <1>12, <1>13, <1>16
<1> QED
  BY <1>14, <1>15, <1>16

(* A name ahead is taken, as a root or not: one turn less is left. *)
LEMMA RootGoesOn ==
  ASSUME NEW G, OfSymbols(G), NEW t, TreeHolds(G, t), t.branches = <<>>, t.ahead # <<>>
  PROVE  TreeHolds(G, Root(G, t)) /\ TurnsLeft(G, Root(G, t)) = TurnsLeft(G, t) - 1
<1> DEFINE root == Head(t.ahead)
           A == Tail(t.ahead)
           rest == TreeOf(t.roots, t.drawn, t.expanded, t.branches, A)
           R == Append(t.roots, root)
           E == t.expanded \cup {root}
           path == {root}
           N == BranchesOf(G, root, path)
           u == TreeOf(R, t.drawn, E, N \o t.branches, A)
<1>1. /\ t.roots \in Seq(G.node) /\ t.drawn \in Seq(DrawnType(G)) /\ t.expanded \in SUBSET G.node
      /\ t.branches \in Seq(BranchType(G)) /\ t.ahead \in Seq(G.node)
  BY DEF TreeHolds, TreeStates
<1>2. /\ CallsOnce(G, t.drawn, t.branches, t.expanded) /\ ExpandedOnce(t.roots, t.drawn, t.expanded)
      /\ \A n \in G.node : n \in t.expanded \/ \E i \in 1 .. Len(t.ahead) : t.ahead[i] = n
  BY DEF TreeHolds
<1>3. t = TreeOf(t.roots, t.drawn, t.expanded, t.branches, t.ahead)
  BY DEF TreeHolds, TreeStates, TreeOf
<1> HIDE DEF TreeHolds
<1>4. /\ A \in Seq(G.node) /\ root \in G.node /\ Len(t.ahead) \in Nat \ {0} /\ Len(A) = Len(t.ahead) - 1
      /\ root = t.ahead[1]
      /\ \A i \in 1 .. Len(t.ahead) : i = 1 \/ (i - 1 \in 1 .. Len(A) /\ A[i - 1] = t.ahead[i])
  BY <1>1, Beheaded
<1>5. Past(t, A) = rest
  BY <1>3, TreeMoves
<1> HIDE DEF A, root
<1>6. \A n \in G.node : n \in E \/ \E i \in 1 .. Len(A) : A[i] = n
  BY <1>2, <1>4
<1>7. Len(t.ahead) \in Nat /\ CallsLeft(G, t.expanded) \in Nat /\ Len(t.branches) \in Nat
  <2>1. {e \in G.edge : e[1] \notin t.expanded} \in SUBSET G.edge
    OBVIOUS
  <2> QED
    BY <1>1, <2>1, EdgesAreFinite, LenProperties DEF CallsLeft, OfSymbols
<1>8. rest.roots = t.roots /\ rest.drawn = t.drawn /\ rest.expanded = t.expanded
      /\ rest.branches = t.branches /\ rest.ahead = A
  BY DEF TreeOf
<1>9. ASSUME root \in t.expanded
      PROVE  TreeHolds(G, rest) /\ TurnsLeft(G, rest) = TurnsLeft(G, t) - 1
  <2>1. rest \in TreeStates(G)
    BY <1>1, <1>4 DEF TreeStates, TreeOf
  <2> HIDE DEF rest
  <2>2. E = t.expanded
    BY <1>9
  <2> HIDE DEF E
  <2>3. TreeHolds(G, rest)
    BY <1>2, <1>6, <1>8, <2>1, <2>2 DEF TreeHolds
  <2> DEFINE x == Len(t.branches)
             y == Len(t.ahead)
             z == CallsLeft(G, t.expanded)
  <2>4. TurnsLeft(G, t) = x + y + z /\ TurnsLeft(G, rest) = x + (y - 1) + z /\ x \in Nat /\ y \in Nat /\ z \in Nat
    BY <1>4, <1>7, <1>8 DEF TurnsLeft
  <2> HIDE DEF x, y, z
  <2>5. TurnsLeft(G, rest) = TurnsLeft(G, t) - 1
    BY <2>4
  <2> QED
    BY <2>3, <2>5
<1>10. ASSUME root \notin t.expanded
       PROVE  TreeHolds(G, u) /\ TurnsLeft(G, u) = TurnsLeft(G, t) - 1
  <2>1. u.roots = R /\ u.drawn = t.drawn /\ u.expanded = E /\ u.branches = N \o t.branches /\ u.ahead = A
    <3> HIDE DEF R, E, N
    <3> QED
      BY DEF TreeOf
  <2>2. path \in SUBSET G.node /\ \A p \in path : <<p, root>> \in Reaches(G)
    <3>1. <<root, root>> \in Reaches(G)
      BY <1>4, Reaching DEF OfSymbols
    <3> QED
      BY <1>4, <3>1
  <2>3. ExpandedOnce(R, t.drawn, E)
    BY <1>1, <1>2, <1>4, <1>10, RootIsExpanded
  <2> HIDE DEF path
  <2>4. CallsOnce(G, t.drawn, N \o t.branches, E)
    BY <1>2, <1>4, <1>10, <2>2, CallsAreAdded
  <2>5. AreBranches(G, root, path, N)
    BY <1>4, <2>2, BranchesMeans
  <2>6. N \o t.branches \in Seq(BranchType(G)) /\ Len(N \o t.branches) = Len(N) + Len(t.branches)
        /\ Len(N) = Cardinality({e \in G.edge : e[1] = root}) /\ Len(N) \in Nat
    <3>1. N \in Seq(BranchType(G)) /\ Len(N) = Cardinality({e \in G.edge : e[1] = root}) /\ Len(N) \in Nat
      BY <2>5 DEF AreBranches
    <3> HIDE DEF N
    <3> QED
      BY <1>1, <3>1, Joined
  <2>7. R \in Seq(G.node) /\ E \in SUBSET G.node
    BY <1>1, <1>4, Appended
  <2> HIDE DEF N, R, E
  <2>8. u \in TreeStates(G)
    BY <1>1, <1>4, <2>6, <2>7 DEF TreeStates, TreeOf
  <2> HIDE DEF u
  <2>9. TreeHolds(G, u)
    BY <1>6, <2>1, <2>3, <2>4, <2>8 DEF TreeHolds
  <2>10. TurnsLeft(G, u) = TurnsLeft(G, t) - 1
    <3> DEFINE x == Len(t.branches)
               y == Len(t.ahead)
               z == CallsLeft(G, E)
               k == Len(N)
    <3>1. CallsLeft(G, t.expanded) = z + k /\ z \in Nat
      <4>1. root \notin t.expanded /\ IsGraph(G) /\ E = t.expanded \cup {root}
        BY <1>10 DEF OfSymbols, E
      <4>2. /\ CallsLeft(G, t.expanded \cup {root}) \in Nat
            /\ CallsLeft(G, t.expanded) = CallsLeft(G, t.expanded \cup {root})
                                           + Cardinality({e \in G.edge : e[1] = root})
        BY <4>1, CallsLeftFall
      <4> QED
        BY <2>6, <4>1, <4>2
    <3>2. TurnsLeft(G, t) = x + y + (z + k) /\ TurnsLeft(G, u) = k + x + (y - 1) + z
      BY <1>4, <2>1, <2>6, <3>1 DEF TurnsLeft
    <3>3. x \in Nat /\ y \in Nat /\ z \in Nat /\ k \in Nat
      BY <1>7, <2>6, <3>1
    <3> HIDE DEF x, y, z, k
    <3> QED
      BY <3>2, <3>3
  <2> QED
    BY <2>9, <2>10
<1>11. Root(G, t) = IF root \in t.expanded THEN rest ELSE u
  <2> DEFINE w == Rooted(rest, R)
  <2>1. w = TreeOf(R, t.drawn, t.expanded, t.branches, A)
    <3> HIDE DEF R
    <3>1. rest = TreeOf(t.roots, t.drawn, t.expanded, t.branches, A)
      OBVIOUS
    <3> HIDE DEF rest
    <3> QED
      BY <3>1, TreeMoves
  <2>2. w.expanded = t.expanded /\ w.branches = t.branches
    <3> HIDE DEF w
    <3> QED
      BY <2>1 DEF TreeOf
  <2>3. {} \cup {root} = path
    OBVIOUS
  <2>4. Expanded(G, w, root, {}) = Spread(w, w.expanded \cup {root}, N \o w.branches)
    <3> HIDE DEF w, path
    <3> QED
      BY <2>3 DEF Expanded, Spread
  <2>5. Expanded(G, w, root, {}) = u
    <3> HIDE DEF w, N, R
    <3>1. Spread(w, E, N \o t.branches) = u
      BY <2>1, TreeChanges
    <3> QED
      BY <2>2, <2>4, <3>1
  <2>6. rest.roots = t.roots
    BY <1>8
  <2>7. Root(G, t) = IF root \in t.expanded THEN rest ELSE Expanded(G, w, root, {})
    <3>1. Root(G, t) = IF root \in t.expanded THEN Past(t, A)
                       ELSE Expanded(G, Rooted(Past(t, A), Append(Past(t, A).roots, root)), root, {})
      BY DEF Root, Past, Rooted, A, root
    <3> HIDE DEF rest
    <3> QED
      BY <1>5, <2>6, <3>1
  <2> HIDE DEF w, u, rest
  <2> QED
    BY <2>5, <2>7
<1> HIDE DEF u, rest
<1> QED
  BY <1>9, <1>10, <1>11

-----------------------------------------------------------------------------
(* The tree is complete. *)

(* The tree before the first turn, and the turns of Tree. *)
TreeStart(G, marks) == TreeOf(<<>>, <<>>, {}, <<>>, Sorted(marks) \o Sorted(G.node \ marks))
TreeTurns(G) == Cardinality(G.node) + Cardinality(G.edge)

(* At the start there are as many turns left as Tree has. *)
LEMMA TreeStarts ==
  ASSUME NEW G, OfSymbols(G), NEW marks \in SUBSET G.node
  PROVE  /\ TreeHolds(G, TreeStart(G, marks)) /\ TreeTurns(G) \in Nat
         /\ TurnsLeft(G, TreeStart(G, marks)) = TreeTurns(G)
<1> DEFINE others == G.node \ marks
           f == Sorted(marks)
           g == Sorted(others)
           a == f \o g
           t == TreeStart(G, marks)
<1>1. /\ IsFiniteSet(G.node) /\ G.node \in SUBSET Int /\ IsFiniteSet(marks) /\ IsFiniteSet(others)
      /\ marks \in SUBSET Int /\ others \in SUBSET Int
      /\ Cardinality(G.node) \in Nat /\ Cardinality(marks) \in Nat /\ Cardinality(others) \in Nat
      /\ Cardinality(G.node) = Cardinality(marks) + Cardinality(others)
  <2>1. IsFiniteSet(G.node) /\ G.node \in SUBSET Int
    BY DEF OfSymbols, IsGraph
  <2>2. others \in SUBSET G.node
    OBVIOUS
  <2>3. G.node = marks \cup others /\ marks \cap others = {}
    OBVIOUS
  <2> HIDE DEF others
  <2>4. IsFiniteSet(marks) /\ IsFiniteSet(others)
    BY <2>1, <2>2, FS_Subset
  <2>5. Cardinality(G.node) \in Nat /\ Cardinality(marks) \in Nat /\ Cardinality(others) \in Nat
    BY <2>1, <2>4, FS_CardinalityType
  <2>6. Cardinality(marks \cup others) = Cardinality(marks) + Cardinality(others) - Cardinality(marks \cap others)
    BY <2>4, FS_Union
  <2>7. Cardinality(marks \cap others) = 0
    BY <2>3, FS_EmptySet
  <2> QED
    BY <2>1, <2>2, <2>3, <2>4, <2>5, <2>6, <2>7
<1>2. Listing(f, marks) /\ Listing(g, others)
  <2> HIDE DEF others
  <2> QED
    BY <1>1, SortedIsListing
<1>3. Len(f) = Cardinality(marks) /\ Len(g) = Cardinality(others)
  <2> HIDE DEF others, f, g
  <2> QED
    BY <1>2, ListingCounts
<1>4. f \in Seq(G.node) /\ g \in Seq(G.node)
  <2>1. f \in Seq(marks) /\ g \in Seq(others) /\ others \subseteq G.node
    BY <1>2 DEF Listing
  <2> HIDE DEF others, f, g
  <2> QED
    BY <2>1, SeqMonotonic
<1>5. /\ a \in Seq(G.node) /\ Len(a) = Len(f) + Len(g)
      /\ \A i \in 1 .. Len(f) : i \in 1 .. Len(a) /\ a[i] = f[i]
      /\ \A i \in 1 .. Len(g) : Len(f) + i \in 1 .. Len(a) /\ a[Len(f) + i] = g[i]
  <2> HIDE DEF f, g
  <2> QED
    BY <1>4, Joined
<1>6. \A n \in G.node : \E i \in 1 .. Len(a) : a[i] = n
  <2>1. \A n \in G.node : n \in marks \/ n \in others
    OBVIOUS
  <2>2. \A n \in marks : \E i \in 1 .. Len(f) : f[i] = n
    BY <1>2 DEF Listing
  <2>3. \A n \in others : \E i \in 1 .. Len(g) : g[i] = n
    BY <1>2 DEF Listing
  <2> HIDE DEF a, f, g, others
  <2> QED
    BY <1>5, <2>1, <2>2, <2>3
<1>7. t = TreeOf(<<>>, <<>>, {}, <<>>, a)
  BY DEF TreeStart
<1> HIDE DEF a, t
<1>8. t.roots = <<>> /\ t.drawn = <<>> /\ t.expanded = {} /\ t.branches = <<>> /\ t.ahead = a
  BY <1>7 DEF TreeOf
<1>9. \A S : <<>> \in Seq(S) /\ Len(<<>>) = 0
  BY EmptySeq
<1>10. \A i \in 1 .. Len(<<>>) : FALSE
  BY <1>9
<1>11. t \in TreeStates(G)
  BY <1>5, <1>7, <1>9 DEF TreeStates, TreeOf
<1>12. CallsOnce(G, <<>>, <<>>, {})
  BY <1>9, <1>10 DEF CallsOnce
<1>13. ExpandedOnce(<<>>, <<>>, {})
  BY <1>10 DEF ExpandedOnce
<1>14. TreeHolds(G, t)
  BY <1>6, <1>8, <1>11, <1>12, <1>13 DEF TreeHolds
<1>15. Cardinality(G.edge) \in Nat /\ CallsLeft(G, {}) = Cardinality(G.edge)
  <2>1. {e \in G.edge : e[1] \notin {}} = G.edge
    OBVIOUS
  <2> QED
    BY <2>1, EdgesAreFinite DEF CallsLeft, OfSymbols
<1>16. TurnsLeft(G, t) = TreeTurns(G) /\ TreeTurns(G) \in Nat
  <2>1. TurnsLeft(G, t) = 0 + Len(a) + Cardinality(G.edge)
    BY <1>8, <1>9, <1>15 DEF TurnsLeft
  <2>2. Len(a) = Cardinality(G.node)
    BY <1>1, <1>3, <1>5
  <2> QED
    BY <1>1, <1>15, <2>1, <2>2 DEF TreeTurns
<1> QED
  BY <1>14, <1>16 DEF t

(* With no turn left nothing is to be drawn or taken. *)
LEMMA TurnsCount ==
  ASSUME NEW G, OfSymbols(G), NEW t \in TreeStates(G)
  PROVE  /\ Len(t.branches) \in Nat /\ Len(t.ahead) \in Nat /\ CallsLeft(G, t.expanded) \in Nat
         /\ TurnsLeft(G, t) \in Nat
         /\ TurnsLeft(G, t) <= 0 => Len(t.branches) = 0 /\ Len(t.ahead) = 0
<1> DEFINE x == Len(t.branches)
           y == Len(t.ahead)
           z == CallsLeft(G, t.expanded)
<1>1. t.branches \in Seq(BranchType(G)) /\ t.ahead \in Seq(G.node)
  BY DEF TreeStates
<1>2. {e \in G.edge : e[1] \notin t.expanded} \in SUBSET G.edge
  OBVIOUS
<1>3. x \in Nat /\ y \in Nat /\ z \in Nat
  BY <1>1, <1>2, EdgesAreFinite, LenProperties DEF CallsLeft, OfSymbols
<1>4. TurnsLeft(G, t) = x + y + z
  BY DEF TurnsLeft
<1> HIDE DEF x, y, z
<1>5. TurnsLeft(G, t) \in Nat /\ (TurnsLeft(G, t) <= 0 => x = 0 /\ y = 0)
  BY <1>3, <1>4
<1> QED
  BY <1>3, <1>5 DEF x, y, z

(* After the turns of Tree its invariant holds and no turn is left: *)
(* _populate_tree ends, with every call and every function in its place. *)
LEMMA TreeEnds ==
  ASSUME NEW G, OfSymbols(G), NEW marks \in SUBSET G.node
  PROVE  TreeHolds(G, Tree(G, marks)) /\ TurnsLeft(G, Tree(G, marks)) <= 0
<1> DEFINE n == TreeTurns(G)
           start == TreeStart(G, marks)
           Turn(t) == IF t.branches # <<>> THEN Branch(G, t)
                      ELSE IF t.ahead # <<>> THEN Root(G, t)
                      ELSE t
           Body(after, k) == IF k = 0 THEN start ELSE Turn(after[k - 1])
           Solved(after) == after = [k \in 0 .. n |-> Body(after, k)]
           K == CHOOSE after : Solved(after)
           V == [k \in 0 .. n |-> {t \in TreeStates(G) : TreeHolds(G, t) /\ TurnsLeft(G, t) <= n - k}]
           step == [t \in TreeStates(G) |-> Turn(t)]
<1>1. Tree(G, marks) = K[n]
  BY DEF Tree, TreeTurns, TreeStart, TreeOf
<1>2. n \in Nat /\ TreeHolds(G, start) /\ TurnsLeft(G, start) = n
  BY TreeStarts
<1> HIDE DEF n, start
<1>3. start \in V[0]
  BY <1>2 DEF TreeHolds
<1>4. ASSUME NEW k \in 1 .. n, NEW t \in V[k - 1] PROVE step[t] \in V[k] /\ step[t] = Turn(t)
  <2>1. k - 1 \in 0 .. n /\ k \in 0 .. n
    BY <1>2
  <2>2. t \in TreeStates(G) /\ TreeHolds(G, t) /\ TurnsLeft(G, t) <= n - (k - 1)
    BY <2>1
  <2>3. TurnsLeft(G, t) \in Int
    BY <2>2, TurnsCount
  <2>4. TreeHolds(G, Turn(t)) /\ TurnsLeft(G, Turn(t)) <= n - k
    <3>1. CASE t.branches # <<>>
      <4>1. TreeHolds(G, Branch(G, t)) /\ TurnsLeft(G, Branch(G, t)) = TurnsLeft(G, t) - 1
        BY <2>2, <3>1, BranchGoesOn
      <4> QED
        BY <1>2, <2>2, <2>3, <3>1, <4>1
    <3>2. CASE t.branches = <<>> /\ t.ahead # <<>>
      <4>1. TreeHolds(G, Root(G, t)) /\ TurnsLeft(G, Root(G, t)) = TurnsLeft(G, t) - 1
        BY <2>2, <3>2, RootGoesOn
      <4> QED
        BY <1>2, <2>2, <2>3, <3>2, <4>1
    <3>3. CASE t.branches = <<>> /\ t.ahead = <<>>
      <4>1. Turn(t) = t
        BY <3>3
      <4>2. Len(<<>>) = 0 /\ \A i \in 1 .. Len(<<>>) : FALSE
        BY EmptySeq
      <4>3. \A m \in G.node : m \in t.expanded
        BY <2>2, <3>3, <4>2 DEF TreeHolds
      <4>4. {e \in G.edge : e[1] \notin t.expanded} = {}
        BY <4>3, Reaching DEF OfSymbols
      <4>5. TurnsLeft(G, t) = 0
        <5>1. Len(t.branches) = 0 /\ Len(t.ahead) = 0
          BY <3>3, <4>2
        <5>2. CallsLeft(G, t.expanded) = 0
          BY <4>4, FS_EmptySet DEF CallsLeft
        <5> QED
          BY <5>1, <5>2 DEF TurnsLeft
      <4> HIDE DEF Turn
      <4> QED
        BY <1>2, <2>2, <4>1, <4>5
    <3> QED
      BY <3>1, <3>2, <3>3
  <2> HIDE DEF Turn
  <2>5. Turn(t) \in TreeStates(G)
    BY <2>4 DEF TreeHolds
  <2>6. step[t] = Turn(t)
    BY <2>2
  <2> QED
    BY <2>1, <2>4, <2>5, <2>6
<1> HIDE DEF V, step, Turn
<1>5. PICK g : Iterates(g, n, V, step, start)
  <2>1. \A k \in 1 .. n : \A t \in V[k - 1] : step[t] \in V[k]
    BY <1>4
  <2> QED
    BY <1>2, <1>3, <2>1, Iterated
<1>6. \A k \in 0 .. n : k = 0 \/ (k \in 1 .. n /\ k - 1 \in 0 .. n)
  BY <1>2
<1>7. Solved(g)
  <2>1. \A k \in 0 .. n : g[k] = Body(g, k)
    BY <1>4, <1>5, <1>6 DEF Iterates
  <2> HIDE DEF Body
  <2> QED
    BY <1>5, <2>1 DEF Iterates
<1>8. Solved(K)
  <2> HIDE DEF Solved
  <2> QED
    BY <1>7
<1>9. \A k \in 0 .. n : K[k] = Body(K, k)
  <2> HIDE DEF K, Body
  <2> QED
    BY <1>8
<1> HIDE DEF K
<1>10. K[0] \in V[0]
  BY <1>2, <1>3, <1>9
<1>11. \A k \in 1 .. n : K[k - 1] \in V[k - 1] => K[k] = step[K[k - 1]]
  <2>1. \A k \in 1 .. n : k \in 0 .. n /\ k # 0
    BY <1>2
  <2> QED
    BY <1>4, <1>9, <2>1
<1>12. \A k \in 0 .. n : K[k] \in V[k]
  <2>1. \A k \in 1 .. n : \A t \in V[k - 1] : step[t] \in V[k]
    BY <1>4
  <2> QED
    BY <1>2, <1>10, <1>11, <2>1, IterationStays
<1>13. n \in 0 .. n /\ n - n = 0
  BY <1>2
<1> QED
  BY <1>1, <1>12, <1>13 DEF V

(* With no turn left the tree is complete. *)
TreeDone(G, tree) ==
  LET roots == tree.roots
      drawn == tree.drawn
      reaches == Reaches(G)
      Expansions(n) == {i \in DOMAIN drawn : drawn[i][2] = "child" /\ drawn[i][1][2] = n}
  IN  /\ tree.branches = <<>> /\ tree.ahead = <<>>
      /\ \A n \in G.node :
           Cardinality({i \in DOMAIN roots : roots[i] = n}) + Cardinality(Expansions(n)) = 1
      /\ Len(drawn) = Cardinality(G.edge) /\ {b[1] : b \in Range(drawn)} = G.edge
      /\ \A b \in Range(drawn) : b[2] = "cycle" => <<b[1][2], b[1][1]>> \in reaches

(* The invariant with no turn left is TreeDone. *)
LEMMA TreeIsDone ==
  ASSUME NEW G, OfSymbols(G), NEW t, TreeHolds(G, t), TurnsLeft(G, t) <= 0
  PROVE  TreeDone(G, t)
<1> DEFINE roots == t.roots
           drawn == t.drawn
<1>1. /\ roots \in Seq(G.node) /\ drawn \in Seq(DrawnType(G)) /\ t.expanded \in SUBSET G.node
      /\ t.branches \in Seq(BranchType(G)) /\ t.ahead \in Seq(G.node)
  BY DEF TreeHolds, TreeStates
<1>2. /\ CallsOnce(G, drawn, t.branches, t.expanded) /\ ExpandedOnce(roots, drawn, t.expanded)
      /\ \A n \in G.node : n \in t.expanded \/ \E i \in 1 .. Len(t.ahead) : t.ahead[i] = n
  BY DEF TreeHolds
<1>3. Len(t.branches) = 0 /\ Len(t.ahead) = 0
  BY TurnsCount DEF TreeHolds
<1>4. t.branches = <<>> /\ t.ahead = <<>>
  BY <1>1, <1>3, EmptySeq
<1> HIDE DEF roots, drawn, TreeHolds
<1>5. /\ DOMAIN roots = 1 .. Len(roots) /\ DOMAIN drawn = 1 .. Len(drawn)
      /\ Len(drawn) \in Nat /\ Len(roots) \in Nat
  BY <1>1, LenProperties
<1>6. \A n \in G.node : n \in t.expanded
  BY <1>2, <1>3
<1>7. ASSUME NEW n \in G.node
      PROVE  Cardinality({i \in DOMAIN roots : roots[i] = n})
             + Cardinality({i \in DOMAIN drawn : drawn[i][2] = "child" /\ drawn[i][1][2] = n}) = 1
  <2> DEFINE A == {i \in DOMAIN roots : roots[i] = n}
             B == {i \in DOMAIN drawn : drawn[i][2] = "child" /\ drawn[i][1][2] = n}
  <2>1. n \in t.expanded
    BY <1>6
  <2> DEFINE Child(b) == b[2] = "child"
             Of(b) == b[1][2]
  <2>2. /\ \A i, j \in 1 .. Len(roots) : roots[i] = roots[j] => i = j
        /\ \A i, j \in 1 .. Len(drawn) : Child(drawn[i]) /\ Child(drawn[j]) /\ Of(drawn[i]) = Of(drawn[j]) => i = j
        /\ \A i \in 1 .. Len(roots), j \in 1 .. Len(drawn) : Child(drawn[j]) => roots[i] # Of(drawn[j])
        /\ \/ \E i \in 1 .. Len(roots) : roots[i] = n
           \/ \E i \in 1 .. Len(drawn) : Child(drawn[i]) /\ Of(drawn[i]) = n
    BY <1>2, <2>1 DEF ExpandedOnce
  <2>3. A = {i \in 1 .. Len(roots) : roots[i] = n} /\ B = {i \in 1 .. Len(drawn) : Child(drawn[i]) /\ Of(drawn[i]) = n}
    BY <1>5
  <2> HIDE DEF A, B, Child, Of
  <2>4. \/ \E i : A = {i} /\ B = {}
        \/ \E i : B = {i} /\ A = {}
    <3>1. ASSUME NEW i \in 1 .. Len(roots), roots[i] = n PROVE A = {i} /\ B = {}
      BY <2>2, <2>3, <3>1
    <3>2. ASSUME NEW i \in 1 .. Len(drawn), Child(drawn[i]), Of(drawn[i]) = n PROVE B = {i} /\ A = {}
      BY <2>2, <2>3, <3>2
    <3> QED
      BY <2>2, <3>1, <3>2
  <2>5. Cardinality({}) = 0 /\ \A i : Cardinality({i}) = 1
    BY FS_EmptySet, FS_Singleton
  <2>6. \/ Cardinality(A) = 1 /\ Cardinality(B) = 0
        \/ Cardinality(B) = 1 /\ Cardinality(A) = 0
    BY <2>4, <2>5
  <2>7. Cardinality(A) + Cardinality(B) = 1
    BY <2>6
  <2> QED
    BY <2>7 DEF A, B, Child, Of
<1>8. Listing([i \in 1 .. Len(drawn) |-> drawn[i][1]], G.edge)
      /\ Len([i \in 1 .. Len(drawn) |-> drawn[i][1]]) = Len(drawn)
  <2> DEFINE f == [i \in 1 .. Len(drawn) |-> drawn[i][1]]
  <2>1. \A i \in 1 .. Len(drawn) : drawn[i][1] \in G.edge
    <3>1. \A i \in 1 .. Len(drawn) : drawn[i] \in DrawnType(G)
      BY <1>1, ElementOfSeq
    <3> QED
      BY <3>1 DEF DrawnType
  <2>2. f \in [1 .. Len(drawn) -> G.edge] /\ \A i \in 1 .. Len(drawn) : f[i] = drawn[i][1]
    BY <2>1
  <2>3. \A i, j \in 1 .. Len(drawn) : drawn[i][1] = drawn[j][1] => i = j
    BY <1>2 DEF CallsOnce
  <2>4. \A e \in G.edge : \E i \in 1 .. Len(drawn) : drawn[i][1] = e
    <3>1. \A e \in G.edge : e[1] \in t.expanded
      BY <1>6, Reaching DEF OfSymbols
    <3>2. \A i \in 1 .. Len(t.branches) : FALSE
      BY <1>3
    <3> QED
      BY <1>2, <3>1, <3>2 DEF CallsOnce
  <2> HIDE DEF f
  <2> QED
    BY <1>5, <2>2, <2>3, <2>4, IsListing DEF f
<1>9. Len(drawn) = Cardinality(G.edge) /\ {b[1] : b \in Range(drawn)} = G.edge
  <2> DEFINE f == [i \in 1 .. Len(drawn) |-> drawn[i][1]]
  <2>1. \A i \in 1 .. Len(drawn) : f[i] = drawn[i][1]
    OBVIOUS
  <2>2. Listing(f, G.edge) /\ Len(f) = Len(drawn)
    BY <1>8
  <2> HIDE DEF f
  <2>3. Cardinality(G.edge) = Len(f)
    BY <2>2, ListingCounts
  <2>4. \A e : e \in {b[1] : b \in Range(drawn)} <=> e \in G.edge
    BY <1>5, <2>1, <2>2 DEF Listing, Range
  <2> QED
    BY <2>2, <2>3, <2>4
<1>10. \A b \in Range(drawn) : b[2] = "cycle" => <<b[1][2], b[1][1]>> \in Reaches(G)
  BY <1>2, <1>5 DEF CallsOnce, Range
<1> QED
  BY <1>4, <1>7, <1>9, <1>10 DEF TreeDone, roots, drawn

-----------------------------------------------------------------------------
(* What is within so many calls. *)

(* What a function has within so many calls. *)
NearTo(G, focus, depth, dir) == Within(focus, depth, LAMBDA n : Adjacent(G, n, dir))

(* S and all that is adjacent to it. *)
Wider(G, dir, S) == S \cup UNION {Adjacent(G, n, dir) : n \in S}

(* What is adjacent to a function are functions. *)
LEMMA AdjacentAreNodes ==
  ASSUME NEW G, IsGraph(G), NEW n, NEW dir
  PROVE  Adjacent(G, n, dir) \in SUBSET G.node
<1>1. \A e \in G.edge : e[1] \in G.node /\ e[2] \in G.node
  BY Reaching
<1> QED
  BY <1>1 DEF Adjacent

(* The levels of a search of depth d. *)
Levels(G, f, dir, d, K) ==
  /\ NearTo(G, f, d, dir) = K[d] /\ K[0] = {f}
  /\ \A k \in 0 .. d : K[k] \in SUBSET G.node
  /\ \A k \in 1 .. d : K[k] = Wider(G, dir, K[k - 1])

(* Within computes the levels one from another. *)
LEMMA WithinSolved ==
  ASSUME NEW G, IsGraph(G), NEW f \in G.node, NEW dir, NEW d \in Nat
  PROVE  \E K : Levels(G, f, dir, d, K)
<1> DEFINE Body(reached, k) == IF k = 0 THEN {f}
                               ELSE reached[k - 1] \cup UNION {Adjacent(G, n, dir) : n \in reached[k - 1]}
           Solved(reached) == reached = [k \in 0 .. d |-> Body(reached, k)]
           K == CHOOSE reached : Solved(reached)
           V == [k \in 0 .. d |-> SUBSET G.node]
           step == [S \in SUBSET G.node |-> Wider(G, dir, S)]
<1>1. NearTo(G, f, d, dir) = K[d]
  BY DEF NearTo, Within
<1>2. \A S \in SUBSET G.node : step[S] = Wider(G, dir, S) /\ Wider(G, dir, S) \in SUBSET G.node
  <2>1. \A n : Adjacent(G, n, dir) \in SUBSET G.node
    BY AdjacentAreNodes
  <2> QED
    BY <2>1 DEF Wider
<1>3. \A k \in 0 .. d : V[k] = SUBSET G.node
  OBVIOUS
<1>4. \A k \in 1 .. d : k \in 0 .. d /\ k - 1 \in 0 .. d /\ k # 0
  OBVIOUS
<1> HIDE DEF V, step
<1>5. {f} \in V[0] /\ \A k \in 1 .. d : \A x \in V[k - 1] : step[x] \in V[k]
  BY <1>2, <1>3, <1>4
<1>6. PICK g : Iterates(g, d, V, step, {f})
  BY <1>5, Iterated
<1>7. Solved(g)
  <2>1. \A k \in 0 .. d : g[k] = Body(g, k)
    <3> SUFFICES ASSUME NEW k \in 0 .. d PROVE g[k] = Body(g, k)
      OBVIOUS
    <3>1. CASE k = 0
      BY <1>6, <3>1 DEF Iterates
    <3>2. CASE k # 0
      <4>1. k \in 1 .. d /\ k - 1 \in 0 .. d
        BY <3>2
      <4>2. g[k] = step[g[k - 1]] /\ g[k - 1] \in SUBSET G.node
        BY <1>3, <1>6, <4>1 DEF Iterates
      <4> QED
        BY <1>2, <3>2, <4>2 DEF Wider
    <3> QED
      BY <3>1, <3>2
  <2> HIDE DEF Body
  <2> QED
    BY <1>6, <2>1 DEF Iterates
<1>8. Solved(K)
  <2> HIDE DEF Solved
  <2> QED
    BY <1>7
<1>9. \A k \in 0 .. d : K[k] = Body(K, k)
  <2> HIDE DEF K, Body
  <2> QED
    BY <1>8
<1> HIDE DEF K
<1>10. K[0] = {f} /\ \A k \in 1 .. d : K[k] = Wider(G, dir, K[k - 1])
  <2>1. K[0] = {f}
    <3>1. 0 \in 0 .. d
      OBVIOUS
    <3>2. K[0] = Body(K, 0)
      BY <1>9, <3>1
    <3> QED
      BY <3>2
  <2>2. ASSUME NEW k \in 1 .. d PROVE K[k] = Wider(G, dir, K[k - 1])
    <3>1. K[k] = Body(K, k) /\ k # 0
      BY <1>4, <1>9
    <3> QED
      BY <3>1 DEF Wider
  <2> QED
    BY <2>1, <2>2
<1>11. K[0] \in V[0] /\ \A k \in 1 .. d : K[k - 1] \in V[k - 1] => K[k] = step[K[k - 1]]
  BY <1>2, <1>3, <1>4, <1>5, <1>10
<1>12. \A k \in 0 .. d : K[k] \in V[k]
  BY <1>5, <1>11, IterationStays
<1>13. Levels(G, f, dir, d, K)
  BY <1>1, <1>3, <1>10, <1>12 DEF Levels
<1> QED
  BY <1>13

(* What is within d + 1 calls is what is adjacent to what is within d. *)
LEMMA NearStep ==
  ASSUME NEW G, IsGraph(G), NEW f \in G.node, NEW dir, NEW d \in Nat
  PROVE  /\ NearTo(G, f, d, dir) \in SUBSET G.node
         /\ NearTo(G, f, d + 1, dir) = Wider(G, dir, NearTo(G, f, d, dir))
<1>a. PICK K : Levels(G, f, dir, d, K)
  BY WithinSolved
<1>b. PICK L : Levels(G, f, dir, d + 1, L)
  BY WithinSolved
<1>1. /\ NearTo(G, f, d, dir) = K[d] /\ K[0] = {f}
      /\ \A k \in 0 .. d : K[k] \in SUBSET G.node
      /\ \A k \in 1 .. d : K[k] = Wider(G, dir, K[k - 1])
  BY <1>a DEF Levels
<1>2. /\ NearTo(G, f, d + 1, dir) = L[d + 1] /\ L[0] = {f}
      /\ \A k \in 0 .. d + 1 : L[k] \in SUBSET G.node
      /\ \A k \in 1 .. d + 1 : L[k] = Wider(G, dir, L[k - 1])
  BY <1>b DEF Levels
<1> DEFINE Same == {k \in Nat : k <= d => K[k] = L[k]}
<1>3. 0 \in Same
  BY <1>1, <1>2
<1>4. ASSUME NEW k \in Nat, k \in Same PROVE k + 1 \in Same
  <2> SUFFICES ASSUME k + 1 <= d PROVE K[k + 1] = L[k + 1]
    OBVIOUS
  <2>1. k + 1 \in 1 .. d /\ k + 1 \in 1 .. d + 1 /\ k + 1 - 1 = k /\ K[k] = L[k]
    BY <1>4
  <2> QED
    BY <1>1, <1>2, <2>1
<1>5. Nat \subseteq Same
  <2> HIDE DEF Same
  <2> QED
    BY <1>3, <1>4, NatInduct
<1>6. K[d] = L[d] /\ d + 1 \in 1 .. d + 1 /\ d + 1 - 1 = d /\ d \in 0 .. d
  BY <1>5
<1> QED
  BY <1>1, <1>2, <1>6

(* All levels, from the first, which is the function alone. *)
LEMMA NearGrows ==
  ASSUME NEW G, IsGraph(G), NEW f \in G.node, NEW dir
  PROVE  /\ NearTo(G, f, 0, dir) = {f}
         /\ \A d \in Nat : /\ NearTo(G, f, d, dir) \in SUBSET G.node
                           /\ NearTo(G, f, d + 1, dir) = Wider(G, dir, NearTo(G, f, d, dir))
<1>1. NearTo(G, f, 0, dir) = {f}
  <2>1. PICK K : Levels(G, f, dir, 0, K)
    BY WithinSolved
  <2> QED
    BY <2>1 DEF Levels
<1>2. ASSUME NEW d \in Nat
      PROVE  /\ NearTo(G, f, d, dir) \in SUBSET G.node
             /\ NearTo(G, f, d + 1, dir) = Wider(G, dir, NearTo(G, f, d, dir))
  BY NearStep
<1> QED
  BY <1>1, <1>2

(* A level holds the levels before it. *)
LEMMA NearIsWide ==
  ASSUME NEW G, IsGraph(G), NEW f \in G.node, NEW dir, NEW k \in Nat, NEW d \in Nat, k <= d
  PROVE  NearTo(G, f, k, dir) \subseteq NearTo(G, f, d, dir)
<1> DEFINE Good == {m \in Nat : NearTo(G, f, k, dir) \subseteq NearTo(G, f, k + m, dir)}
<1>1. 0 \in Good
  OBVIOUS
<1>2. ASSUME NEW m \in Nat, m \in Good PROVE m + 1 \in Good
  <2>1. k + m \in Nat /\ k + m + 1 = k + (m + 1)
    OBVIOUS
  <2>2. NearTo(G, f, k + m, dir) \subseteq NearTo(G, f, k + (m + 1), dir)
    <3>1. NearTo(G, f, k + m + 1, dir) = Wider(G, dir, NearTo(G, f, k + m, dir))
      BY <2>1, NearGrows
    <3>2. \A S : S \subseteq Wider(G, dir, S)
      BY DEF Wider
    <3> QED
      BY <2>1, <3>1, <3>2
  <2> QED
    BY <1>2, <2>2
<1>3. Nat \subseteq Good
  <2> HIDE DEF Good
  <2> QED
    BY <1>1, <1>2, NatInduct
<1>4. d - k \in Nat /\ k + (d - k) = d
  OBVIOUS
<1> QED
  BY <1>3, <1>4

(* When no further function is found, none is any more. *)
LEMMA NearIsAll ==
  ASSUME NEW G, IsGraph(G), NEW f \in G.node, NEW dir, NEW k \in Nat, NEW d \in Nat, k <= d,
         NearTo(G, f, k + 1, dir) = NearTo(G, f, k, dir)
  PROVE  NearTo(G, f, d, dir) = NearTo(G, f, k, dir)
<1> DEFINE S == NearTo(G, f, k, dir)
           Good == {m \in Nat : NearTo(G, f, k + m, dir) = S}
<1>1. 0 \in Good
  OBVIOUS
<1>2. ASSUME NEW m \in Nat, m \in Good PROVE m + 1 \in Good
  <2>1. k + m \in Nat /\ k + m + 1 = k + (m + 1)
    OBVIOUS
  <2>2. NearTo(G, f, k + (m + 1), dir) = Wider(G, dir, S)
    <3>1. NearTo(G, f, k + m + 1, dir) = Wider(G, dir, NearTo(G, f, k + m, dir))
      BY <2>1, NearGrows
    <3>2. NearTo(G, f, k + m, dir) = S
      BY <1>2
    <3> HIDE DEF S
    <3> QED
      BY <2>1, <3>1, <3>2
  <2>3. Wider(G, dir, S) = S
    BY NearGrows
  <2> QED
    BY <2>2, <2>3
<1>3. Nat \subseteq Good
  <2> HIDE DEF Good
  <2> QED
    BY <1>1, <1>2, NatInduct
<1>4. d - k \in Nat /\ k + (d - k) = d
  OBVIOUS
<1> QED
  BY <1>3, <1>4

-----------------------------------------------------------------------------
(* Folds over sequences. *)

(* A fold over a sequence of n elements takes the greatest index last; it *)
(* keeps what its base has and every step keeps. *)
Folding(n, T, V, base, step) ==
  /\ base \in T /\ base \in V[0]
  /\ \A i \in 1 .. n : \A x \in T : step[i][x] \in T
  /\ \A i \in 1 .. n : \A x \in T : x \in V[i - 1] => step[i][x] \in V[i]
FoldSteps(g, n, T, base, step) ==
  /\ g = [N \in SUBSET (1 .. n) |-> g[N]] /\ g[{}] = base
  /\ \A N \in SUBSET (1 .. n) : g[N] \in T
  /\ \A N \in SUBSET (1 .. n) : N # {} => g[N] = step[Max(N)][g[N \ {Max(N)}]]
FoldedBy(K, n, T, base, step) ==
  /\ K[{}] = base
  /\ \A N \in SUBSET (1 .. n) :
       N # {} /\ K[N \ {Max(N)}] \in T => K[N] = step[Max(N)][K[N \ {Max(N)}]]
FoldRuns(n, T, V, base, step) ==
  /\ \E g : FoldSteps(g, n, T, base, step)
  /\ \A N \in SUBSET (1 .. n) : N # {} => Max(N) \in 1 .. n /\ N \ {Max(N)} \in SUBSET (1 .. n)
  /\ \A K : FoldedBy(K, n, T, base, step) => K[1 .. n] \in T /\ K[1 .. n] \in V[n]

(* A fold has a value, in T, that keeps what the steps keep. *)
LEMMA FoldWorks ==
  ASSUME NEW n \in Nat, NEW T, NEW V, NEW base, NEW step, Folding(n, T, V, base, step)
  PROVE  FoldRuns(n, T, V, base, step)
<1> DEFINE D == 1 .. n
           pick == [N \in SUBSET D |-> Max(N)]
           W == [N \in SUBSET D |-> {x \in T : \A k \in 0 .. n : N = 1 .. k => x \in V[k]}]
           Step == [N \in SUBSET D |-> [x \in W[N \ {pick[N]}] |-> step[pick[N]][x]]]
<1>1. IsFiniteSet(D) /\ D \in SUBSET Int
  BY FS_Interval
<1>2. \A N \in SUBSET D : pick[N] = Max(N)
  OBVIOUS
<1>3. \A N \in SUBSET D : N # {} => Max(N) \in N
  <2> SUFFICES ASSUME NEW N \in SUBSET D, N # {} PROVE Max(N) \in N
    OBVIOUS
  <2>1. IsFiniteSet(N) /\ N \in SUBSET Int
    BY <1>1, FS_Subset
  <2> QED
    BY <2>1, MaxIsGreatest
<1>4. \A N \in SUBSET D : W[N] = {x \in T : \A k \in 0 .. n : N = 1 .. k => x \in V[k]}
  OBVIOUS
<1> HIDE DEF pick, W
<1>5. base \in W[{}]
  <2>1. {} \in SUBSET D
    OBVIOUS
  <2>2. \A k \in 0 .. n : {} = 1 .. k => k = 0
    OBVIOUS
  <2> HIDE DEF D
  <2> QED
    BY <1>4, <2>1, <2>2 DEF Folding
<1>6. ASSUME NEW N \in SUBSET D, N # {}, NEW x \in W[N \ {pick[N]}] PROVE step[pick[N]][x] \in W[N]
  <2>1. pick[N] = Max(N) /\ Max(N) \in D /\ Max(N) \in N /\ N \ {pick[N]} \in SUBSET D
    BY <1>2, <1>3, <1>6
  <2>2. x \in T /\ \A k \in 0 .. n : N \ {pick[N]} = 1 .. k => x \in V[k]
    <3> HIDE DEF D
    <3> QED
      BY <1>4, <2>1
  <2>3. step[pick[N]][x] \in T
    BY <2>1, <2>2 DEF Folding
  <2>4. ASSUME NEW k \in 0 .. n, N = 1 .. k PROVE step[pick[N]][x] \in V[k]
    <3>1. k # 0
      <4> SUFFICES ASSUME k = 0 PROVE FALSE
        OBVIOUS
      <4>1. 1 .. k = {}
        OBVIOUS
      <4> QED
        BY <1>6, <2>4, <4>1
    <3>2. Max(1 .. k) = k /\ (1 .. k) \ {k} = 1 .. k - 1
      BY <3>1, LastOfInterval
    <3>3. k \in 1 .. n /\ k - 1 \in 0 .. n /\ pick[N] = k /\ N \ {pick[N]} = 1 .. k - 1
      BY <2>1, <2>4, <3>1, <3>2
    <3>4. x \in V[k - 1]
      BY <2>2, <3>3
    <3> QED
      BY <2>2, <3>3, <3>4 DEF Folding
  <2> HIDE DEF D
  <2> QED
    BY <1>4, <2>3, <2>4
<1>7. Recursion(D, W, base, pick, Step)
  <2>1. \A N \in SUBSET D : N # {} => Step[N] \in [W[N \ {pick[N]}] -> W[N]]
    <3> HIDE DEF D
    <3> QED
      BY <1>6
  <2> HIDE DEF D, Step
  <2> QED
    BY <1>1, <1>2, <1>3, <1>5, <2>1 DEF Recursion
<1>8. \E g : FoldSteps(g, n, T, base, step)
  <2>1. PICK g : Solves(g, D, W, base, pick, Step)
    <3> HIDE DEF D, Step
    <3> QED
      BY <1>7, SubsetRecursion
  <2>2. g = [N \in SUBSET D |-> g[N]] /\ g[{}] = base /\ \A N \in SUBSET D : g[N] \in W[N]
    <3> HIDE DEF D, Step
    <3> QED
      BY <2>1 DEF Solves
  <2>3. \A N \in SUBSET D : g[N] \in T
    <3> HIDE DEF D
    <3> QED
      BY <1>4, <2>2
  <2>4. ASSUME NEW N \in SUBSET D, N # {} PROVE g[N] = step[Max(N)][g[N \ {Max(N)}]]
    <3>1. g[N] = Step[N][g[N \ {pick[N]}]]
      <4> HIDE DEF D, Step
      <4> QED
        BY <2>1, <2>4 DEF Solves
    <3>2. N \ {pick[N]} \in SUBSET D
      OBVIOUS
    <3> HIDE DEF D
    <3>3. g[N \ {pick[N]}] \in W[N \ {pick[N]}]
      BY <2>2, <3>2
    <3> QED
      BY <1>2, <3>1, <3>3
  <2>5. FoldSteps(g, n, T, base, step)
    BY <2>2, <2>3, <2>4 DEF FoldSteps
  <2> QED
    BY <2>5
<1>9. ASSUME NEW K, FoldedBy(K, n, T, base, step) PROVE K[D] \in T /\ K[D] \in V[n]
  <2>0. /\ K[{}] = base
        /\ \A N \in SUBSET D : N # {} /\ K[N \ {Max(N)}] \in T => K[N] = step[Max(N)][K[N \ {Max(N)}]]
    BY <1>9 DEF FoldedBy
  <2>1. \A N \in SUBSET D : N # {} /\ K[N \ {pick[N]}] \in W[N \ {pick[N]}]
           => K[N] = Step[N][K[N \ {pick[N]}]]
    <3> SUFFICES ASSUME NEW N \in SUBSET D, N # {}, K[N \ {pick[N]}] \in W[N \ {pick[N]}]
                 PROVE  K[N] = Step[N][K[N \ {pick[N]}]]
      OBVIOUS
    <3>1. N \ {pick[N]} \in SUBSET D
      OBVIOUS
    <3> HIDE DEF D
    <3>2. K[N \ {pick[N]}] \in T
      BY <1>4, <3>1
    <3> QED
      BY <1>2, <2>0, <3>2
  <2>2. \A N \in SUBSET D : K[N] \in W[N]
    <3> HIDE DEF D, Step
    <3> QED
      BY <1>7, <2>0, <2>1, SubsetInvariant
  <2>3. n \in 0 .. n /\ D \in SUBSET D
    OBVIOUS
  <2> QED
    BY <1>4, <2>2, <2>3
<1>10. \A N \in SUBSET (1 .. n) : N # {} => Max(N) \in 1 .. n /\ N \ {Max(N)} \in SUBSET (1 .. n)
  BY <1>3
<1> QED
  BY <1>8, <1>9, <1>10 DEF FoldRuns

-----------------------------------------------------------------------------
(* The search: one turn. *)

(* The elements of a sequence, with one appended. *)
LEMMA RangeGrows ==
  ASSUME NEW S, NEW s \in Seq(S), NEW x \in S
  PROVE  /\ \A y : y \in Range(s) <=> \E i \in 1 .. Len(s) : s[i] = y
         /\ Range(s) \in SUBSET S
         /\ Range(Append(s, x)) = Range(s) \cup {x}
<1>1. /\ Append(s, x) \in Seq(S) /\ Len(s) \in Nat
      /\ \A i \in 1 .. Len(Append(s, x)) :
           \/ i = Len(s) + 1 /\ Append(s, x)[i] = x
           \/ i \in 1 .. Len(s) /\ Append(s, x)[i] = s[i]
      /\ \A i \in 1 .. Len(s) : i \in 1 .. Len(Append(s, x)) /\ Append(s, x)[i] = s[i]
      /\ Len(s) + 1 \in 1 .. Len(Append(s, x)) /\ Append(s, x)[Len(s) + 1] = x
  BY Appended
<1> DEFINE t == Append(s, x)
<1> HIDE DEF t
<1>2. DOMAIN s = 1 .. Len(s) /\ DOMAIN t = 1 .. Len(t) /\ \A i \in 1 .. Len(s) : s[i] \in S
  <2>1. t \in Seq(S)
    BY <1>1 DEF t
  <2> QED
    BY <2>1, LenProperties, ElementOfSeq
<1>3. \A y : y \in Range(s) <=> \E i \in 1 .. Len(s) : s[i] = y
  BY <1>2 DEF Range
<1>4. \A y : y \in Range(t) <=> \E i \in 1 .. Len(t) : t[i] = y
  BY <1>2 DEF Range
<1>5. \A y : y \in Range(t) <=> y \in Range(s) \/ y = x
  BY <1>1, <1>3, <1>4 DEF t
<1>6. Range(s) \in SUBSET S
  BY <1>2, <1>3
<1>7. Range(t) = Range(s) \cup {x}
  BY <1>5
<1> QED
  BY <1>3, <1>6, <1>7 DEF t

(* The states of a search. *)
Searches(G) == [order : Seq(G.node), queue : Seq(G.node \X Nat)]
(* What a turn of the search has found among A, after the search b. *)
Pushed(G, b, level, limit, A, s) ==
  /\ s \in Searches(G) /\ Len(s.order) <= limit
  /\ \A i, j \in 1 .. Len(s.order) : s.order[i] = s.order[j] => i = j
  /\ Range(b.order) \subseteq Range(s.order) /\ Range(s.order) \subseteq Range(b.order) \cup A
  /\ Len(s.order) < limit => A \subseteq Range(s.order)
  /\ \A i \in 1 .. Len(b.queue) : i \in 1 .. Len(s.queue) /\ s.queue[i] = b.queue[i]
  /\ \A i \in 1 .. Len(s.queue) :
       i \in 1 .. Len(b.queue) \/ (s.queue[i][2] = level /\ s.queue[i][1] \in Range(s.order))
  /\ \A n \in Range(s.order) \ Range(b.order) : \E i \in 1 .. Len(s.queue) : s.queue[i] = <<n, level>>
  /\ Len(s.order) - Len(s.queue) = Len(b.order) - Len(b.queue)

(* Push adds a function to what is found among A. *)
LEMMA PushKeeps ==
  ASSUME NEW G, NEW b, NEW level \in Nat, NEW limit \in Nat, NEW A, NEW s, Pushed(G, b, level, limit, A, s),
         NEW n \in G.node, Len(b.order) \in Nat, Len(b.queue) \in Nat
  PROVE  Pushed(G, b, level, limit, A \cup {n}, Push(s, level, n, limit))
<1>1. s \in Searches(G) /\ s.order \in Seq(G.node) /\ s.queue \in Seq(G.node \X Nat) /\ Len(s.order) \in Nat
      /\ Len(s.queue) \in Nat
  <2>1. s \in Searches(G) /\ s.order \in Seq(G.node) /\ s.queue \in Seq(G.node \X Nat)
    BY DEF Pushed, Searches
  <2> QED
    BY <2>1, LenProperties
<1>2. CASE n \in Range(s.order) \/ Len(s.order) >= limit
  <2>1. Push(s, level, n, limit) = s
    BY <1>2 DEF Push
  <2>2. Len(s.order) < limit => A \cup {n} \subseteq Range(s.order)
    BY <1>1, <1>2 DEF Pushed
  <2>3. Range(s.order) \subseteq Range(b.order) \cup (A \cup {n})
    BY DEF Pushed
  <2> QED
    BY <2>1, <2>2, <2>3 DEF Pushed
<1>3. CASE n \notin Range(s.order) /\ Len(s.order) < limit
  <2> DEFINE o == Append(s.order, n)
             x == <<n, level>>
             q == Append(s.queue, x)
             t == [order |-> o, queue |-> q]
  <2>1. Push(s, level, n, limit) = t
    BY <1>1, <1>3 DEF Push
  <2>2. /\ o \in Seq(G.node) /\ Len(o) = Len(s.order) + 1
        /\ \A i \in 1 .. Len(o) : \/ i = Len(s.order) + 1 /\ o[i] = n
                                  \/ i \in 1 .. Len(s.order) /\ o[i] = s.order[i]
        /\ Range(o) = Range(s.order) \cup {n}
        /\ \A i \in 1 .. Len(s.order) : s.order[i] # n
    <3>1. /\ o \in Seq(G.node) /\ Len(o) = Len(s.order) + 1
          /\ \A i \in 1 .. Len(o) : \/ i = Len(s.order) + 1 /\ o[i] = n
                                    \/ i \in 1 .. Len(s.order) /\ o[i] = s.order[i]
      <4> DEFINE r == s.order
      <4>1. r \in Seq(G.node) /\ o = Append(r, n)
        BY <1>1
      <4> HIDE DEF r, o
      <4>2. /\ o \in Seq(G.node) /\ Len(o) = Len(r) + 1
            /\ \A i \in 1 .. Len(o) : \/ i = Len(r) + 1 /\ o[i] = n
                                      \/ i \in 1 .. Len(r) /\ o[i] = r[i]
        BY <4>1, Appended
      <4> QED
        BY <4>2 DEF r
    <3>2. Range(o) = Range(s.order) \cup {n}
      BY <1>1, RangeGrows
    <3>3. \A y : y \in Range(s.order) <=> \E i \in 1 .. Len(s.order) : s.order[i] = y
      BY <1>1, RangeGrows
    <3> HIDE DEF o
    <3> QED
      BY <1>3, <3>1, <3>2, <3>3
  <2>3. x \in G.node \X Nat /\ x[1] = n /\ x[2] = level /\ x = <<n, level>>
    OBVIOUS
  <2> HIDE DEF x
  <2>4. /\ q \in Seq(G.node \X Nat) /\ Len(q) = Len(s.queue) + 1
        /\ \A i \in 1 .. Len(q) : \/ i = Len(s.queue) + 1 /\ q[i] = x
                                  \/ i \in 1 .. Len(s.queue) /\ q[i] = s.queue[i]
        /\ \A i \in 1 .. Len(s.queue) : i \in 1 .. Len(q) /\ q[i] = s.queue[i]
        /\ Len(s.queue) + 1 \in 1 .. Len(q) /\ q[Len(s.queue) + 1] = x
    BY <1>1, <2>3, Appended
  <2>5. t.order = o /\ t.queue = q
    OBVIOUS
  <2> HIDE DEF o, q
  <2>6. t \in Searches(G)
    BY <2>2, <2>4 DEF Searches
  <2> HIDE DEF t
  <2>7. Len(o) <= limit
    BY <1>1, <1>3, <2>2
  <2>8. \A i, j \in 1 .. Len(o) : o[i] = o[j] => i = j
    <3>1. \A i, j \in 1 .. Len(s.order) : s.order[i] = s.order[j] => i = j
      BY DEF Pushed
    <3> QED
      BY <2>2, <3>1
  <2>9. Range(b.order) \subseteq Range(o) /\ Range(o) \subseteq Range(b.order) \cup (A \cup {n})
    BY <2>2 DEF Pushed
  <2>10. A \cup {n} \subseteq Range(o)
    BY <1>3, <2>2 DEF Pushed
  <2>11. \A i \in 1 .. Len(b.queue) : i \in 1 .. Len(q) /\ q[i] = b.queue[i]
    <3>1. \A i \in 1 .. Len(b.queue) : i \in 1 .. Len(s.queue) /\ s.queue[i] = b.queue[i]
      BY DEF Pushed
    <3> QED
      BY <2>4, <3>1
  <2>12. \A i \in 1 .. Len(q) : i \in 1 .. Len(b.queue) \/ (q[i][2] = level /\ q[i][1] \in Range(o))
    <3>1. \A i \in 1 .. Len(s.queue) :
            i \in 1 .. Len(b.queue) \/ (s.queue[i][2] = level /\ s.queue[i][1] \in Range(s.order))
      BY DEF Pushed
    <3> QED
      BY <2>2, <2>3, <2>4, <3>1
  <2>13. \A m \in Range(o) \ Range(b.order) : \E i \in 1 .. Len(q) : q[i] = <<m, level>>
    <3>1. \A m \in Range(s.order) \ Range(b.order) : \E i \in 1 .. Len(s.queue) : s.queue[i] = <<m, level>>
      BY DEF Pushed
    <3> SUFFICES ASSUME NEW m \in Range(o) \ Range(b.order) PROVE \E i \in 1 .. Len(q) : q[i] = <<m, level>>
      OBVIOUS
    <3>2. CASE m = n
      BY <2>3, <2>4, <3>2
    <3>3. CASE m \in Range(s.order)
      BY <2>4, <3>1, <3>3
    <3> QED
      BY <2>2, <3>2, <3>3
  <2>14. Len(o) - Len(q) = Len(b.order) - Len(b.queue)
    <3>1. Len(s.order) - Len(s.queue) = Len(b.order) - Len(b.queue)
      BY DEF Pushed
    <3> DEFINE k == Len(s.order)
               l == Len(s.queue)
               u == Len(b.order) - Len(b.queue)
    <3>2. k \in Nat /\ l \in Nat /\ k - l = u /\ Len(o) = k + 1 /\ Len(q) = l + 1
      BY <1>1, <2>2, <2>4, <3>1
    <3> HIDE DEF k, l, u
    <3>3. (k + 1) - (l + 1) = u
      BY <3>2
    <3> QED
      BY <3>2, <3>3 DEF u
  <2>15. Pushed(G, b, level, limit, A \cup {n}, t)
    BY <2>5, <2>6, <2>7, <2>8, <2>9, <2>10, <2>11, <2>12, <2>13, <2>14 DEF Pushed
  <2> QED
    BY <2>1, <2>15
<1> QED
  BY <1>1, <1>2, <1>3

(* What Expand pushes, one after another. *)
PushedAll(b, level, limit, f) == FoldLeft(LAMBDA s, n : Push(s, level, n, limit), b, f)

(* Push leads from a search to a search. *)
LEMMA PushIsSearch ==
  ASSUME NEW G, NEW s \in Searches(G), NEW level \in Nat, NEW limit, NEW n \in G.node
  PROVE  Push(s, level, n, limit) \in Searches(G)
<1> DEFINE x == <<n, level>>
<1>1. s.order \in Seq(G.node) /\ s.queue \in Seq(G.node \X Nat) /\ x \in G.node \X Nat
  BY DEF Searches
<1> HIDE DEF x
<1>2. Append(s.order, n) \in Seq(G.node) /\ Append(s.queue, x) \in Seq(G.node \X Nat)
  BY <1>1, Appended
<1>3. [order |-> Append(s.order, n), queue |-> Append(s.queue, x)] \in Searches(G)
  BY <1>2 DEF Searches
<1> QED
  BY <1>3 DEF Push, x

(* Expand finds all of A, as far as the limit admits. *)
LEMMA PushedAllKeeps ==
  ASSUME NEW G, NEW b \in Searches(G), NEW level \in Nat, NEW limit \in Nat, NEW A \in SUBSET G.node,
         NEW f, Listing(f, A), Len(b.order) <= limit,
         \A i, j \in 1 .. Len(b.order) : b.order[i] = b.order[j] => i = j
  PROVE  Pushed(G, b, level, limit, A, PushedAll(b, level, limit, f))
<1> DEFINE n == Len(f)
           First(k) == {f[i] : i \in 1 .. k}
           T == Searches(G)
           V == [k \in 0 .. n |-> {s \in T : Pushed(G, b, level, limit, First(k), s)}]
           step == [i \in 1 .. n |-> [s \in T |-> Push(s, level, f[i], limit)]]
           Body(iter, N) == IF N = {} THEN b
                            ELSE LET x == Max(N)
                                 IN  Push(iter[N \ {x}], level, f[x], limit)
           Solved(iter) == iter = [N \in SUBSET (DOMAIN f) |-> Body(iter, N)]
           K == CHOOSE iter : Solved(iter)
<1>1. n \in Nat /\ DOMAIN f = 1 .. n /\ \A i \in 1 .. n : f[i] \in A /\ f[i] \in G.node
  BY DEF Listing
<1>2. PushedAll(b, level, limit, f) = K[DOMAIN f]
  BY DEF PushedAll, FoldLeft, MapThenFoldSet
<1>3. Len(b.order) \in Nat /\ Len(b.queue) \in Nat
  BY LenProperties DEF Searches
<1> HIDE DEF n
<1>4. b \in V[0]
  <2>1. First(0) = {} /\ 0 \in 0 .. n
    BY <1>1
  <2>2. Pushed(G, b, level, limit, {}, b)
    BY <1>3 DEF Pushed
  <2> HIDE DEF First
  <2> QED
    BY <2>1, <2>2
<1>5. ASSUME NEW i \in 1 .. n, NEW s \in T PROVE step[i][s] = Push(s, level, f[i], limit) /\ step[i][s] \in T
  BY <1>1, PushIsSearch
<1>6. ASSUME NEW i \in 1 .. n, NEW s \in T, s \in V[i - 1] PROVE step[i][s] \in V[i]
  <2>1. i - 1 \in 0 .. n /\ i \in 0 .. n
    BY <1>1
  <2>2. First(i - 1) \cup {f[i]} = First(i)
    <3>1. \A j : j \in 1 .. i <=> j \in 1 .. i - 1 \/ j = i
      BY <1>1
    <3> QED
      BY <3>1
  <2> HIDE DEF First, T, step
  <2>3. Pushed(G, b, level, limit, First(i - 1), s)
    BY <1>6, <2>1
  <2>4. Pushed(G, b, level, limit, First(i), Push(s, level, f[i], limit))
    BY <1>1, <1>3, <2>2, <2>3, PushKeeps
  <2> QED
    BY <1>5, <2>1, <2>4
<1> HIDE DEF V, T, step
<1>7. Folding(n, T, V, b, step)
  <2>1. b \in T
    BY DEF T
  <2> QED
    BY <1>4, <1>5, <1>6, <2>1 DEF Folding
<1>8. FoldRuns(n, T, V, b, step)
  BY <1>1, <1>7, FoldWorks
<1>9. PICK g : FoldSteps(g, n, T, b, step)
  BY <1>8 DEF FoldRuns
<1>10. Solved(g)
  <2>1. ASSUME NEW N \in SUBSET (1 .. n) PROVE g[N] = Body(g, N)
    <3>1. CASE N = {}
      BY <1>9, <3>1 DEF FoldSteps
    <3>2. CASE N # {}
      <4>1. Max(N) \in 1 .. n /\ N \ {Max(N)} \in SUBSET (1 .. n)
        BY <1>8, <3>2 DEF FoldRuns
      <4>2. g[N] = step[Max(N)][g[N \ {Max(N)}]] /\ g[N \ {Max(N)}] \in T
        BY <1>9, <3>2, <4>1 DEF FoldSteps
      <4>3. g[N] = Push(g[N \ {Max(N)}], level, f[Max(N)], limit)
        BY <1>5, <4>1, <4>2
      <4> QED
        BY <3>2, <4>3
    <3> QED
      BY <3>1, <3>2
  <2> HIDE DEF Body
  <2> QED
    BY <1>1, <1>9, <2>1 DEF FoldSteps
<1>11. Solved(K)
  <2> HIDE DEF Solved
  <2> QED
    BY <1>10
<1>12. \A N \in SUBSET (1 .. n) : K[N] = Body(K, N)
  <2> HIDE DEF K, Body
  <2> QED
    BY <1>1, <1>11
<1> HIDE DEF K
<1>13. K[{}] = b
  BY <1>12
<1>14. ASSUME NEW N \in SUBSET (1 .. n), N # {}, K[N \ {Max(N)}] \in T
       PROVE  K[N] = step[Max(N)][K[N \ {Max(N)}]]
  <2>1. K[N] = Push(K[N \ {Max(N)}], level, f[Max(N)], limit)
    BY <1>12, <1>14
  <2>2. Max(N) \in 1 .. n
    BY <1>8, <1>14 DEF FoldRuns
  <2> QED
    BY <1>5, <1>14, <2>1, <2>2
<1>15. K[1 .. n] \in V[n]
  <2>1. FoldedBy(K, n, T, b, step)
    BY <1>13, <1>14 DEF FoldedBy
  <2> QED
    BY <1>8, <2>1 DEF FoldRuns
<1>16. First(n) = A
  BY DEF Listing, n
<1> HIDE DEF First
<1>17. n \in 0 .. n
  BY <1>1
<1> QED
  BY <1>1, <1>2, <1>15, <1>16, <1>17 DEF V

-----------------------------------------------------------------------------
(* The search: level by level. *)

(* Level by level: the functions within L calls are shown, those one call *)
(* further are being found. *)
Stage(G, f, depth, limit, dir, L, s) ==
  /\ NearTo(G, f, L, dir) \subseteq Range(s.order)
  /\ Range(s.order) \subseteq NearTo(G, f, depth, dir)
  /\ L < depth => Range(s.order) \subseteq NearTo(G, f, L + 1, dir)
  /\ \A i \in 1 .. Len(s.queue) :
       /\ s.queue[i][1] \in Range(s.order)
       /\ \/ s.queue[i][2] = L /\ s.queue[i][1] \in NearTo(G, f, L, dir)
          \/ s.queue[i][2] = L + 1 /\ L < depth
  /\ \A i, j \in 1 .. Len(s.queue) : i < j => s.queue[i][2] <= s.queue[j][2]
  /\ Len(s.order) < limit /\ L < depth =>
       /\ \A n \in NearTo(G, f, L, dir) :
            \/ Adjacent(G, n, dir) \subseteq Range(s.order)
            \/ \E i \in 1 .. Len(s.queue) : s.queue[i] = <<n, L>>
       /\ \A n \in Range(s.order) \ NearTo(G, f, L, dir) :
            \E i \in 1 .. Len(s.queue) : s.queue[i] = <<n, L + 1>>

(* The entries of the queue are functions and their levels. *)
LEMMA QueueMeans ==
  ASSUME NEW G, NEW s \in Searches(G)
  PROVE  /\ Len(s.queue) \in Nat /\ Len(s.order) \in Nat
         /\ \A i \in 1 .. Len(s.queue) : /\ s.queue[i] = <<s.queue[i][1], s.queue[i][2]>>
                                         /\ s.queue[i][1] \in G.node /\ s.queue[i][2] \in Nat
<1>1. s.queue \in Seq(G.node \X Nat) /\ s.order \in Seq(G.node)
  BY DEF Searches
<1>2. \A i \in 1 .. Len(s.queue) : s.queue[i] \in G.node \X Nat
  BY <1>1, ElementOfSeq
<1>3. \A x \in G.node \X Nat : x = <<x[1], x[2]>> /\ x[1] \in G.node /\ x[2] \in Nat
  OBVIOUS
<1> QED
  BY <1>1, <1>2, <1>3, LenProperties

(* Once the head of the queue is of the next level, that level is shown. *)
LEMMA StageMoves ==
  ASSUME NEW G, IsGraph(G), NEW f \in G.node, NEW depth \in Nat, NEW limit \in Nat, NEW dir,
         NEW L \in 0 .. depth, NEW s \in Searches(G), Stage(G, f, depth, limit, dir, L, s),
         s.queue # <<>>, Len(s.order) < limit
  PROVE  \E M \in 0 .. depth : /\ Stage(G, f, depth, limit, dir, M, s)
                               /\ s.queue[1][2] = M /\ s.queue[1][1] \in NearTo(G, f, M, dir)
<1> DEFINE Near_(k) == NearTo(G, f, k, dir)
           shown == Range(s.order)
           q == s.queue
<1>1. /\ Near_(L) \subseteq shown /\ shown \subseteq Near_(depth)
      /\ L < depth => shown \subseteq Near_(L + 1)
  BY DEF Stage
<1>2. /\ \A i \in 1 .. Len(q) : /\ q[i][1] \in shown
                                /\ \/ q[i][2] = L /\ q[i][1] \in Near_(L)
                                   \/ q[i][2] = L + 1 /\ L < depth
      /\ \A i, j \in 1 .. Len(q) : i < j => q[i][2] <= q[j][2]
  BY DEF Stage
<1>3. L < depth => /\ \A n \in Near_(L) : \/ Adjacent(G, n, dir) \subseteq shown
                                          \/ \E i \in 1 .. Len(q) : q[i] = <<n, L>>
                   /\ \A n \in shown \ Near_(L) : \E i \in 1 .. Len(q) : q[i] = <<n, L + 1>>
  BY DEF Stage
<1>4. /\ Len(q) \in Nat /\ 1 \in 1 .. Len(q)
      /\ \A i \in 1 .. Len(q) : q[i][2] \in Nat
  <2>1. q \in Seq(G.node \X Nat)
    BY DEF Searches
  <2>2. Len(q) \in Nat /\ \A i \in 1 .. Len(q) : q[i][2] \in Nat
    BY QueueMeans
  <2>3. Len(q) # 0
    BY <2>1, EmptySeq
  <2> QED
    BY <2>2, <2>3
<1>5. CASE q[1][2] = L
  <2>1. q[1][1] \in Near_(L)
    BY <1>2, <1>4, <1>5
  <2> QED
    BY <1>5, <2>1
<1>6. CASE q[1][2] # L
  <2>1. L < depth /\ q[1][2] = L + 1
    BY <1>2, <1>4, <1>6
  <2>2. \A i \in 1 .. Len(q) : q[i][2] = L + 1
    <3> SUFFICES ASSUME NEW i \in 1 .. Len(q) PROVE q[i][2] = L + 1
      OBVIOUS
    <3>1. i = 1 \/ 1 < i
      BY <1>4
    <3>2. q[1][2] <= q[i][2]
      BY <1>2, <1>4, <3>1
    <3>3. q[i][2] = L \/ q[i][2] = L + 1
      BY <1>2
    <3> QED
      BY <2>1, <3>2, <3>3
  <2>3. \A n \in Near_(L) : Adjacent(G, n, dir) \subseteq shown
    <3>1. \A n : \A i \in 1 .. Len(q) : q[i] # <<n, L>>
      <4> SUFFICES ASSUME NEW n, NEW i \in 1 .. Len(q), q[i] = <<n, L>> PROVE FALSE
        OBVIOUS
      <4>1. q[i][2] = L
        BY QueueMeans
      <4> QED
        BY <2>2, <4>1
    <3> HIDE DEF Near_, shown, q
    <3> QED
      BY <1>3, <2>1, <3>1
  <2>4. Near_(L + 1) = Wider(G, dir, Near_(L))
    BY NearStep
  <2>5. shown = Near_(L + 1)
    <3>1. Wider(G, dir, Near_(L)) \subseteq shown
      BY <1>1, <2>3 DEF Wider
    <3> QED
      BY <1>1, <2>1, <2>4, <3>1
  <2>6. L + 1 \in 0 .. depth /\ L + 1 \in Nat
    BY <2>1
  <2>7. L + 1 < depth => shown \subseteq Near_(L + 1 + 1)
    <3>1. Near_(L + 1) \subseteq Near_(L + 1 + 1)
      BY <2>6, NearIsWide
    <3> QED
      BY <2>5, <3>1
  <2>8. \A n \in Near_(L + 1) : \/ Adjacent(G, n, dir) \subseteq shown
                                \/ \E i \in 1 .. Len(q) : q[i] = <<n, L + 1>>
    <3> HIDE DEF Near_, shown, q
    <3> QED
      BY <1>3, <2>1, <2>3, <2>5
  <2>9. \A n \in shown \ Near_(L + 1) : FALSE
    BY <2>5
  <2>10. \A i \in 1 .. Len(q) : q[i][1] \in shown /\ q[i][2] = L + 1 /\ q[i][1] \in Near_(L + 1)
    BY <1>2, <2>2, <2>5
  <2>11. Stage(G, f, depth, limit, dir, L + 1, s)
    BY <1>1, <1>2, <2>5, <2>7, <2>8, <2>9, <2>10 DEF Stage
  <2>12. q[1][2] = L + 1 /\ q[1][1] \in Near_(L + 1)
    BY <1>4, <2>10
  <2> QED
    BY <2>6, <2>11, <2>12
<1> QED
  BY <1>5, <1>6

(* The inductive invariant of the turns of Search: turn k has taken k *)
(* functions from the queue, or the search is over. *)
SearchHolds(G, f, depth, limit, dir, k, s) ==
  /\ s \in Searches(G) /\ Len(s.order) <= limit
  /\ \A i, j \in 1 .. Len(s.order) : s.order[i] = s.order[j] => i = j
  /\ Len(s.order) = Len(s.queue) + k \/ s.queue = <<>> \/ Len(s.order) >= limit
  /\ \E L \in 0 .. depth : Stage(G, f, depth, limit, dir, L, s)

(* A turn of the search keeps its invariant. *)
LEMMA HeadIsDone ==
  ASSUME NEW G, OfSymbols(G), NEW f \in G.node, NEW depth \in Nat, NEW limit \in Nat, NEW dir,
         NEW k \in Nat, NEW s, SearchHolds(G, f, depth, limit, dir, k, s),
         s.queue # <<>>, Len(s.order) < limit
  PROVE  SearchHolds(G, f, depth, limit, dir, k + 1, Expand(G, s, depth, limit, dir))
<1> DEFINE Near_(m) == NearTo(G, f, m, dir)
           q == s.queue
           o == s.order
           head == Head(q)
           r == Tail(q)
           rest == [order |-> o, queue |-> r]
<1>1. IsGraph(G) /\ s \in Searches(G) /\ o \in Seq(G.node) /\ q \in Seq(G.node \X Nat) /\ Len(o) <= limit
      /\ \A i, j \in 1 .. Len(o) : o[i] = o[j] => i = j
  BY DEF SearchHolds, Searches, OfSymbols
<1>2. PICK L \in 0 .. depth : /\ Stage(G, f, depth, limit, dir, L, s)
                              /\ q[1][2] = L /\ q[1][1] \in Near_(L)
  <2>1. PICK K \in 0 .. depth : Stage(G, f, depth, limit, dir, K, s)
    BY DEF SearchHolds
  <2> HIDE DEF SearchHolds
  <2> QED
    BY <1>1, <2>1, StageMoves
<1>3. /\ r \in Seq(G.node \X Nat) /\ Len(q) \in Nat \ {0} /\ Len(r) = Len(q) - 1 /\ head = q[1] /\ 1 \in 1 .. Len(q)
      /\ \A i \in 1 .. Len(r) : i + 1 \in 1 .. Len(q) /\ i + 1 # 1 /\ r[i] = q[i + 1]
      /\ \A i \in 1 .. Len(q) : i = 1 \/ (i - 1 \in 1 .. Len(r) /\ r[i - 1] = q[i])
  <2>1. q \in Seq(G.node \X Nat) /\ q # <<>>
    BY <1>1
  <2> HIDE DEF q
  <2> QED
    BY <2>1, Beheaded
<1>4. rest \in Searches(G) /\ rest.order = o /\ rest.queue = r
  BY <1>1, <1>3 DEF Searches
<1>5. /\ Near_(L) \subseteq Range(o) /\ Range(o) \subseteq Near_(depth)
      /\ L < depth => Range(o) \subseteq Near_(L + 1)
      /\ \A i \in 1 .. Len(q) : /\ q[i][1] \in Range(o)
                                /\ \/ q[i][2] = L /\ q[i][1] \in Near_(L)
                                   \/ q[i][2] = L + 1 /\ L < depth
      /\ \A i, j \in 1 .. Len(q) : i < j => q[i][2] <= q[j][2]
  BY <1>2 DEF Stage
<1>6. L < depth => /\ \A n \in Near_(L) : \/ Adjacent(G, n, dir) \subseteq Range(o)
                                          \/ \E i \in 1 .. Len(q) : q[i] = <<n, L>>
                   /\ \A n \in Range(o) \ Near_(L) : \E i \in 1 .. Len(q) : q[i] = <<n, L + 1>>
  BY <1>2 DEF Stage
<1>7. Len(o) = Len(r) + (k + 1) /\ Len(o) \in Nat
  <2>1. Len(o) = Len(q) + k /\ Len(o) \in Nat
    BY <1>1, LenProperties DEF SearchHolds
  <2> DEFINE x == Len(q)
             y == Len(r)
  <2>2. x \in Nat /\ y = x - 1 /\ Len(o) = x + k
    BY <1>3, <2>1
  <2> HIDE DEF x, y
  <2>3. Len(o) = y + (k + 1)
    BY <2>2
  <2> QED
    BY <2>1, <2>3 DEF y
<1>8. /\ \A i \in 1 .. Len(r) : /\ r[i][1] \in Range(o)
                                /\ \/ r[i][2] = L /\ r[i][1] \in Near_(L)
                                   \/ r[i][2] = L + 1 /\ L < depth
      /\ \A i, j \in 1 .. Len(r) : i < j => r[i][2] <= r[j][2]
  <2> HIDE DEF Near_, r, q, o
  <2>1. ASSUME NEW i \in 1 .. Len(r), NEW j \in 1 .. Len(r), i < j PROVE r[i][2] <= r[j][2]
    <3>1. i + 1 \in 1 .. Len(q) /\ j + 1 \in 1 .. Len(q) /\ i + 1 < j + 1
      BY <1>3, <2>1
    <3> QED
      BY <1>3, <1>5, <3>1
  <2> QED
    BY <1>3, <1>5, <2>1
<1>9. [s EXCEPT !.queue = Tail(@)] = rest
  <2>1. s = [order |-> o, queue |-> q]
    BY <1>1 DEF Searches
  <2> HIDE DEF o, q
  <2> QED
    BY <2>1
<1> HIDE DEF Near_, q, o, r
<1>10. CASE L = depth
  <2>1. Expand(G, s, depth, limit, dir) = rest
    <3>1. head[2] >= depth
      BY <1>2, <1>3, <1>10
    <3> QED
      BY <1>9, <3>1 DEF Expand, q
  <2>2. ~(L < depth)
    BY <1>10
  <2> HIDE DEF rest, SearchHolds
  <2>3. Stage(G, f, depth, limit, dir, L, rest)
    BY <1>4, <1>5, <1>8, <2>2 DEF Stage, Near_
  <2> QED
    BY <1>1, <1>4, <1>7, <2>1, <2>3 DEF SearchHolds
<1>11. CASE L # depth
  <2> DEFINE A == Adjacent(G, head[1], dir)
             t == PushedAll(rest, L + 1, limit, Sorted(A))
  <2>1. L < depth /\ L + 1 \in Nat /\ L + 1 \in 0 .. depth
    BY <1>11
  <2>2. Expand(G, s, depth, limit, dir) = t
    <3>1. ~(head[2] >= depth) /\ head[2] = L
      BY <1>2, <1>3, <2>1
    <3>2. Expand(G, s, depth, limit, dir)
            = IF Head(s.queue)[2] >= depth THEN [s EXCEPT !.queue = Tail(@)]
              ELSE PushedAll([s EXCEPT !.queue = Tail(@)], Head(s.queue)[2] + 1, limit,
                             Sorted(Adjacent(G, Head(s.queue)[1], dir)))
      BY DEF Expand, PushedAll
    <3> HIDE DEF rest
    <3> QED
      BY <1>9, <3>1, <3>2 DEF q
  <2>3. A \in SUBSET G.node /\ Listing(Sorted(A), A)
    <3>1. A \in SUBSET G.node
      BY <1>1, AdjacentAreNodes
    <3> HIDE DEF A
    <3>2. A \in SUBSET Int /\ IsFiniteSet(A)
      BY <3>1, FS_Subset DEF OfSymbols, IsGraph
    <3> QED
      BY <3>1, <3>2, SortedIsListing
  <2>4. A \subseteq Near_(L + 1)
    <3>1. Near_(L + 1) = Wider(G, dir, Near_(L))
      BY <1>1, NearStep DEF Near_
    <3> QED
      BY <1>2, <1>3, <3>1 DEF Wider
  <2> HIDE DEF A, rest
  <2>5. Pushed(G, rest, L + 1, limit, A, t)
    BY <1>1, <1>4, <2>1, <2>3, PushedAllKeeps
  <2> HIDE DEF t
  <2> DEFINE p == t.order
             v == t.queue
  <2>6. /\ t \in Searches(G) /\ Len(p) <= limit
        /\ \A i, j \in 1 .. Len(p) : p[i] = p[j] => i = j
        /\ Range(o) \subseteq Range(p) /\ Range(p) \subseteq Range(o) \cup A
        /\ Len(p) < limit => A \subseteq Range(p)
        /\ \A i \in 1 .. Len(r) : i \in 1 .. Len(v) /\ v[i] = r[i]
        /\ \A i \in 1 .. Len(v) : i \in 1 .. Len(r) \/ (v[i][2] = L + 1 /\ v[i][1] \in Range(p))
        /\ \A n \in Range(p) \ Range(o) : \E i \in 1 .. Len(v) : v[i] = <<n, L + 1>>
        /\ Len(p) - Len(v) = Len(o) - Len(r)
    BY <1>4, <2>5 DEF Pushed
  <2> HIDE DEF SearchHolds, p, v
  <2>7. Near_(L) \subseteq Range(p) /\ Range(p) \subseteq Near_(L + 1) /\ Range(p) \subseteq Near_(depth)
    <3>1. Near_(L + 1) \subseteq Near_(depth)
      BY <1>1, <2>1, NearIsWide DEF Near_
    <3> QED
      BY <1>5, <2>1, <2>4, <2>6, <3>1
  <2>8. ASSUME NEW i \in 1 .. Len(v)
        PROVE  v[i][1] \in Range(p) /\ ((v[i][2] = L /\ v[i][1] \in Near_(L)) \/ v[i][2] = L + 1)
    <3>1. CASE i \in 1 .. Len(r)
      BY <1>8, <2>6, <3>1
    <3>2. CASE v[i][2] = L + 1 /\ v[i][1] \in Range(p)
      BY <3>2
    <3> QED
      BY <2>6, <3>1, <3>2
  <2>9. ASSUME NEW i \in 1 .. Len(v), NEW j \in 1 .. Len(v), i < j PROVE v[i][2] <= v[j][2]
    <3>1. CASE j \in 1 .. Len(r)
      <4>1. i \in 1 .. Len(r)
        BY <1>3, <2>9, <3>1
      <4> QED
        BY <1>8, <2>6, <2>9, <3>1, <4>1
    <3>2. CASE v[j][2] = L + 1
      BY <2>8, <3>2
    <3> QED
      BY <2>6, <3>1, <3>2
  <2>10. ASSUME Len(p) < limit, NEW n \in Near_(L)
         PROVE  \/ Adjacent(G, n, dir) \subseteq Range(p)
                \/ \E i \in 1 .. Len(v) : v[i] = <<n, L>>
    <3>1. CASE Adjacent(G, n, dir) \subseteq Range(o)
      BY <2>6, <3>1
    <3>2. ASSUME NEW i \in 1 .. Len(q), q[i] = <<n, L>>
          PROVE  \/ Adjacent(G, n, dir) \subseteq Range(p)
                 \/ \E j \in 1 .. Len(v) : v[j] = <<n, L>>
      <4>1. CASE i = 1
        <5>1. head[1] = n
          BY <1>3, <3>2, <4>1
        <5> QED
          BY <2>6, <2>10, <5>1 DEF A
      <4>2. CASE i # 1
        <5>1. i - 1 \in 1 .. Len(r) /\ r[i - 1] = <<n, L>>
          BY <1>3, <3>2, <4>2
        <5>2. i - 1 \in 1 .. Len(v) /\ v[i - 1] = <<n, L>>
          BY <2>6, <5>1
        <5> QED
          BY <5>2
      <4> QED
        BY <4>1, <4>2
    <3> QED
      BY <1>6, <2>1, <3>1, <3>2
  <2>11. ASSUME NEW n \in Range(p) \ Near_(L) PROVE \E i \in 1 .. Len(v) : v[i] = <<n, L + 1>>
    <3>1. CASE n \in Range(o)
      <4>1. PICK i \in 1 .. Len(q) : q[i] = <<n, L + 1>>
        BY <1>6, <2>1, <3>1
      <4>2. i # 1
        <5>1. q[i][2] = L + 1
          BY <4>1
        <5> QED
          BY <1>2, <2>1, <5>1
      <4>3. i - 1 \in 1 .. Len(r) /\ r[i - 1] = <<n, L + 1>>
        BY <1>3, <4>1, <4>2
      <4>4. i - 1 \in 1 .. Len(v) /\ v[i - 1] = <<n, L + 1>>
        BY <2>6, <4>3
      <4> QED
        BY <4>4
    <3>2. CASE n \notin Range(o)
      BY <2>6, <3>2
    <3> QED
      BY <3>1, <3>2
  <2>12. Stage(G, f, depth, limit, dir, L, t)
    BY <2>1, <2>7, <2>8, <2>9, <2>10, <2>11 DEF Stage, Near_, p, v
  <2>13. Len(p) = Len(v) + (k + 1)
    <3> DEFINE a == Len(p)
               b == Len(v)
               c == Len(r)
    <3>1. a \in Nat /\ b \in Nat /\ c \in Nat /\ a - b = (c + (k + 1)) - c
      <4>1. a \in Nat /\ b \in Nat
        BY <2>6, QueueMeans DEF p, v
      <4>2. c \in Nat
        BY <1>3
      <4> QED
        BY <1>7, <2>6, <4>1, <4>2
    <3> HIDE DEF a, b, c
    <3>2. a = b + (k + 1)
      BY <3>1
    <3> QED
      BY <3>2 DEF a, b
  <2> QED
    BY <2>2, <2>6, <2>12, <2>13 DEF SearchHolds, p, v
<1> QED
  BY <1>10, <1>11

-----------------------------------------------------------------------------
(* The search shows the nearest. *)

(* A sequence without repetition is as long as its set of elements. *)
LEMMA DistinctCount ==
  ASSUME NEW S, NEW s \in Seq(S), \A i, j \in 1 .. Len(s) : s[i] = s[j] => i = j
  PROVE  IsFiniteSet(Range(s)) /\ Cardinality(Range(s)) = Len(s)
<1>1. /\ Len(s) \in Nat /\ DOMAIN s = 1 .. Len(s) /\ s = [i \in 1 .. Len(s) |-> s[i]]
  BY LenProperties
<1>2. \A i \in 1 .. Len(s) : s[i] \in Range(s)
  BY <1>1 DEF Range
<1>3. s \in [1 .. Len(s) -> Range(s)]
  BY <1>1, <1>2
<1>4. \A x \in Range(s) : \E i \in 1 .. Len(s) : s[i] = x
  BY <1>1 DEF Range
<1>5. Listing(s, Range(s))
  <2> DEFINE n == Len(s)
             R == Range(s)
  <2>1. n \in Nat /\ s \in [1 .. n -> R] /\ (\A i, j \in 1 .. n : s[i] = s[j] => i = j)
        /\ \A x \in R : \E i \in 1 .. n : s[i] = x
    BY <1>1, <1>3, <1>4
  <2> HIDE DEF n, R
  <2>2. Listing(s, R)
    BY <2>1, IsListing
  <2> QED
    BY <2>2 DEF R
<1> QED
  BY <1>5, ListingCounts

(* The search before its first turn. *)
SearchStart(f) == [order |-> <<f>>, queue |-> <<<<f, 0>>>>]

(* Its invariant holds at the start. *)
LEMMA SearchStarts ==
  ASSUME NEW G, IsGraph(G), NEW f \in G.node, NEW depth \in Nat, NEW limit \in Nat \ {0}, NEW dir
  PROVE  SearchHolds(G, f, depth, limit, dir, 0, SearchStart(f))
<1>0. \A S, y : y \in S => <<y>> \in Seq(S) /\ Len(<<y>>) = 1 /\ <<y>>[1] = y
  OBVIOUS
<1> DEFINE o == <<f>>
           x == <<f, 0>>
           q == <<x>>
           s == SearchStart(f)
<1>1. x \in G.node \X Nat /\ x[1] = f /\ x[2] = 0
  OBVIOUS
<1> HIDE DEF x
<1>2. s.order = o /\ s.queue = q /\ s = [order |-> o, queue |-> q]
  BY DEF SearchStart, x
<1>3. o \in Seq(G.node) /\ Len(o) = 1 /\ o[1] = f /\ q \in Seq(G.node \X Nat) /\ Len(q) = 1 /\ q[1] = x
  <2> HIDE DEF x
  <2>1. q \in Seq(G.node \X Nat) /\ Len(q) = 1 /\ q[1] = x
    BY <1>0, <1>1
  <2>2. o \in Seq(G.node) /\ Len(o) = 1 /\ o[1] = f
    BY <1>0
  <2> QED
    BY <2>1, <2>2
<1>4. Range(o) = {f}
  BY DEF Range
<1> HIDE DEF o, q, s
<1>5. s \in Searches(G)
  BY <1>2, <1>3 DEF Searches
<1>6. NearTo(G, f, 0, dir) = {f} /\ f \in NearTo(G, f, depth, dir)
      /\ (0 < depth => f \in NearTo(G, f, 1, dir))
  <2>1. NearTo(G, f, 0, dir) = {f}
    BY NearGrows
  <2>2. NearTo(G, f, 0, dir) \subseteq NearTo(G, f, depth, dir)
    BY NearIsWide
  <2>3. NearTo(G, f, 0, dir) \subseteq NearTo(G, f, 1, dir)
    BY NearIsWide
  <2> QED
    BY <2>1, <2>2, <2>3
<1>7. \A i \in 1 .. 1 : i = 1
  OBVIOUS
<1>8. q[1] = <<f, 0>>
  BY <1>3 DEF x
<1>9. Stage(G, f, depth, limit, dir, 0, s)
  BY <1>1, <1>2, <1>3, <1>4, <1>6, <1>7, <1>8 DEF Stage
<1>10. 0 \in 0 .. depth
  OBVIOUS
<1>11. Len(o) <= limit /\ Len(o) = Len(q) + 0
  BY <1>3
<1> QED
  BY <1>2, <1>3, <1>5, <1>7, <1>9, <1>10, <1>11 DEF SearchHolds, s

(* ... and after as many turns as there are functions, which is when the *)
(* queue is empty or the limit is reached. *)
LEMMA SearchEnds ==
  ASSUME NEW G, OfSymbols(G), NEW f \in G.node, NEW depth \in Nat, NEW limit \in Nat \ {0}, NEW dir
  PROVE  \E s : /\ Search(G, f, depth, limit, dir) = s.order
                /\ SearchHolds(G, f, depth, limit, dir, Cardinality(G.node), s)
<1> DEFINE n == Cardinality(G.node)
           start == SearchStart(f)
           Turn(s) == IF s.queue = <<>> \/ Len(s.order) >= limit THEN s
                      ELSE Expand(G, s, depth, limit, dir)
           Body(after, k) == IF k = 0 THEN start ELSE Turn(after[k - 1])
           Solved(after) == after = [k \in 0 .. n |-> Body(after, k)]
           K == CHOOSE after : Solved(after)
           V == [k \in 0 .. n |-> {s \in Searches(G) : SearchHolds(G, f, depth, limit, dir, k, s)}]
           step == [s \in Searches(G) |-> Turn(s)]
<1>1. Search(G, f, depth, limit, dir) = K[n].order
  BY DEF Search, SearchStart
<1>2. n \in Nat /\ SearchHolds(G, f, depth, limit, dir, 0, start)
  <2>1. IsGraph(G)
    BY DEF OfSymbols
  <2> QED
    BY <2>1, SearchStarts, FS_CardinalityType DEF IsGraph
<1> HIDE DEF n, start
<1>3. start \in V[0]
  BY <1>2 DEF SearchHolds
<1>4. ASSUME NEW k \in 1 .. n, NEW s \in V[k - 1] PROVE step[s] \in V[k] /\ step[s] = Turn(s)
  <2>1. k - 1 \in 0 .. n /\ k \in 0 .. n /\ k - 1 \in Nat /\ k - 1 + 1 = k
    BY <1>2
  <2>2. s \in Searches(G) /\ SearchHolds(G, f, depth, limit, dir, k - 1, s)
    BY <2>1
  <2>3. SearchHolds(G, f, depth, limit, dir, k, Turn(s))
    <3>1. CASE s.queue = <<>> \/ Len(s.order) >= limit
      <4>1. Turn(s) = s
        BY <3>1
      <4> HIDE DEF Turn
      <4> QED
        BY <2>2, <3>1, <4>1 DEF SearchHolds
    <3>2. CASE ~(s.queue = <<>> \/ Len(s.order) >= limit)
      <4>1. Len(s.order) < limit /\ s.queue # <<>>
        BY <2>2, <3>2, QueueMeans
      <4>2. SearchHolds(G, f, depth, limit, dir, k - 1 + 1, Expand(G, s, depth, limit, dir))
        BY <2>1, <2>2, <4>1, HeadIsDone
      <4>3. Turn(s) = Expand(G, s, depth, limit, dir)
        BY <3>2
      <4> HIDE DEF Turn
      <4> QED
        BY <2>1, <4>2, <4>3
    <3> QED
      BY <3>1, <3>2
  <2> HIDE DEF Turn
  <2>4. Turn(s) \in Searches(G)
    BY <2>3 DEF SearchHolds
  <2>5. step[s] = Turn(s)
    BY <2>2
  <2> QED
    BY <2>1, <2>3, <2>4, <2>5
<1> HIDE DEF V, step, Turn
<1>5. PICK g : Iterates(g, n, V, step, start)
  <2>1. \A k \in 1 .. n : \A s \in V[k - 1] : step[s] \in V[k]
    BY <1>4
  <2> QED
    BY <1>2, <1>3, <2>1, Iterated
<1>6. \A k \in 0 .. n : k = 0 \/ (k \in 1 .. n /\ k - 1 \in 0 .. n)
  BY <1>2
<1>7. Solved(g)
  <2>1. \A k \in 0 .. n : g[k] = Body(g, k)
    BY <1>4, <1>5, <1>6 DEF Iterates
  <2> HIDE DEF Body
  <2> QED
    BY <1>5, <2>1 DEF Iterates
<1>8. Solved(K)
  <2> HIDE DEF Solved
  <2> QED
    BY <1>7
<1>9. \A k \in 0 .. n : K[k] = Body(K, k)
  <2> HIDE DEF K, Body
  <2> QED
    BY <1>8
<1> HIDE DEF K
<1>10. K[0] \in V[0]
  BY <1>2, <1>3, <1>9
<1>11. \A k \in 1 .. n : K[k - 1] \in V[k - 1] => K[k] = step[K[k - 1]]
  <2>1. \A k \in 1 .. n : k \in 0 .. n /\ k # 0
    BY <1>2
  <2> QED
    BY <1>4, <1>9, <2>1
<1>12. \A k \in 0 .. n : K[k] \in V[k]
  <2>1. \A k \in 1 .. n : \A s \in V[k - 1] : step[s] \in V[k]
    BY <1>4
  <2> QED
    BY <1>2, <1>10, <1>11, <2>1, IterationStays
<1>13. SearchHolds(G, f, depth, limit, dir, n, K[n])
  <2>1. n \in 0 .. n
    BY <1>2
  <2> QED
    BY <1>12, <2>1 DEF V
<1> QED
  BY <1>1, <1>13 DEF n

(* What the view of a function shows: the nearest functions, up to the *)
(* limit; below the limit, all within the depth. *)
NearestFirst(G, f, depth, limit, dir, o) ==
  /\ o \in Seq(G.node) /\ Len(o) <= limit
  /\ \A i, j \in 1 .. Len(o) : o[i] = o[j] => i = j
  /\ Range(o) \subseteq NearTo(G, f, depth, dir)
  /\ \A d \in 0 .. depth : \/ NearTo(G, f, d, dir) \subseteq Range(o)
                           \/ Range(o) \subseteq NearTo(G, f, d, dir)
  /\ Len(o) < limit => Range(o) = NearTo(G, f, depth, dir)

(* Search shows the nearest first. *)
LEMMA SearchShows ==
  ASSUME NEW G, OfSymbols(G), NEW f \in G.node, NEW depth \in Nat, NEW limit \in Nat \ {0}, NEW dir
  PROVE  NearestFirst(G, f, depth, limit, dir, Search(G, f, depth, limit, dir))
<1> DEFINE o == Search(G, f, depth, limit, dir)
<1>1. PICK s : /\ o = s.order
               /\ SearchHolds(G, f, depth, limit, dir, Cardinality(G.node), s)
  BY SearchEnds
<1> HIDE DEF o
<1> DEFINE Near_(k) == NearTo(G, f, k, dir)
           q == s.queue
<1>2. /\ IsGraph(G) /\ s \in Searches(G) /\ Len(o) <= limit
      /\ \A i, j \in 1 .. Len(o) : o[i] = o[j] => i = j
      /\ Len(o) = Len(q) + Cardinality(G.node) \/ q = <<>> \/ Len(o) >= limit
  BY <1>1 DEF SearchHolds, OfSymbols
<1>3. o \in Seq(G.node) /\ q \in Seq(G.node \X Nat)
  BY <1>1, <1>2 DEF Searches
<1>4. PICK L \in 0 .. depth : Stage(G, f, depth, limit, dir, L, s)
  BY <1>1 DEF SearchHolds
<1>5. /\ Near_(L) \subseteq Range(o) /\ Range(o) \subseteq Near_(depth)
      /\ L < depth => Range(o) \subseteq Near_(L + 1)
  BY <1>1, <1>4 DEF Stage
<1>6. ASSUME NEW d \in 0 .. depth PROVE Near_(d) \subseteq Range(o) \/ Range(o) \subseteq Near_(d)
  <2>1. CASE d <= L
    <3>1. Near_(d) \subseteq Near_(L)
      BY <1>2, <2>1, NearIsWide
    <3> QED
      BY <1>5, <3>1
  <2>2. CASE d > L
    <3>1. L + 1 \in Nat /\ L + 1 <= d /\ L < depth /\ d \in Nat
      BY <2>2
    <3>2. Near_(L + 1) \subseteq Near_(d)
      BY <1>2, <3>1, NearIsWide
    <3> QED
      BY <1>5, <3>1, <3>2
  <2> QED
    BY <2>1, <2>2
<1>7. ASSUME Len(o) < limit PROVE Range(o) = Near_(depth)
  <2>1. q = <<>>
    <3>1. Len(q) \in Nat /\ Len(o) \in Nat
      BY <1>3, LenProperties
    <3>2. Len(o) <= Cardinality(G.node)
      <4>1. IsFiniteSet(Range(o)) /\ Cardinality(Range(o)) = Len(o)
        BY <1>2, <1>3, DistinctCount
      <4>2. Range(o) \in SUBSET G.node
        BY <1>2, <1>5, NearGrows
      <4> HIDE DEF q
      <4> QED
        BY <1>2, <4>1, <4>2, FS_Subset DEF IsGraph
    <3>3. Cardinality(G.node) \in Nat
      BY <1>2, FS_CardinalityType DEF IsGraph
    <3>4. Len(q) = 0 \/ q = <<>>
      <4> DEFINE x == Len(q)
      <4> HIDE DEF q
      <4> QED
        BY <1>2, <1>7, <3>1, <3>2, <3>3
    <3> QED
      BY <1>3, <3>4, EmptySeq
  <2>2. \A i \in 1 .. Len(q) : FALSE
    BY <2>1, EmptySeq
  <2>3. CASE L = depth
    BY <1>5, <2>3
  <2>4. CASE L # depth
    <3>1. L < depth /\ L \in Nat
      BY <2>4
    <3>2. /\ \A n \in Near_(L) : Adjacent(G, n, dir) \subseteq Range(o)
          /\ \A n \in Range(o) : n \in Near_(L)
      BY <1>1, <1>4, <1>7, <2>2, <3>1 DEF Stage
    <3>3. Near_(L + 1) = Near_(L)
      <4>1. Near_(L + 1) = Wider(G, dir, Near_(L))
        BY <1>2, <3>1, NearStep
      <4> QED
        BY <3>2, <4>1 DEF Wider
    <3>4. Near_(depth) = Near_(L)
      BY <1>2, <3>1, <3>3, NearIsAll
    <3> QED
      BY <1>5, <3>4
  <2> QED
    BY <2>3, <2>4
<1> QED
  BY <1>2, <1>3, <1>5, <1>6, <1>7 DEF NearestFirst, o

-----------------------------------------------------------------------------
(* Sums. *)

(* A sum of the sizes of disjoint parts is the size of their union. *)
Sizes(f, P, D) ==
  /\ f = [i \in D |-> f[i]]
  /\ \A i \in D : IsFiniteSet(P[i]) /\ f[i] = Cardinality(P[i])
  /\ \A i, j \in D : i # j => P[i] \cap P[j] = {}

(* Finitely many finite parts have a finite union. *)
LEMMA PartsUnite ==
  ASSUME NEW D, IsFiniteSet(D), NEW f, NEW P, Sizes(f, P, D), NEW N \in SUBSET D
  PROVE  IsFiniteSet(UNION {P[i] : i \in N})
<1> DEFINE Good == {N_ \in SUBSET D : IsFiniteSet(UNION {P[i] : i \in N_})}
<1>1. {} \in Good
  <2>1. UNION {P[i] : i \in {}} = {}
    OBVIOUS
  <2> QED
    BY <2>1, FS_EmptySet
<1>2. ASSUME NEW N_ \in SUBSET D, N_ # {}, \A x \in N_ : N_ \ {x} \in Good PROVE N_ \in Good
  <2>1. PICK x \in N_ : TRUE
    BY <1>2
  <2>2. IsFiniteSet(UNION {P[i] : i \in N_ \ {x}}) /\ IsFiniteSet(P[x])
    BY <1>2 DEF Sizes
  <2>3. UNION {P[i] : i \in N_} = (UNION {P[i] : i \in N_ \ {x}}) \cup P[x]
    OBVIOUS
  <2>4. IsFiniteSet((UNION {P[i] : i \in N_ \ {x}}) \cup P[x])
    <3> DEFINE A == UNION {P[i] : i \in N_ \ {x}}
    <3>1. IsFiniteSet(A)
      BY <2>2
    <3> HIDE DEF A
    <3>2. IsFiniteSet(A \cup P[x])
      BY <2>2, <3>1, FS_Union
    <3> QED
      BY <3>2 DEF A
  <2> QED
    BY <2>3, <2>4
<1> HIDE DEF Good
<1>3. SUBSET D \subseteq Good
  BY <1>1, <1>2, SubsetInduct
<1> QED
  BY <1>3 DEF Good

(* SumFunction of the sizes of disjoint parts. *)
LEMMA SumOfSizes ==
  ASSUME NEW D, IsFiniteSet(D), NEW f, NEW P, Sizes(f, P, D)
  PROVE  SumFunction(f) = Cardinality(UNION {P[i] : i \in D})
<1> DEFINE All(N) == UNION {P[i] : i \in N}
           W == [N \in SUBSET D |-> {Cardinality(All(N))}]
           pick == [N \in SUBSET D |-> CHOOSE x \in N : TRUE]
           step == [N \in SUBSET D |-> [t \in W[N \ {pick[N]}] |-> f[pick[N]] + t]]
           Body(iter, s) == IF s = {} THEN 0
                            ELSE LET x == CHOOSE x \in s : TRUE
                                 IN  f[x] + iter[s \ {x}]
           Solved(iter) == iter = [s \in SUBSET (DOMAIN f) |-> Body(iter, s)]
           K == CHOOSE iter : Solved(iter)
<1>0. DOMAIN f = D
  BY DEF Sizes
<1>1. \A N \in SUBSET D : N # {} => pick[N] \in N
  OBVIOUS
<1>2. ASSUME NEW N \in SUBSET D, N # {}
      PROVE  f[pick[N]] + Cardinality(All(N \ {pick[N]})) = Cardinality(All(N))
  <2> DEFINE x == pick[N]
  <2>1. x \in N
    BY <1>1, <1>2
  <2> HIDE DEF x
  <2>2. All(N) = P[x] \cup All(N \ {x})
    BY <2>1
  <2>3. P[x] \cap All(N \ {x}) = {}
    BY <2>1 DEF Sizes
  <2>4. IsFiniteSet(P[x]) /\ f[x] = Cardinality(P[x])
    BY <2>1 DEF Sizes
  <2>5. IsFiniteSet(All(N \ {x}))
    <3> DEFINE M == N \ {x}
    <3>1. M \in SUBSET D
      OBVIOUS
    <3> HIDE DEF M
    <3>2. IsFiniteSet(UNION {P[i] : i \in M})
      BY <3>1, PartsUnite
    <3> QED
      BY <3>2 DEF M
  <2>6. Cardinality(P[x] \cup All(N \ {x})) = Cardinality(P[x]) + Cardinality(All(N \ {x})) - Cardinality({})
    <3> DEFINE A == All(N \ {x})
    <3>1. IsFiniteSet(A) /\ P[x] \cap A = {}
      BY <2>3, <2>5
    <3> HIDE DEF A
    <3>2. Cardinality(P[x] \cup A) = Cardinality(P[x]) + Cardinality(A) - Cardinality(P[x] \cap A)
      BY <2>4, <3>1, FS_Union
    <3>3. Cardinality(P[x] \cup A) = Cardinality(P[x]) + Cardinality(A) - Cardinality({})
      BY <3>1, <3>2
    <3> QED
      BY <3>3 DEF A
  <2> HIDE DEF All
  <2>7. Cardinality({}) = 0
    BY FS_EmptySet
  <2>8. Cardinality(P[x]) \in Nat /\ Cardinality(All(N \ {x})) \in Nat
    BY <2>4, <2>5, FS_CardinalityType
  <2> QED
    BY <2>2, <2>4, <2>6, <2>7, <2>8 DEF x
<1>3. \A N \in SUBSET D : W[N] = {Cardinality(All(N))}
  OBVIOUS
<1> HIDE DEF W
<1>4. \A N \in SUBSET D : N # {} => step[N] \in [W[N \ {pick[N]}] -> W[N]]
  <2> SUFFICES ASSUME NEW N \in SUBSET D, N # {}, NEW t \in W[N \ {pick[N]}]
               PROVE  f[pick[N]] + t \in W[N]
    OBVIOUS
  <2>1. N \ {pick[N]} \in SUBSET D
    OBVIOUS
  <2> HIDE DEF All, pick
  <2> QED
    BY <1>2, <1>3, <2>1
<1>5. 0 \in W[{}]
  <2>1. All({}) = {} /\ {} \in SUBSET D
    OBVIOUS
  <2> QED
    BY <1>3, <2>1, FS_EmptySet
<1>6. Recursion(D, W, 0, pick, step)
  <2> HIDE DEF pick, step, All
  <2> QED
    BY <1>1, <1>4, <1>5 DEF Recursion
<1>7. PICK g : Solves(g, D, W, 0, pick, step)
  <2> HIDE DEF pick, step, All
  <2> QED
    BY <1>6, SubsetRecursion
<1>8. \A N \in SUBSET D : N # {} => \A t \in W[N \ {pick[N]}] : step[N][t] = f[pick[N]] + t
  OBVIOUS
<1>9. Solved(g)
  <2>1. \A N \in SUBSET D : N # {} => g[N] = f[pick[N]] + g[N \ {pick[N]}]
    <3> SUFFICES ASSUME NEW N \in SUBSET D, N # {} PROVE g[N] = f[pick[N]] + g[N \ {pick[N]}]
      OBVIOUS
    <3>1. N \ {pick[N]} \in SUBSET D
      OBVIOUS
    <3> HIDE DEF pick, step, All
    <3> QED
      BY <1>7, <1>8, <3>1 DEF Solves
  <2>2. g[{}] = 0 /\ g = [N \in SUBSET D |-> g[N]]
    BY <1>7 DEF Solves
  <2>3. \A N \in SUBSET D : pick[N] = CHOOSE x \in N : TRUE
    OBVIOUS
  <2> HIDE DEF pick
  <2>4. \A N \in SUBSET D : g[N] = Body(g, N)
    BY <2>1, <2>2, <2>3
  <2> HIDE DEF Body
  <2> QED
    BY <1>0, <2>2, <2>4
<1>10. Solved(K)
  <2> HIDE DEF Solved
  <2> QED
    BY <1>9
<1>11. SumFunction(f) = K[DOMAIN f]
  BY DEF SumFunction, SumFunctionOnSet, FoldFunctionOnSet, MapThenFoldSet
<1>12. ASSUME NEW N \in SUBSET D PROVE K[N] = Body(K, N)
  <2> HIDE DEF K, Body
  <2> QED
    BY <1>0, <1>10
<1> HIDE DEF K
<1>13. \A N \in SUBSET D : K[N] \in W[N]
  <2>1. K[{}] = 0
    BY <1>12
  <2>2. \A N \in SUBSET D : N # {} => K[N] = f[pick[N]] + K[N \ {pick[N]}]
    BY <1>12
  <2>3. \A N \in SUBSET D : N # {} /\ K[N \ {pick[N]}] \in W[N \ {pick[N]}]
           => K[N] = step[N][K[N \ {pick[N]}]]
    <3> HIDE DEF pick, step
    <3> QED
      BY <1>8, <2>2
  <2> HIDE DEF pick, step
  <2> QED
    BY <1>6, <2>1, <2>3, SubsetInvariant
<1> QED
  BY <1>0, <1>3, <1>11, <1>13

-----------------------------------------------------------------------------
(* Beginnings of sequences. *)

(* What Shortened keeps of a sequence. *)
Cut(s, limit, h, S) ==
  /\ h \in Seq(S) /\ Len(h) \in Nat /\ Len(h) <= limit /\ DOMAIN h = 1 .. Len(h)
  /\ Len(s) <= limit => Len(h) = Len(s)
  /\ Len(s) > limit => Len(h) = limit
  /\ \A i \in 1 .. Len(h) : i \in 1 .. Len(s) /\ h[i] = s[i]

(* Shortened is the beginning of the sequence, as far as the limit. *)
LEMMA ShortenedIsCut ==
  ASSUME NEW S, NEW s \in Seq(S), NEW limit \in Nat
  PROVE  Cut(s, limit, Shortened(s, limit), S)
<1> DEFINE m == Min({limit, Len(s)})
           h == Shortened(s, limit)
<1>1. Len(s) \in Nat /\ \A i \in 1 .. Len(s) : s[i] \in S
  BY LenProperties, ElementOfSeq
<1>2. m \in Nat /\ m <= limit /\ m <= Len(s) /\ (m = limit \/ m = Len(s))
  <2> DEFINE B == {limit, Len(s)}
             l == Len(s)
  <2>1. IsFiniteSet(B)
    <3>1. IsFiniteSet({limit} \cup {l}) /\ B = {limit} \cup {l}
      BY FS_Singleton, FS_Union
    <3> QED
      BY <3>1
  <2>2. B \in SUBSET Int /\ B # {} /\ limit \in B /\ l \in B /\ \A x \in B : x = limit \/ x = l
    BY <1>1
  <2> HIDE DEF B, l
  <2>3. Min(B) \in B /\ \A x \in B : Min(B) <= x
    BY <2>1, <2>2, MinIsLeast
  <2>4. Min(B) <= limit /\ Min(B) <= l /\ (Min(B) = limit \/ Min(B) = l)
    BY <2>2, <2>3
  <2>5. m = Min(B) /\ l = Len(s)
    BY DEF B, l
  <2> HIDE DEF m
  <2> QED
    BY <1>1, <2>4, <2>5
<1>3. h = SubSeq(s, 1, m)
  BY DEF Shortened
<1> HIDE DEF m, h
<1>4. \A i \in 1 .. m : i \in 1 .. Len(s) /\ s[i] \in S
  BY <1>1, <1>2
<1>5. /\ h \in Seq(S) /\ Len(h) = IF 1 <= m THEN m - 1 + 1 ELSE 0
      /\ \A i \in 1 .. m - 1 + 1 : h[i] = s[1 + i - 1]
  <2>1. m \in Int /\ 1 \in Int
    BY <1>2
  <2> QED
    BY <1>3, <1>4, <2>1, SubSeqProperties
<1>6. Len(h) = m
  BY <1>2, <1>5
<1>7. DOMAIN h = 1 .. Len(h)
  BY <1>5, LenProperties
<1>8. \A i \in 1 .. m : h[i] = s[i]
  BY <1>2, <1>5
<1> QED
  BY <1>1, <1>2, <1>4, <1>5, <1>6, <1>7, <1>8 DEF Cut, h

-----------------------------------------------------------------------------
(* Paths and their beginnings. *)

(* A path, and its beginning of k names. *)
FilePath == Seq(Nat)
Start(p, k) == SubSeq(p, 1, k)

(* The beginning of a path is a path and agrees with it. *)
LEMMA StartsOf ==
  ASSUME NEW p \in FilePath, NEW k \in 0 .. Len(p)
  PROVE  /\ Start(p, k) \in FilePath /\ Len(Start(p, k)) = k
         /\ \A i \in 1 .. k : Start(p, k)[i] = p[i]
<1>1. Len(p) \in Nat /\ \A i \in 1 .. Len(p) : p[i] \in Nat
  BY LenProperties, ElementOfSeq DEF FilePath
<1>2. \A i \in 1 .. k : p[i] \in Nat
  BY <1>1
<1>3. 1 \in Int /\ k \in Int /\ k \in Nat
  BY <1>1
<1>4. /\ SubSeq(p, 1, k) \in Seq(Nat) /\ Len(SubSeq(p, 1, k)) = IF 1 <= k THEN k - 1 + 1 ELSE 0
      /\ \A i \in 1 .. k - 1 + 1 : SubSeq(p, 1, k)[i] = p[1 + i - 1]
  BY <1>2, <1>3, SubSeqProperties
<1>5. Len(SubSeq(p, 1, k)) = k
  BY <1>3, <1>4
<1>6. \A i \in 1 .. k : SubSeq(p, 1, k)[i] = p[i]
  BY <1>3, <1>4
<1> QED
  BY <1>4, <1>5, <1>6 DEF Start, FilePath

(* A path is a prefix of another when it agrees with it as far as it goes. *)
LEMMA PrefixMeans ==
  ASSUME NEW p \in FilePath, NEW q \in FilePath
  PROVE  IsPrefix(p, q) <=> Len(p) <= Len(q) /\ \A i \in 1 .. Len(p) : p[i] = q[i]
<1>1. Len(p) \in Nat /\ Len(q) \in Nat
  BY LenProperties DEF FilePath
<1>2. CASE ~(Len(p) <= Len(q))
  BY <1>2 DEF IsPrefix
<1>3. CASE Len(p) <= Len(q)
  <2> DEFINE a == SubSeq(p, 1, Len(p))
             b == SubSeq(q, 1, Len(p))
  <2>1. Len(p) \in 0 .. Len(p) /\ Len(p) \in 0 .. Len(q)
    BY <1>1, <1>3
  <2>2. /\ a \in FilePath /\ Len(a) = Len(p) /\ \A i \in 1 .. Len(p) : a[i] = p[i]
    BY <2>1, StartsOf DEF Start
  <2>3. /\ b \in FilePath /\ Len(b) = Len(p) /\ \A i \in 1 .. Len(p) : b[i] = q[i]
    BY <2>1, StartsOf DEF Start
  <2>4. IsPrefix(p, q) <=> a = b
    BY <1>3 DEF IsPrefix
  <2> HIDE DEF a, b
  <2>5. a = b <=> \A i \in 1 .. Len(p) : a[i] = b[i]
    BY <2>2, <2>3, SeqEqual DEF FilePath
  <2> QED
    BY <1>3, <2>2, <2>3, <2>4, <2>5
<1> QED
  BY <1>2, <1>3

-----------------------------------------------------------------------------
(* Files, directories and groups. *)

(* There are finitely many functions, and their files have paths. *)
LEMMA FilesArePaths ==
  /\ IsFiniteSet(DOMAIN FileOf) /\ DOMAIN FileOf \subseteq Nat \ {0}
  /\ \A n \in DOMAIN FileOf : FileOf[n] \in FilePath /\ Len(FileOf[n]) \in Nat \ {0}
<1>1. DOMAIN FileOf = 1 .. Len(FileOf) /\ Len(FileOf) \in Nat
  BY FileOfAssumption, LenProperties
<1>2. \A n \in DOMAIN FileOf : FileOf[n] \in Seq(Nat) \ {<<>>}
  BY <1>1, FileOfAssumption, ElementOfSeq
<1>3. \A n \in DOMAIN FileOf : Len(FileOf[n]) \in Nat \ {0}
  BY <1>2, EmptySeq
<1>4. IsFiniteSet(DOMAIN FileOf)
  BY <1>1, FS_Interval
<1>5. DOMAIN FileOf \subseteq Nat \ {0}
  BY <1>1
<1> QED
  BY <1>2, <1>3, <1>4, <1>5 DEF FilePath

(* A function lies under a path that its own begins with and goes beyond. *)
LEMMA UnderMeans ==
  ASSUME NEW p \in FilePath, NEW n \in DOMAIN FileOf
  PROVE  Under(p, n) <=> Len(p) < Len(FileOf[n]) /\ \A i \in 1 .. Len(p) : p[i] = FileOf[n][i]
<1>1. FileOf[n] \in FilePath /\ Len(FileOf[n]) \in Nat /\ Len(p) \in Nat
  BY FilesArePaths, LenProperties DEF FilePath
<1>2. IsPrefix(p, FileOf[n]) <=> Len(p) <= Len(FileOf[n]) /\ \A i \in 1 .. Len(p) : p[i] = FileOf[n][i]
  BY <1>1, PrefixMeans
<1> QED
  BY <1>1, <1>2 DEF Under

(* The group of a function is its prefix and one name of its path. *)
LEMMA GroupMeans ==
  ASSUME NEW p \in FilePath, NEW n \in DOMAIN FileOf, Under(p, n)
  PROVE  FileOf[n][Len(p) + 1] \in Nat /\ GroupOf(p, n) = Append(p, FileOf[n][Len(p) + 1])
<1> DEFINE q == FileOf[n]
           k == Len(p)
           x == q[k + 1]
           a == Append(p, x)
           b == GroupOf(p, n)
<1>1. q \in FilePath /\ Len(q) \in Nat /\ k \in Nat /\ k < Len(q) /\ \A i \in 1 .. k : p[i] = q[i]
  BY FilesArePaths, UnderMeans, LenProperties DEF FilePath
<1>2. b = Start(q, k + 1)
  BY DEF GroupOf, Start
<1> HIDE DEF q, k, b
<1>3. k + 1 \in 0 .. Len(q) /\ k + 1 \in 1 .. Len(q)
  BY <1>1
<1>4. x \in Nat
  BY <1>1, <1>3, ElementOfSeq DEF FilePath
<1>5. b \in FilePath /\ Len(b) = k + 1 /\ \A i \in 1 .. k + 1 : b[i] = q[i]
  BY <1>1, <1>2, <1>3, StartsOf
<1> HIDE DEF x
<1>6. a \in FilePath /\ Len(a) = k + 1 /\ (\A i \in 1 .. k : a[i] = p[i]) /\ a[k + 1] = x
  BY <1>4, AppendProperties DEF FilePath, k
<1> HIDE DEF a
<1>7. ASSUME NEW i \in 1 .. k + 1 PROVE b[i] = a[i]
  <2>1. CASE i = k + 1
    BY <1>5, <1>6, <2>1 DEF x
  <2>2. CASE i # k + 1
    <3>1. i \in 1 .. k
      BY <1>1, <2>2
    <3> QED
      BY <1>1, <1>5, <1>6, <3>1
  <2> QED
    BY <2>1, <2>2
<1>8. b = a
  BY <1>5, <1>6, <1>7, SeqEqual DEF FilePath
<1> QED
  BY <1>4, <1>8 DEF a, b, x, q, k

(* The members of a group are the functions whose paths begin with it. *)
LEMMA MembersMeans ==
  ASSUME NEW G, G.node \subseteq DOMAIN FileOf, NEW p \in FilePath, NEW x \in Nat
  PROVE  Members(G, p, Append(p, x)) = {n \in G.node : IsPrefix(Append(p, x), FileOf[n])}
<1> DEFINE d == Append(p, x)
           k == Len(p)
<1>1. d \in FilePath /\ Len(d) = k + 1 /\ (\A i \in 1 .. k : d[i] = p[i]) /\ d[k + 1] = x /\ k \in Nat
  BY AppendProperties, LenProperties DEF FilePath
<1> HIDE DEF d
<1>2. ASSUME NEW n \in G.node PROVE Under(p, n) /\ GroupOf(p, n) = d <=> IsPrefix(d, FileOf[n])
  <2> DEFINE q == FileOf[n]
  <2>1. n \in DOMAIN FileOf /\ q \in FilePath /\ Len(q) \in Nat
    BY FilesArePaths
  <2>2. IsPrefix(d, q) <=> k + 1 <= Len(q) /\ \A i \in 1 .. k + 1 : d[i] = q[i]
    BY <1>1, <2>1, PrefixMeans
  <2>3. Under(p, n) <=> k < Len(q) /\ \A i \in 1 .. k : p[i] = q[i]
    BY <2>1, UnderMeans
  <2>4. Under(p, n) => q[k + 1] \in Nat /\ GroupOf(p, n) = Append(p, q[k + 1])
    BY <2>1, GroupMeans
  <2> HIDE DEF q
  <2>5. ASSUME Under(p, n), GroupOf(p, n) = d PROVE IsPrefix(d, q)
    <3>1. d = Append(p, q[k + 1]) /\ q[k + 1] \in Nat
      BY <2>4, <2>5
    <3>2. d[k + 1] = q[k + 1]
      BY <3>1, AppendProperties DEF FilePath
    <3>3. \A i \in 1 .. k + 1 : d[i] = q[i]
      <4>1. \A i \in 1 .. k + 1 : i = k + 1 \/ i \in 1 .. k
        BY <1>1
      <4> QED
        BY <1>1, <2>3, <2>5, <3>2, <4>1
    <3>4. k + 1 <= Len(q)
      BY <1>1, <2>1, <2>3, <2>5
    <3> QED
      BY <2>2, <3>3, <3>4
  <2>6. ASSUME IsPrefix(d, q) PROVE Under(p, n) /\ GroupOf(p, n) = d
    <3>1. k < Len(q)
      BY <1>1, <2>1, <2>2, <2>6
    <3>2. \A i \in 1 .. k : i \in 1 .. k + 1
      BY <1>1
    <3>3. \A i \in 1 .. k : p[i] = q[i]
      BY <1>1, <2>2, <2>6, <3>2
    <3>4. k + 1 \in 1 .. k + 1
      BY <1>1
    <3>5. q[k + 1] = x
      BY <1>1, <2>2, <2>6, <3>4
    <3>6. Under(p, n)
      BY <2>3, <3>1, <3>3
    <3> QED
      BY <2>4, <3>5, <3>6 DEF d
  <2> QED
    BY <2>5, <2>6 DEF q
<1>3. \A n : n \in Members(G, p, d) <=> n \in G.node /\ Under(p, n) /\ GroupOf(p, n) = d
  BY DEF Members
<1>4. Members(G, p, d) = {n \in G.node : IsPrefix(d, FileOf[n])}
  BY <1>2, <1>3
<1> QED
  BY <1>4 DEF d

(* A directory is the beginning of a path and no file, so what begins with *)
(* it goes beyond it. *)
LEMMA DirectoriesArePaths ==
  ASSUME NEW d \in Directories
  PROVE  d \in FilePath /\ \A n \in DOMAIN FileOf : IsPrefix(d, FileOf[n]) <=> Under(d, n)
<1>1. PICK n \in DOMAIN FileOf : \E k \in 0 .. Len(FileOf[n]) - 1 : d = SubSeq(FileOf[n], 1, k)
  BY DEF Directories
<1>2. PICK k \in 0 .. Len(FileOf[n]) - 1 : d = SubSeq(FileOf[n], 1, k)
  BY <1>1
<1>3. FileOf[n] \in FilePath /\ k \in 0 .. Len(FileOf[n])
  <2>1. FileOf[n] \in FilePath /\ Len(FileOf[n]) \in Nat
    BY FilesArePaths
  <2> QED
    BY <2>1
<1>4. d \in FilePath
  BY <1>2, <1>3, StartsOf DEF Start
<1>5. ASSUME NEW m \in DOMAIN FileOf, IsPrefix(d, FileOf[m]) PROVE Len(FileOf[m]) > Len(d)
  <2> DEFINE q == FileOf[m]
  <2>1. q \in FilePath /\ Len(q) \in Nat /\ Len(d) \in Nat
    BY <1>4, FilesArePaths, LenProperties DEF FilePath
  <2>2. Len(d) <= Len(q) /\ \A i \in 1 .. Len(d) : d[i] = q[i]
    BY <1>4, <1>5, <2>1, PrefixMeans
  <2>3. d # q
    <3>1. d \notin {FileOf[j] : j \in DOMAIN FileOf}
      <4> DEFINE A == UNION {{SubSeq(FileOf[j], 1, i) : i \in 0 .. Len(FileOf[j]) - 1} : j \in DOMAIN FileOf}
                 F == {FileOf[j] : j \in DOMAIN FileOf}
      <4>1. Directories = A \ F
        BY DEF Directories
      <4> HIDE DEF A
      <4> QED
        BY <4>1
    <3>2. q \in {FileOf[j] : j \in DOMAIN FileOf}
      OBVIOUS
    <3> HIDE DEF q
    <3> QED
      BY <3>1, <3>2
  <2> HIDE DEF q
  <2>4. Len(d) # Len(q)
    BY <1>4, <2>1, <2>2, <2>3, SeqEqual DEF FilePath
  <2>5. Len(q) > Len(d)
    BY <2>1, <2>2, <2>4
  <2> QED
    BY <2>5 DEF q
<1> QED
  BY <1>4, <1>5 DEF Under

-----------------------------------------------------------------------------
(* Views of groups. *)

(* The groups below a path, each once: one for every function under it. *)
GroupsOf(G, p, s) ==
  /\ s \in Seq(FilePath) /\ Len(s) \in Nat /\ DOMAIN s = 1 .. Len(s) /\ Len(s) <= Cardinality(G.node)
  /\ \A i, j \in 1 .. Len(s) : s[i] = s[j] => i = j
  /\ \A i \in 1 .. Len(s) : \E x \in Nat : s[i] = Append(p, x)
  /\ \A n \in G.node : Under(p, n) => \E i \in 1 .. Len(s) : s[i] = GroupOf(p, n)

(* GroupsBelow lists the groups. *)
LEMMA GroupsBelowAreGroups ==
  ASSUME NEW G, IsGraph(G), G.node \subseteq DOMAIN FileOf, NEW p \in FilePath
  PROVE  GroupsOf(G, p, GroupsBelow(G, p))
<1> DEFINE k == Len(p) + 1
           B == {n \in G.node : Under(p, n)}
           name == [n \in B |-> FileOf[n][k]]
           N == {FileOf[n][Len(p) + 1] : n \in B}
           a == Sorted(N)
           s == GroupsBelow(G, p)
<1>1. IsFiniteSet(B) /\ Cardinality(B) <= Cardinality(G.node) /\ Cardinality(B) \in Nat
      /\ Cardinality(G.node) \in Nat
  <2>1. B \in SUBSET G.node
    OBVIOUS
  <2> HIDE DEF B
  <2> QED
    BY <2>1, FS_Subset, FS_CardinalityType DEF IsGraph
<1>2. \A n \in B : FileOf[n][k] \in Nat /\ GroupOf(p, n) = Append(p, FileOf[n][k])
  BY GroupMeans
<1>3. N = {name[n] : n \in B} /\ N \in SUBSET Nat
  BY <1>2
<1>4. name \in Surjection(B, N)
  <2>1. name \in [B -> N] /\ \A x \in N : \E n \in B : name[n] = x
    OBVIOUS
  <2> HIDE DEF name, N, B
  <2> QED
    BY <2>1 DEF Surjection
<1>5. s = [i \in DOMAIN a |-> Append(p, a[i])]
  BY DEF GroupsBelow
<1>6. \A n \in B : FileOf[n][k] \in N
  OBVIOUS
<1> HIDE DEF B, name, N, s, k
<1>7. IsFiniteSet(N) /\ Cardinality(N) <= Cardinality(G.node) /\ N \in SUBSET Int
  <2>1. IsFiniteSet(N) /\ Cardinality(N) <= Cardinality(B)
    BY <1>1, <1>4, FS_Surjection
  <2>2. Cardinality(N) \in Nat
    BY <2>1, FS_CardinalityType
  <2> QED
    BY <1>1, <1>3, <2>1, <2>2
<1>8. Listing(a, N) /\ DOMAIN a = 1 .. Cardinality(N) /\ Cardinality(N) \in Nat
  BY <1>7, SortedIsListing
<1> DEFINE m == Cardinality(N)
<1> HIDE DEF a, m
<1>9. /\ m \in Nat /\ DOMAIN a = 1 .. m /\ m <= Cardinality(G.node) /\ \A i \in 1 .. m : a[i] \in Nat
      /\ \A i, j \in 1 .. m : a[i] = a[j] => i = j
      /\ \A x \in N : \E i \in 1 .. m : a[i] = x
  <2>1. DOMAIN a = 1 .. Len(a) /\ DOMAIN a = 1 .. m /\ m \in Nat
    BY <1>8 DEF Listing, m
  <2> QED
    BY <1>3, <1>7, <1>8, <2>1 DEF Listing, m
<1>10. \A i \in 1 .. m : s[i] = Append(p, a[i]) /\ s[i] \in FilePath
  <2>1. \A i \in 1 .. m : Append(p, a[i]) \in FilePath
    BY <1>9, AppendProperties DEF FilePath
  <2> QED
    BY <1>5, <1>9, <2>1
<1>11. s \in Seq(FilePath) /\ Len(s) = m /\ DOMAIN s = 1 .. m
  <2>1. s \in [1 .. m -> FilePath]
    <3>1. s = [i \in 1 .. m |-> s[i]]
      BY <1>5, <1>9
    <3> QED
      BY <1>10, <3>1
  <2>2. s \in Seq(FilePath)
    BY <1>9, <2>1, SeqDef
  <2>3. DOMAIN s = 1 .. m /\ DOMAIN s = 1 .. Len(s) /\ Len(s) \in Nat
    BY <2>1, <2>2, LenProperties
  <2> QED
    BY <1>9, <2>2, <2>3
<1>12. ASSUME NEW i \in 1 .. m, NEW j \in 1 .. m, s[i] = s[j] PROVE i = j
  <2>1. p \in Seq(Nat) /\ a[i] \in Nat /\ a[j] \in Nat
    BY <1>9 DEF FilePath
  <2>2. Append(p, a[i]) = Append(p, a[j])
    BY <1>10, <1>12
  <2> DEFINE x == a[i]
             y == a[j]
  <2> HIDE DEF x, y
  <2>3. x = y
    BY ONLY <2>1, <2>2, AppendInjective DEF x, y
  <2> QED
    BY <1>9, <2>3 DEF x, y
<1>13. ASSUME NEW n \in G.node, Under(p, n) PROVE \E i \in 1 .. m : s[i] = GroupOf(p, n)
  <2>1. n \in B
    BY <1>13 DEF B
  <2>2. FileOf[n][k] \in N /\ GroupOf(p, n) = Append(p, FileOf[n][k])
    BY <1>2, <1>6, <2>1
  <2>3. PICK i \in 1 .. m : a[i] = FileOf[n][k]
    BY <1>9, <2>2
  <2> QED
    BY <1>10, <2>2, <2>3
<1> QED
  BY <1>9, <1>10, <1>11, <1>12, <1>13 DEF GroupsOf, s

(* The calls of a view of groups, and its sums, as GroupView has them. *)
CallsBetween(G, p, g, h) == {e \in G.edge : e[1] \in Members(G, p, g) /\ e[2] \in Members(G, p, h)}
Internal(G, p, shown) == [i \in DOMAIN shown |-> Cardinality(CallsBetween(G, p, shown[i], shown[i]))]
Cyclic(G, p, shown) ==
  [i \in DOMAIN shown |-> Cardinality(Members(G, p, shown[i]) \cap InCycles(G))]
Weight(G, p, shown) ==
  [q \in (DOMAIN shown) \X (DOMAIN shown) |->
     IF q[1] = q[2] THEN 0 ELSE Cardinality(CallsBetween(G, p, shown[q[1]], shown[q[2]]))]

(* Every function below the path is in one group, so every call between *)
(* them is counted once, inside a group or between two. *)
LEMMA GroupsCount ==
  ASSUME NEW G, IsGraph(G), NEW p, NEW s, GroupsOf(G, p, s)
  PROVE  /\ SumFunction(Internal(G, p, s)) + SumFunction(Weight(G, p, s))
              = Cardinality({e \in G.edge : Under(p, e[1]) /\ Under(p, e[2])})
         /\ SumFunction(Cyclic(G, p, s)) = Cardinality({n \in G.node : Under(p, n)} \cap InCycles(G))
<1> DEFINE m == Len(s)
           D == 1 .. m
           M == [i \in D |-> Members(G, p, s[i])]
           P == [i \in D |-> CallsBetween(G, p, s[i], s[i])]
           Q == [q \in D \X D |-> IF q[1] = q[2] THEN {} ELSE CallsBetween(G, p, s[q[1]], s[q[2]])]
           R == [i \in D |-> M[i] \cap InCycles(G)]
           E == {e \in G.edge : Under(p, e[1]) /\ Under(p, e[2])}
<1>1. /\ m \in Nat /\ DOMAIN s = D /\ \A i, j \in D : s[i] = s[j] => i = j
      /\ \A n \in G.node : Under(p, n) => \E i \in D : s[i] = GroupOf(p, n)
  BY DEF GroupsOf
<1>2. /\ \A i \in D : \A n : n \in M[i] <=> n \in G.node /\ Under(p, n) /\ s[i] = GroupOf(p, n)
      /\ \A i \in D : M[i] = Members(G, p, s[i])
  BY DEF Members
<1>3. IsFiniteSet(D) /\ IsFiniteSet(D \X D)
  <2>1. IsFiniteSet(D)
    BY <1>1, FS_Interval
  <2> HIDE DEF D
  <2> QED
    BY <2>1, FS_Product
<1>4. IsFiniteSet(G.edge) /\ IsFiniteSet(G.node) /\ \A e \in G.edge : e[1] \in G.node /\ e[2] \in G.node
  BY EdgesAreFinite DEF IsGraph
<1> HIDE DEF M, D
<1>5. \A i, j \in D : \A n : n \in M[i] /\ n \in M[j] => i = j
  BY <1>1, <1>2
<1>6. \A n \in G.node : Under(p, n) <=> \E i \in D : n \in M[i]
  BY <1>1, <1>2
<1>7. /\ \A i \in D : \A e : e \in P[i] <=> e \in G.edge /\ e[1] \in M[i] /\ e[2] \in M[i]
      /\ \A q \in D \X D : \A e : e \in Q[q] <=> q[1] # q[2] /\ e \in G.edge /\ e[1] \in M[q[1]] /\ e[2] \in M[q[2]]
  BY <1>2 DEF CallsBetween
<1>8. /\ \A i \in D : P[i] = CallsBetween(G, p, s[i], s[i])
      /\ \A q \in D \X D : Q[q] = IF q[1] = q[2] THEN {} ELSE CallsBetween(G, p, s[q[1]], s[q[2]])
      /\ \A i \in D : R[i] = M[i] \cap InCycles(G)
  OBVIOUS
<1> HIDE DEF P, Q, R, E
<1>9. Sizes(Internal(G, p, s), P, D)
  <2>1. \A i \in D : P[i] \in SUBSET G.edge
    BY <1>7
  <2>2. \A i \in D : IsFiniteSet(P[i])
    BY <1>4, <2>1, FS_Subset
  <2>3. \A i, j \in D : i # j => P[i] \cap P[j] = {}
    BY <1>5, <1>7
  <2>4. Internal(G, p, s) = [i \in D |-> Cardinality(CallsBetween(G, p, s[i], s[i]))]
    BY <1>1 DEF Internal
  <2> DEFINE f == Internal(G, p, s)
  <2> HIDE DEF f
  <2>5. f = [i \in D |-> f[i]] /\ \A i \in D : f[i] = Cardinality(P[i])
    BY <1>8, <2>4 DEF f
  <2> QED
    BY <2>2, <2>3, <2>5 DEF Sizes, f
<1>10. Sizes(Cyclic(G, p, s), R, D)
  <2>1. \A i \in D : R[i] \in SUBSET G.node
    BY <1>2, <1>8
  <2>2. \A i \in D : IsFiniteSet(R[i])
    BY <1>4, <2>1, FS_Subset
  <2>3. \A i, j \in D : i # j => R[i] \cap R[j] = {}
    BY <1>5, <1>8
  <2>4. Cyclic(G, p, s) = [i \in D |-> Cardinality(Members(G, p, s[i]) \cap InCycles(G))]
    BY <1>1 DEF Cyclic
  <2> DEFINE f == Cyclic(G, p, s)
  <2> HIDE DEF f
  <2>5. f = [i \in D |-> f[i]] /\ \A i \in D : f[i] = Cardinality(R[i])
    BY <1>2, <1>8, <2>4 DEF f
  <2> QED
    BY <2>2, <2>3, <2>5 DEF Sizes, f
<1>11. Sizes(Weight(G, p, s), Q, D \X D)
  <2>1. \A q \in D \X D : Q[q] \in SUBSET G.edge
    BY <1>7
  <2>2. \A q \in D \X D : IsFiniteSet(Q[q])
    BY <1>4, <2>1, FS_Subset
  <2>3. ASSUME NEW q \in D \X D, NEW r \in D \X D, q # r PROVE Q[q] \cap Q[r] = {}
    <3> SUFFICES ASSUME NEW e, e \in Q[q], e \in Q[r] PROVE FALSE
      OBVIOUS
    <3>1. q[1] = r[1] /\ q[2] = r[2]
      BY <1>5, <1>7
    <3> QED
      BY <2>3, <3>1
  <2>4. Weight(G, p, s) = [q \in D \X D |-> IF q[1] = q[2] THEN 0
                                           ELSE Cardinality(CallsBetween(G, p, s[q[1]], s[q[2]]))]
    BY <1>1 DEF Weight
  <2> DEFINE f == Weight(G, p, s)
  <2> HIDE DEF f
  <2>5. Cardinality({}) = 0
    BY FS_EmptySet
  <2>6. f = [q \in D \X D |-> f[q]] /\ \A q \in D \X D : f[q] = Cardinality(Q[q])
    BY <1>8, <2>4, <2>5 DEF f
  <2> QED
    BY <2>2, <2>3, <2>6 DEF Sizes, f
<1>12. SumFunction(Internal(G, p, s)) = Cardinality(UNION {P[i] : i \in D})
  BY <1>3, <1>9, SumOfSizes
<1>13. SumFunction(Weight(G, p, s)) = Cardinality(UNION {Q[q] : q \in D \X D})
  <2> DEFINE DD == D \X D
  <2> HIDE DEF DD
  <2>1. SumFunction(Weight(G, p, s)) = Cardinality(UNION {Q[q] : q \in DD})
    BY <1>3, <1>11, SumOfSizes DEF DD
  <2> QED
    BY <2>1 DEF DD
<1>14. SumFunction(Cyclic(G, p, s)) = Cardinality(UNION {R[i] : i \in D})
  BY <1>3, <1>10, SumOfSizes
<1>15. UNION {R[i] : i \in D} = {n \in G.node : Under(p, n)} \cap InCycles(G)
  BY <1>2, <1>6, <1>8
<1> DEFINE A == UNION {P[i] : i \in D}
           B == UNION {Q[q] : q \in D \X D}
<1>16. A \cup B = E
  <2>1. ASSUME NEW e, e \in A \cup B PROVE e \in E
    BY <1>4, <1>6, <1>7, <2>1 DEF E
  <2>2. ASSUME NEW e \in E PROVE e \in A \cup B
    <3>1. e \in G.edge /\ Under(p, e[1]) /\ Under(p, e[2])
      BY DEF E
    <3>2. PICK i \in D : e[1] \in M[i]
      BY <1>4, <1>6, <3>1
    <3>3. PICK j \in D : e[2] \in M[j]
      BY <1>4, <1>6, <3>1
    <3>4. CASE i = j
      BY <1>7, <3>1, <3>2, <3>3, <3>4
    <3>5. CASE i # j
      <4> DEFINE q == <<i, j>>
      <4>1. q \in D \X D /\ q[1] = i /\ q[2] = j
        OBVIOUS
      <4> HIDE DEF q
      <4>2. e \in Q[q]
        BY <1>7, <3>1, <3>2, <3>3, <3>5, <4>1
      <4> QED
        BY <4>1, <4>2
    <3> QED
      BY <3>4, <3>5
  <2> QED
    BY <2>1, <2>2
<1>17. A \cap B = {}
  <2> SUFFICES ASSUME NEW e, e \in A, e \in B PROVE FALSE
    OBVIOUS
  <2>1. PICK i \in D : e \in P[i]
    OBVIOUS
  <2>2. PICK q \in D \X D : e \in Q[q]
    OBVIOUS
  <2>3. q[1] = i /\ q[2] = i /\ q[1] # q[2]
    BY <1>5, <1>7, <2>1, <2>2
  <2> QED
    BY <2>3
<1>18. A \in SUBSET G.edge /\ B \in SUBSET G.edge
  BY <1>7
<1> HIDE DEF A, B
<1>19. IsFiniteSet(A) /\ IsFiniteSet(B) /\ Cardinality(A) \in Nat /\ Cardinality(B) \in Nat
  BY <1>4, <1>18, FS_Subset, FS_CardinalityType
<1>20. Cardinality(A \cup B) = Cardinality(A) + Cardinality(B) - Cardinality({})
  BY <1>17, <1>19, FS_Union
<1>21. Cardinality(E) = Cardinality(A) + Cardinality(B)
  BY <1>16, <1>19, <1>20, FS_EmptySet
<1> QED
  BY <1>12, <1>13, <1>14, <1>15, <1>21 DEF A, B, E

(* The fields of a view of groups. *)
GroupFields(G, p, limit, v, s, shown) ==
  /\ v.scope = "group" /\ v.focus = p /\ v.nodes = shown
  /\ v.internal = Internal(G, p, shown) /\ v.cyclic = Cyclic(G, p, shown)
  /\ v.weight = Weight(G, p, shown)
  /\ v.total = Len(s) /\ v.truncated = (Len(s) > limit)

(* GroupView has these fields. *)
LEMMA GroupViewHas ==
  ASSUME NEW G, NEW p, NEW limit, NEW v, v = GroupView(G, p, limit)
  PROVE  GroupFields(G, p, limit, v, GroupsBelow(G, p), Shortened(GroupsBelow(G, p), limit))
<1> DEFINE s == GroupsBelow(G, p)
           shown == Shortened(s, limit)
<1>1. v = [scope |-> "group", focus |-> p, nodes |-> shown,
           internal |-> Internal(G, p, shown), cyclic |-> Cyclic(G, p, shown),
           weight |-> Weight(G, p, shown), total |-> Len(s), truncated |-> Len(s) > limit]
  BY DEF GroupView, Internal, Cyclic, Weight, CallsBetween
<1> HIDE DEF shown, s
<1> QED
  BY <1>1 DEF GroupFields, shown, s

(* A view with room for every group counts every call below its path. *)
LEMMA WholeViewCounts ==
  ASSUME NEW G, IsGraph(G), G.node \subseteq DOMAIN FileOf, NEW p \in FilePath, NEW limit \in Nat,
         NEW v, v = GroupView(G, p, limit), Len(GroupsBelow(G, p)) <= limit
  PROVE  /\ Total(v) = Cardinality({e \in G.edge : Under(p, e[1]) /\ Under(p, e[2])})
         /\ SumFunction(v.cyclic) = Cardinality({n \in G.node : Under(p, n)} \cap InCycles(G))
<1> DEFINE s == GroupsBelow(G, p)
           shown == Shortened(s, limit)
<1>1. GroupFields(G, p, limit, v, s, shown)
  BY GroupViewHas
<1>2. GroupsOf(G, p, s)
  BY GroupsBelowAreGroups
<1>3. Cut(s, limit, shown, FilePath)
  BY <1>2, ShortenedIsCut DEF GroupsOf
<1> HIDE DEF s, shown
<1>4. Len(s) <= limit
  BY DEF s
<1>5. shown = s
  <2>1. shown \in Seq(FilePath) /\ s \in Seq(FilePath) /\ Len(shown) = Len(s) /\ \A i \in 1 .. Len(shown) : shown[i] = s[i]
    BY <1>2, <1>3, <1>4 DEF Cut, GroupsOf
  <2> QED
    BY <2>1, SeqEqual
<1>6. /\ SumFunction(Internal(G, p, s)) + SumFunction(Weight(G, p, s))
            = Cardinality({e \in G.edge : Under(p, e[1]) /\ Under(p, e[2])})
      /\ SumFunction(Cyclic(G, p, s)) = Cardinality({n \in G.node : Under(p, n)} \cap InCycles(G))
  BY <1>2, GroupsCount
<1>7. v.internal = Internal(G, p, s) /\ v.cyclic = Cyclic(G, p, s) /\ v.weight = Weight(G, p, s)
  BY <1>1, <1>5 DEF GroupFields
<1> QED
  BY <1>6, <1>7 DEF Total

(* What is stated of a view: it is full when it hides something, ... *)
FitsLimit(v, limit) ==
  /\ IsInjective(v.nodes) /\ Len(v.nodes) <= limit /\ (v.truncated => Len(v.nodes) = limit)
  /\ v.truncated <=> Len(v.nodes) < v.total
(* ... and a view of groups counts every call once. *)
CountsOnce(G, v) ==
  /\ ~v.truncated =>
       Total(v) = Cardinality(Between(G, {n \in G.node : IsPrefix(v.focus, FileOf[n])}))
  /\ \A i \in DOMAIN v.nodes :
       v.nodes[i] \in Directories =>
         /\ v.internal[i] = Total(GroupView(G, v.nodes[i], Cardinality(G.node)))
         /\ v.cyclic[i] = SumFunction(GroupView(G, v.nodes[i], Cardinality(G.node)).cyclic)

(* The view of a directory is what ViewsAreTrue states of one. *)
LEMMA GroupViewIsTrue ==
  ASSUME NEW G, IsGraph(G), G.node \subseteq DOMAIN FileOf, NEW p \in Directories, NEW limit \in Nat,
         NEW v, v = GroupView(G, p, limit)
  PROVE  v.scope = "group" /\ FitsLimit(v, limit) /\ CountsOnce(G, v)
<1> DEFINE s == GroupsBelow(G, p)
           shown == Shortened(s, limit)
<1>0. p \in FilePath /\ \A n \in DOMAIN FileOf : IsPrefix(p, FileOf[n]) <=> Under(p, n)
  BY DirectoriesArePaths
<1>1. GroupFields(G, p, limit, v, s, shown)
  BY GroupViewHas
<1>2. GroupsOf(G, p, s)
  BY <1>0, GroupsBelowAreGroups
<1>3. Cut(s, limit, shown, FilePath)
  BY <1>2, ShortenedIsCut DEF GroupsOf
<1>4. \A e \in G.edge : e[1] \in G.node /\ e[2] \in G.node
  BY EdgesAreFinite DEF IsGraph
<1>5. IsFiniteSet(G.node) /\ Cardinality(G.node) \in Nat
  BY FS_CardinalityType DEF IsGraph
<1>6. ASSUME ~v.truncated
      PROVE  Total(v) = Cardinality(Between(G, {n \in G.node : IsPrefix(v.focus, FileOf[n])}))
  <2>1. Len(s) <= limit
    <3> HIDE DEF s, shown
    <3>1. Len(s) \in Nat /\ ~(Len(s) > limit)
      BY <1>1, <1>2, <1>6 DEF GroupFields, GroupsOf
    <3> QED
      BY <3>1
  <2>2. Total(v) = Cardinality({e \in G.edge : Under(p, e[1]) /\ Under(p, e[2])})
    BY <1>0, <2>1, WholeViewCounts
  <2>3. Between(G, {n \in G.node : IsPrefix(p, FileOf[n])}) = {e \in G.edge : Under(p, e[1]) /\ Under(p, e[2])}
    <3>1. ASSUME NEW e \in G.edge
          PROVE  {e[1], e[2]} \subseteq {n \in G.node : IsPrefix(p, FileOf[n])} <=> Under(p, e[1]) /\ Under(p, e[2])
      BY <1>0, <1>4
    <3> QED
      BY <3>1 DEF Between
  <2>4. v.focus = p
    BY <1>1 DEF GroupFields
  <2> QED
    BY <2>2, <2>3, <2>4
<1>7. ASSUME NEW i \in DOMAIN v.nodes, v.nodes[i] \in Directories
      PROVE  /\ v.internal[i] = Total(GroupView(G, v.nodes[i], Cardinality(G.node)))
             /\ v.cyclic[i] = SumFunction(GroupView(G, v.nodes[i], Cardinality(G.node)).cyclic)
  <2> DEFINE d == v.nodes[i]
             inside == GroupView(G, d, Cardinality(G.node))
  <2>1. v.nodes = shown /\ i \in 1 .. Len(shown) /\ i \in DOMAIN shown
    BY <1>1, <1>3, <1>7 DEF GroupFields, Cut
  <2>2. i \in 1 .. Len(s) /\ shown[i] = s[i]
    BY <1>3, <2>1 DEF Cut
  <2>3. PICK x \in Nat : d = Append(p, x)
    BY <1>2, <2>1, <2>2 DEF GroupsOf
  <2>4. d \in FilePath /\ \A n \in DOMAIN FileOf : IsPrefix(d, FileOf[n]) <=> Under(d, n)
    BY <1>7, DirectoriesArePaths
  <2>5. Members(G, p, d) = {n \in G.node : Under(d, n)}
    <3>1. Members(G, p, d) = {n \in G.node : IsPrefix(d, FileOf[n])}
      BY <1>0, <2>3, MembersMeans
    <3> QED
      BY <2>4, <3>1
  <2>6. GroupsOf(G, d, GroupsBelow(G, d))
    BY <2>4, GroupsBelowAreGroups
  <2>7. /\ Total(inside) = Cardinality({e \in G.edge : Under(d, e[1]) /\ Under(d, e[2])})
        /\ SumFunction(inside.cyclic) = Cardinality({n \in G.node : Under(d, n)} \cap InCycles(G))
    <3>1. Len(GroupsBelow(G, d)) <= Cardinality(G.node)
      BY <2>6 DEF GroupsOf
    <3> HIDE DEF d
    <3> QED
      BY <1>5, <2>4, <3>1, WholeViewCounts
  <2>8. CallsBetween(G, p, d, d) = {e \in G.edge : Under(d, e[1]) /\ Under(d, e[2])}
    BY <1>4, <2>5 DEF CallsBetween
  <2>9. v.internal[i] = Cardinality(CallsBetween(G, p, d, d)) /\ v.cyclic[i] = Cardinality(Members(G, p, d) \cap InCycles(G))
    <3>1. v.internal = Internal(G, p, shown) /\ v.cyclic = Cyclic(G, p, shown) /\ d = shown[i]
      BY <1>1, <2>1 DEF GroupFields
    <3> HIDE DEF d, shown
    <3> QED
      BY <2>1, <3>1 DEF Internal, Cyclic
  <2> HIDE DEF inside
  <2>10. v.internal[i] = Total(inside) /\ v.cyclic[i] = SumFunction(inside.cyclic)
    BY <2>5, <2>7, <2>8, <2>9
  <2> QED
    BY <2>10 DEF inside
<1>8. FitsLimit(v, limit)
  <2> HIDE DEF s, shown
  <2>1. v.nodes = shown /\ v.total = Len(s) /\ v.truncated = (Len(s) > limit)
    BY <1>1 DEF GroupFields
  <2>2. IsInjective(shown)
    <3>1. DOMAIN shown = 1 .. Len(shown) /\ \A i \in 1 .. Len(shown) : i \in 1 .. Len(s) /\ shown[i] = s[i]
      BY <1>3 DEF Cut
    <3>2. \A i, j \in 1 .. Len(s) : s[i] = s[j] => i = j
      BY <1>2 DEF GroupsOf
    <3> QED
      BY <3>1, <3>2 DEF IsInjective
  <2>3. Len(s) \in Nat /\ Len(shown) \in Nat /\ Len(shown) <= limit
        /\ (Len(s) <= limit => Len(shown) = Len(s)) /\ (Len(s) > limit => Len(shown) = limit)
    BY <1>2, <1>3 DEF GroupsOf, Cut
  <2>4. /\ Len(shown) <= limit /\ (Len(s) > limit => Len(shown) = limit)
        /\ Len(s) > limit <=> Len(shown) < Len(s)
    BY <2>3
  <2> QED
    BY <2>1, <2>2, <2>4 DEF FitsLimit
<1> QED
  BY <1>1, <1>6, <1>7, <1>8 DEF CountsOnce, GroupFields

-----------------------------------------------------------------------------
(* Views of functions. *)

(* No function left out of a view is nearer than one shown in it. *)
ShowsNearest(G, v) ==
  /\ Range(v.nodes) \subseteq NearTo(G, v.focus, v.depth, v.direction)
  /\ \A d \in 0 .. v.depth : \/ NearTo(G, v.focus, d, v.direction) \subseteq Range(v.nodes)
                             \/ Range(v.nodes) \subseteq NearTo(G, v.focus, d, v.direction)
  /\ ~v.truncated <=> Range(v.nodes) = NearTo(G, v.focus, v.depth, v.direction)

(* The view of a function is what ViewsAreTrue states of one. *)
LEMMA FunctionViewIsTrue ==
  ASSUME NEW G, OfSymbols(G), NEW f \in G.node, NEW depth \in Nat, NEW limit \in Nat \ {0}, NEW dir,
         NEW v,
         v = [scope |-> "function", focus |-> f, nodes |-> Search(G, f, depth, limit, dir),
              depth |-> depth, direction |-> dir,
              edges |-> Between(G, Range(Search(G, f, depth, limit, dir))),
              total |-> ReachableCount(G, f, depth, dir),
              truncated |-> ReachableCount(G, f, depth, dir) >
                              Len(Search(G, f, depth, limit, dir))]
  PROVE  v.scope = "function" /\ FitsLimit(v, limit) /\ ShowsNearest(G, v)
<1> DEFINE o == Search(G, f, depth, limit, dir)
           R == NearTo(G, f, depth, dir)
           r == ReachableCount(G, f, depth, dir)
<1>1. r = Cardinality(R)
  BY DEF ReachableCount, NearTo
<1>2. /\ o \in Seq(G.node) /\ Len(o) <= limit
      /\ \A i, j \in 1 .. Len(o) : o[i] = o[j] => i = j
      /\ Range(o) \subseteq R
      /\ \A d \in 0 .. depth : \/ NearTo(G, f, d, dir) \subseteq Range(o)
                               \/ Range(o) \subseteq NearTo(G, f, d, dir)
      /\ Len(o) < limit => Range(o) = R
  <2>1. NearestFirst(G, f, depth, limit, dir, o)
    BY SearchShows
  <2> HIDE DEF o
  <2> QED
    BY <2>1 DEF NearestFirst
<1>3. /\ v.scope = "function" /\ v.focus = f /\ v.nodes = o /\ v.depth = depth /\ v.direction = dir
      /\ v.total = r /\ v.truncated = (r > Len(o))
  OBVIOUS
<1>4. IsFiniteSet(R)
  <2>1. R \subseteq G.node /\ IsFiniteSet(G.node)
    BY NearGrows DEF OfSymbols, IsGraph
  <2> HIDE DEF R
  <2> QED
    BY <2>1, FS_Subset
<1> HIDE DEF o, R, r
<1>5. Cardinality(Range(o)) = Len(o) /\ Len(o) \in Nat /\ DOMAIN o = 1 .. Len(o)
  BY <1>2, DistinctCount, LenProperties
<1>6. r \in Nat /\ Len(o) <= r /\ (Len(o) = r => Range(o) = R) /\ (Range(o) = R => Len(o) = r)
  BY <1>1, <1>2, <1>4, <1>5, FS_Subset, FS_CardinalityType
<1>7. r > Len(o) <=> Len(o) < r
  BY <1>5, <1>6
<1>8. ~(r > Len(o)) <=> Range(o) = R
  BY <1>5, <1>6
<1>9. FitsLimit(v, limit)
  <2>1. r > Len(o) => Len(o) = limit
    <3>1. r > Len(o) => ~(Len(o) < limit)
      BY <1>2, <1>8
    <3> DEFINE x == Len(o)
    <3>2. x \in Nat /\ x <= limit /\ (r > x => ~(x < limit))
      BY <1>2, <1>5, <3>1
    <3> HIDE DEF x
    <3>3. r > x => x = limit
      BY <3>2
    <3> QED
      BY <3>3 DEF x
  <2>2. IsInjective(o)
    BY <1>2, <1>5 DEF IsInjective
  <2> QED
    BY <1>2, <1>3, <1>7, <2>1, <2>2 DEF FitsLimit
<1>10. ShowsNearest(G, v)
  BY <1>2, <1>3, <1>8 DEF ShowsNearest, R
<1> QED
  BY <1>3, <1>9, <1>10

-----------------------------------------------------------------------------
(* Distinct. *)

(* The first k elements of f. *)
Part(f, k) == {f[i] : i \in 1 .. k}

(* ... and one more. *)
LEMMA PartGrows ==
  ASSUME NEW f, NEW k \in Nat \ {0}
  PROVE  Part(f, k) = Part(f, k - 1) \cup {f[k]}
<1>1. \A i : i \in 1 .. k <=> i \in 1 .. k - 1 \/ i = k
  OBVIOUS
<1> QED
  BY <1>1 DEF Part

(* What Distinct leaves of the first k elements of s: each once, and every *)
(* beginning of s as a beginning. *)
Thinned(s, k, d) ==
  /\ \A i, j \in 1 .. Len(d) : d[i] = d[j] => i = j
  /\ Range(d) = Part(s, k)
  /\ \A m \in 0 .. k : \E p \in 0 .. Len(d) : Part(d, p) = Part(s, m)

(* One step of Distinct. *)
LEMMA ThinnedGrows ==
  ASSUME NEW S, NEW s, NEW k \in Nat \ {0}, NEW d \in Seq(S), Thinned(s, k - 1, d), s[k] \in S
  PROVE  Thinned(s, k, IF s[k] \in Range(d) THEN d ELSE Append(d, s[k]))
<1> DEFINE x == s[k]
           t == Append(d, x)
<1>1. Part(s, k) = Part(s, k - 1) \cup {x} /\ k - 1 \in Nat
  BY PartGrows
<1>2. /\ Len(d) \in Nat /\ \A i, j \in 1 .. Len(d) : d[i] = d[j] => i = j
      /\ Range(d) = Part(s, k - 1)
      /\ \A m \in 0 .. k - 1 : \E p \in 0 .. Len(d) : Part(d, p) = Part(s, m)
  BY LenProperties DEF Thinned
<1>3. \A m \in 0 .. k : m = k \/ m \in 0 .. k - 1
  BY <1>1
<1>4. \A y : y \in Range(d) <=> \E i \in 1 .. Len(d) : d[i] = y
  <2> HIDE DEF x
  <2>1. x \in S
    BY DEF x
  <2> QED
    BY <2>1, RangeGrows
<1>5. Part(d, Len(d)) = Range(d)
  BY <1>4 DEF Part
<1>6. CASE x \in Range(d)
  <2>1. Part(s, k) = Part(s, k - 1)
    BY <1>1, <1>2, <1>6
  <2>2. ASSUME NEW m \in 0 .. k PROVE \E p \in 0 .. Len(d) : Part(d, p) = Part(s, m)
    <3>1. k - 1 \in 0 .. k - 1
      BY <1>1
    <3> QED
      BY <1>2, <1>3, <2>1, <3>1
  <2> QED
    BY <1>2, <1>6, <2>1, <2>2 DEF Thinned
<1>7. CASE x \notin Range(d)
  <2>0. x \in S
    OBVIOUS
  <2> HIDE DEF x
  <2>1. /\ t \in Seq(S) /\ Len(t) = Len(d) + 1
        /\ \A i \in 1 .. Len(t) : \/ i = Len(d) + 1 /\ t[i] = x
                                  \/ i \in 1 .. Len(d) /\ t[i] = d[i]
        /\ \A i \in 1 .. Len(d) : i \in 1 .. Len(t) /\ t[i] = d[i]
        /\ t[Len(d) + 1] = x
    BY <2>0, Appended
  <2>2. Range(t) = Range(d) \cup {x}
    BY <2>0, RangeGrows
  <2> HIDE DEF t
  <2>3. \A i, j \in 1 .. Len(t) : t[i] = t[j] => i = j
    BY <1>2, <1>4, <1>7, <2>1
  <2>4. Range(t) = Part(s, k)
    BY <1>1, <1>2, <2>2
  <2>5. \A p \in 0 .. Len(d) : p \in 0 .. Len(t) /\ Part(t, p) = Part(d, p)
    <3> SUFFICES ASSUME NEW p \in 0 .. Len(d) PROVE p \in 0 .. Len(t) /\ Part(t, p) = Part(d, p)
      OBVIOUS
    <3>1. \A i \in 1 .. p : t[i] = d[i]
      BY <1>2, <2>1
    <3>2. p \in 0 .. Len(t)
      BY <1>2, <2>1
    <3> QED
      BY <3>1, <3>2 DEF Part
  <2>6. Len(t) \in 0 .. Len(t) /\ Part(t, Len(t)) = Part(s, k)
    <3>1. Len(t) \in Nat \ {0} /\ Len(t) - 1 = Len(d)
      BY <1>2, <2>1
    <3>2. Part(t, Len(t)) = Part(t, Len(d)) \cup {t[Len(t)]}
      BY <3>1, PartGrows
    <3>3. Len(d) \in 0 .. Len(d) /\ Len(t) \in 0 .. Len(t)
      BY <1>2, <3>1
    <3>4. Part(t, Len(d)) = Range(d)
      BY <1>5, <2>5, <3>3
    <3>5. t[Len(t)] = x
      BY <2>1
    <3> QED
      BY <1>1, <1>2, <3>2, <3>3, <3>4, <3>5
  <2>7. \A m \in 0 .. k : \E p \in 0 .. Len(t) : Part(t, p) = Part(s, m)
    BY <1>2, <1>3, <2>5, <2>6
  <2>8. Thinned(s, k, t)
    BY <2>3, <2>4, <2>7 DEF Thinned
  <2> QED
    BY <1>7, <2>8 DEF t, x
<1> QED
  BY <1>6, <1>7

(* Distinct keeps each element once and the beginnings in order. *)
LEMMA DistinctThins ==
  ASSUME NEW S, NEW s \in Seq(S)
  PROVE  Distinct(s) \in Seq(S) /\ Thinned(s, Len(s), Distinct(s))
<1> DEFINE n == Len(s)
           T == Seq(S)
           V == [k \in 0 .. n |-> {d \in T : Thinned(s, k, d)}]
           Next_(d, x) == IF x \in Range(d) THEN d ELSE Append(d, x)
           step == [i \in 1 .. n |-> [d \in T |-> Next_(d, s[i])]]
           Body(iter, N) == IF N = {} THEN <<>>
                            ELSE LET x == Max(N)
                                 IN  IF s[x] \in Range(iter[N \ {x}]) THEN iter[N \ {x}]
                                     ELSE Append(iter[N \ {x}], s[x])
           Solved(iter) == iter = [N \in SUBSET (DOMAIN s) |-> Body(iter, N)]
           K == CHOOSE iter : Solved(iter)
<1>1. n \in Nat /\ DOMAIN s = 1 .. n /\ \A i \in 1 .. n : s[i] \in S
  BY LenProperties, ElementOfSeq
<1>2. Distinct(s) = K[DOMAIN s]
  BY DEF Distinct, FoldLeft, MapThenFoldSet
<1> HIDE DEF n
<1>4. <<>> \in V[0] /\ <<>> \in T
  <2>1. <<>> \in Seq(S) /\ Len(<<>>) = 0 /\ 0 \in 0 .. n
    BY <1>1, EmptySeq
  <2> DEFINE e == <<>>
  <2>2. e \in Seq(S) /\ Len(e) = 0 /\ DOMAIN e = 1 .. Len(e)
    BY <2>1, LenProperties
  <2> HIDE DEF e
  <2>3. 1 .. 0 = {} /\ 0 .. 0 = {0}
    OBVIOUS
  <2>4. Range(e) = {} /\ Part(s, 0) = {} /\ Part(e, 0) = {}
    BY <2>2, <2>3 DEF Range, Part
  <2>5. Thinned(s, 0, e)
    BY <2>2, <2>3, <2>4 DEF Thinned
  <2> QED
    BY <2>1, <2>2, <2>5 DEF e
<1>5. ASSUME NEW i \in 1 .. n, NEW d \in T PROVE step[i][d] = Next_(d, s[i]) /\ step[i][d] \in T
  <2>1. Append(d, s[i]) \in T
    BY <1>1, AppendProperties
  <2> HIDE DEF T
  <2> QED
    BY <2>1
<1>6. ASSUME NEW i \in 1 .. n, NEW d \in T, d \in V[i - 1] PROVE step[i][d] \in V[i]
  <2>1. i - 1 \in 0 .. n /\ i \in 0 .. n /\ i \in Nat \ {0}
    BY <1>1
  <2>2. Thinned(s, i - 1, d)
    BY <1>6, <2>1
  <2>3. Thinned(s, i, Next_(d, s[i]))
    BY <1>1, <2>1, <2>2, ThinnedGrows
  <2> HIDE DEF T, step
  <2> QED
    BY <1>5, <2>1, <2>3
<1> HIDE DEF V, T, step
<1>7. Folding(n, T, V, <<>>, step)
  BY <1>4, <1>5, <1>6 DEF Folding
<1>8. FoldRuns(n, T, V, <<>>, step)
  BY <1>1, <1>7, FoldWorks
<1>9. PICK g : FoldSteps(g, n, T, <<>>, step)
  BY <1>8 DEF FoldRuns
<1>10. Solved(g)
  <2>1. ASSUME NEW N \in SUBSET (1 .. n) PROVE g[N] = Body(g, N)
    <3>1. CASE N = {}
      BY <1>9, <3>1 DEF FoldSteps
    <3>2. CASE N # {}
      <4>1. Max(N) \in 1 .. n /\ N \ {Max(N)} \in SUBSET (1 .. n)
        BY <1>8, <3>2 DEF FoldRuns
      <4>2. g[N] = step[Max(N)][g[N \ {Max(N)}]] /\ g[N \ {Max(N)}] \in T
        BY <1>9, <3>2, <4>1 DEF FoldSteps
      <4>3. g[N] = Next_(g[N \ {Max(N)}], s[Max(N)])
        BY <1>5, <4>1, <4>2
      <4> QED
        BY <3>2, <4>3
    <3> QED
      BY <3>1, <3>2
  <2> HIDE DEF Body
  <2> QED
    BY <1>1, <1>9, <2>1 DEF FoldSteps
<1>11. Solved(K)
  <2> HIDE DEF Solved
  <2> QED
    BY <1>10
<1>12. \A N \in SUBSET (1 .. n) : K[N] = Body(K, N)
  <2> HIDE DEF K, Body
  <2> QED
    BY <1>1, <1>11
<1> HIDE DEF K
<1>13. K[{}] = <<>>
  BY <1>12
<1>14. ASSUME NEW N \in SUBSET (1 .. n), N # {}, K[N \ {Max(N)}] \in T
       PROVE  K[N] = step[Max(N)][K[N \ {Max(N)}]]
  <2>1. K[N] = Next_(K[N \ {Max(N)}], s[Max(N)])
    BY <1>12, <1>14
  <2>2. Max(N) \in 1 .. n
    BY <1>8, <1>14 DEF FoldRuns
  <2> HIDE DEF Next_
  <2> QED
    BY <1>5, <1>14, <2>1, <2>2
<1>15. K[1 .. n] \in V[n]
  <2>1. FoldedBy(K, n, T, <<>>, step)
    BY <1>13, <1>14 DEF FoldedBy
  <2> QED
    BY <1>8, <2>1 DEF FoldRuns
<1>17. n \in 0 .. n
  BY <1>1
<1> QED
  BY <1>1, <1>2, <1>15, <1>17 DEF V, T, n

-----------------------------------------------------------------------------
(* The order of a file. *)

(* The functions among the first k of a file that are marked or in a cycle.*)
Chosen(G, marks, s, k) == {s[i] : i \in {i \in 1 .. k : Importance(G, marks, s[i]) # 2}}

(* FirstShown are the marked functions and cycles, if there are any. *)
LEMMA FirstShownIsChosen ==
  ASSUME NEW G, NEW marks, NEW S, NEW s \in Seq(S)
  PROVE  /\ FirstShown(G, marks, s) \in Seq(S)
         /\ Chosen(G, marks, s, Len(s)) # {} =>
              Range(FirstShown(G, marks, s)) = Chosen(G, marks, s, Len(s))
<1> DEFINE n == Len(s)
           C(k) == Chosen(G, marks, s, k)
           T == Seq(S)
           V == [k \in 0 .. n |-> {d \in T : Range(d) = C(k)}]
           Next_(d, x) == IF Importance(G, marks, x) = 2 THEN d ELSE Append(d, x)
           step == [i \in 1 .. n |-> [d \in T |-> Next_(d, s[i])]]
           Body(iter, N) == IF N = {} THEN <<>>
                            ELSE LET x == Max(N)
                                 IN  IF Importance(G, marks, s[x]) = 2 THEN iter[N \ {x}]
                                     ELSE Append(iter[N \ {x}], s[x])
           Solved(iter) == iter = [N \in SUBSET (DOMAIN s) |-> Body(iter, N)]
           K == CHOOSE iter : Solved(iter)
           first == K[DOMAIN s]
<1>1. n \in Nat /\ DOMAIN s = 1 .. n /\ \A i \in 1 .. n : s[i] \in S
  BY LenProperties, ElementOfSeq
<1>2. FirstShown(G, marks, s) = IF first = <<>> /\ s # <<>> THEN <<s[1]>> ELSE first
  BY DEF FirstShown, FoldLeft, MapThenFoldSet
<1> HIDE DEF n
<1>4. <<>> \in V[0] /\ <<>> \in T
  <2> DEFINE e == <<>>
  <2>1. e \in Seq(S) /\ Len(e) = 0 /\ DOMAIN e = 1 .. Len(e) /\ 0 \in 0 .. n
    BY <1>1, EmptySeq, LenProperties
  <2> HIDE DEF e
  <2>3. 1 .. 0 = {}
    OBVIOUS
  <2>4. Range(e) = {} /\ C(0) = {}
    BY <2>1, <2>3 DEF Range, Chosen
  <2> HIDE DEF C
  <2> QED
    BY <2>1, <2>4 DEF e
<1>5. ASSUME NEW i \in 1 .. n, NEW d \in T PROVE step[i][d] = Next_(d, s[i]) /\ step[i][d] \in T
  <2>1. Append(d, s[i]) \in T
    BY <1>1, AppendProperties
  <2> HIDE DEF T
  <2> QED
    BY <2>1
<1>6. ASSUME NEW i \in 1 .. n, NEW d \in T, d \in V[i - 1] PROVE step[i][d] \in V[i]
  <2>1. i - 1 \in 0 .. n /\ i \in 0 .. n /\ i \in Nat \ {0} /\ s[i] \in S
    BY <1>1
  <2>2. Range(d) = C(i - 1)
    <3> HIDE DEF C, T
    <3> QED
      BY <1>6, <2>1
  <2>3. C(i) = IF Importance(G, marks, s[i]) = 2 THEN C(i - 1) ELSE C(i - 1) \cup {s[i]}
    <3>1. \A j : j \in 1 .. i <=> j \in 1 .. i - 1 \/ j = i
      BY <2>1
    <3> QED
      BY <3>1 DEF Chosen
  <2>4. Range(Append(d, s[i])) = Range(d) \cup {s[i]}
    BY <2>1, RangeGrows
  <2> HIDE DEF C
  <2>5. Range(Next_(d, s[i])) = C(i)
    BY <2>2, <2>3, <2>4
  <2> HIDE DEF T, step, Next_
  <2> QED
    BY <1>5, <2>1, <2>5
<1> HIDE DEF V, T, step, C
<1>7. Folding(n, T, V, <<>>, step)
  BY <1>4, <1>5, <1>6 DEF Folding
<1>8. FoldRuns(n, T, V, <<>>, step)
  BY <1>1, <1>7, FoldWorks
<1>9. PICK g : FoldSteps(g, n, T, <<>>, step)
  BY <1>8 DEF FoldRuns
<1>10. Solved(g)
  <2>1. ASSUME NEW N \in SUBSET (1 .. n) PROVE g[N] = Body(g, N)
    <3>1. CASE N = {}
      BY <1>9, <3>1 DEF FoldSteps
    <3>2. CASE N # {}
      <4>1. Max(N) \in 1 .. n /\ N \ {Max(N)} \in SUBSET (1 .. n)
        BY <1>8, <3>2 DEF FoldRuns
      <4>2. g[N] = step[Max(N)][g[N \ {Max(N)}]] /\ g[N \ {Max(N)}] \in T
        BY <1>9, <3>2, <4>1 DEF FoldSteps
      <4>3. g[N] = Next_(g[N \ {Max(N)}], s[Max(N)])
        BY <1>5, <4>1, <4>2
      <4> QED
        BY <3>2, <4>3
    <3> QED
      BY <3>1, <3>2
  <2> HIDE DEF Body
  <2> QED
    BY <1>1, <1>9, <2>1 DEF FoldSteps
<1>11. Solved(K)
  <2> HIDE DEF Solved
  <2> QED
    BY <1>10
<1>12. \A N \in SUBSET (1 .. n) : K[N] = Body(K, N)
  <2> HIDE DEF K, Body
  <2> QED
    BY <1>1, <1>11
<1> HIDE DEF K
<1>13. K[{}] = <<>>
  BY <1>12
<1>14. ASSUME NEW N \in SUBSET (1 .. n), N # {}, K[N \ {Max(N)}] \in T
       PROVE  K[N] = step[Max(N)][K[N \ {Max(N)}]]
  <2>1. K[N] = Next_(K[N \ {Max(N)}], s[Max(N)])
    BY <1>12, <1>14
  <2>2. Max(N) \in 1 .. n
    BY <1>8, <1>14 DEF FoldRuns
  <2> HIDE DEF Next_
  <2> QED
    BY <1>5, <1>14, <2>1, <2>2
<1>15. K[1 .. n] \in V[n]
  <2>1. FoldedBy(K, n, T, <<>>, step)
    BY <1>13, <1>14 DEF FoldedBy
  <2> QED
    BY <1>8, <2>1 DEF FoldRuns
<1>17. n \in 0 .. n
  BY <1>1
<1>18. first \in Seq(S) /\ Range(first) = C(n)
  BY <1>1, <1>15, <1>17 DEF V, T
<1> HIDE DEF first
<1>19. first = <<>> => Range(first) = {}
  BY DEF Range
<1>20. s # <<>> => <<s[1]>> \in Seq(S)
  <2> SUFFICES ASSUME s # <<>> PROVE <<s[1]>> \in Seq(S)
    OBVIOUS
  <2>1. 1 \in 1 .. n
    BY <1>1, EmptySeq DEF n
  <2>2. s[1] \in S
    BY <1>1, <2>1
  <2> QED
    BY <2>2
<1> QED
  BY <1>2, <1>18, <1>19, <1>20 DEF C, n

(* The elements of flattened sequences are those of the sequences. *)
LEMMA FlattenHasAll ==
  ASSUME NEW X, NEW ss \in Seq(Seq(X))
  PROVE  /\ FlattenSeq(ss) \in Seq(X)
         /\ Range(FlattenSeq(ss)) = UNION {Range(ss[i]) : i \in 1 .. Len(ss)}
<1> DEFINE n == Len(ss)
           U(k) == UNION {Range(ss[i]) : i \in 1 .. k}
           Good == {<<k, s>> : k \in Nat, s \in Seq(X)} \cap {p \in Nat \X Seq(X) : Range(p[2]) = U(p[1])}
<1>1. n \in Nat /\ \A i \in 1 .. n : ss[i] \in Seq(X)
  BY LenProperties, ElementOfSeq
<1>2. \A k \in Nat, s \in Seq(X) : <<k, s>> \in Good <=> Range(s) = U(k)
  <2> HIDE DEF U
  <2> QED
    OBVIOUS
<1>3. CASE n = 0
  <2>1. ss = <<>>
    BY <1>3, EmptySeq
  <2>2. FlattenSeq(ss) = ss
    BY <1>3 DEF FlattenSeq, n
  <2>3. U(0) = {}
    OBVIOUS
  <2>4. ss \in Seq(X) /\ Range(ss) = {}
    <3>1. <<>> \in Seq(X) /\ Range(<<>>) = {}
      BY EmptySeq DEF Range
    <3> QED
      BY <2>1, <3>1
  <2> QED
    BY <1>3, <2>2, <2>3, <2>4
<1>4. CASE n # 0
  <2> HIDE DEF Good, U
  <2>1. <<1, ss[1]>> \in Good
    <3>1. 1 \in 1 .. n /\ 1 .. 1 = {1}
      BY <1>1, <1>4
    <3>2. U(1) = Range(ss[1])
      BY <3>1 DEF U
    <3> QED
      BY <1>1, <1>2, <3>1, <3>2
  <2>2. ASSUME NEW i \in 1 .. n - 1, NEW s \in Seq(X), <<i, s>> \in Good
        PROVE  <<i + 1, s \o ss[i + 1]>> \in Good
    <3>1. i \in Nat /\ i + 1 \in Nat /\ i + 1 \in 1 .. n
      BY <1>1
    <3> DEFINE t == ss[i + 1]
    <3>2. t \in Seq(X) /\ Range(s) = U(i)
      BY <1>1, <1>2, <2>2, <3>1
    <3>3. U(i + 1) = U(i) \cup Range(t)
      <4>1. \A j : j \in 1 .. i + 1 <=> j \in 1 .. i \/ j = i + 1
        BY <3>1
      <4> QED
        BY <4>1 DEF U
    <3> HIDE DEF t
    <3>4. s \o t \in Seq(X) /\ Range(s \o t) = Range(s) \cup Range(t)
      BY <3>2, ConcatProperties, RangeConcatenation
    <3>5. <<i + 1, s \o t>> \in Good
      BY <1>2, <3>1, <3>2, <3>3, <3>4
    <3> QED
      BY <3>5 DEF t
  <2>3. FlattenSeq(ss) \in Seq(X) /\ <<Len(ss), FlattenSeq(ss)>> \in Good
    BY <1>4, <2>1, <2>2, FlattenGrows
  <2> QED
    BY <1>1, <1>2, <2>3 DEF U
<1> QED
  BY <1>3, <1>4

(* The order of a file's list is Higher's turned around. *)
LEMMA RanksBeforeIsHigher ==
  ASSUME NEW k \in Ranks, NEW l \in Ranks
  PROVE  RanksBefore(k, l) <=> Higher(l, k)
<1>1. /\ 1 .. 1 - 1 = {} /\ 1 .. 2 - 1 = {1} /\ 1 .. 3 - 1 = {1, 2} /\ 1 .. 4 - 1 = {1, 2, 3}
      /\ 1 .. 4 = {1, 2, 3, 4}
  OBVIOUS
<1>2. RanksBefore(k, l) <=>
           \/ k[1] < l[1]
           \/ k[1] = l[1] /\ k[2] < l[2]
           \/ k[1] = l[1] /\ k[2] = l[2] /\ k[3] < l[3]
           \/ k[1] = l[1] /\ k[2] = l[2] /\ k[3] = l[3] /\ k[4] < l[4]
  BY <1>1 DEF RanksBefore
<1>3. Higher(l, k) <=>
           \/ l[1] > k[1]
           \/ l[1] = k[1] /\ l[2] > k[2]
           \/ l[1] = k[1] /\ l[2] = k[2] /\ l[3] > k[3]
           \/ l[1] = k[1] /\ l[2] = k[2] /\ l[3] = k[3] /\ l[4] > k[4]
  BY HigherMeans
<1>4. /\ k[1] \in Int /\ k[2] \in Int /\ k[3] \in Int /\ k[4] \in Int
      /\ l[1] \in Int /\ l[2] \in Int /\ l[3] \in Int /\ l[4] \in Int
  BY DEF Ranks
<1> QED
  BY <1>2, <1>3, <1>4

(* The key that _ranked_file_nodes sorts a function by. *)
KeyOf(G, marks, n) ==
  <<Importance(G, marks, n), CHOOSE i \in DOMAIN TopologicalOrder(G) : n \in TopologicalOrder(G)[i],
    -Degree(G, n), n>>

(* Keys are four numbers, the last one the function. *)
LEMMA KeysAreRanks ==
  ASSUME NEW G, OfSymbols(G), NEW marks, NEW n \in G.node
  PROVE  KeyOf(G, marks, n) \in Ranks /\ KeyOf(G, marks, n)[4] = n
<1> DEFINE order == TopologicalOrder(G)
           position == CHOOSE i \in DOMAIN order : n \in order[i]
           a == Importance(G, marks, n)
           d == -Degree(G, n)
<1>1. IsGraph(G) /\ n \in Int
  BY DEF OfSymbols
<1>2. \E i \in DOMAIN order : n \in order[i]
  <2>1. PICK c \in StrongComponents(G) : n \in c
    BY <1>1, StrongPartition DEF Partition
  <2>2. Listing(order, StrongComponents(G))
    BY TopologicalOrderIsOrdered DEF Ordered
  <2> HIDE DEF order
  <2>3. \E i \in 1 .. Len(order) : order[i] = c
    BY <2>2 DEF Listing
  <2>4. DOMAIN order = 1 .. Len(order)
    BY <2>2 DEF Listing
  <2> QED
    BY <2>1, <2>3, <2>4
<1>3. position \in Int
  <2>1. Listing(order, StrongComponents(G))
    BY TopologicalOrderIsOrdered DEF Ordered
  <2> HIDE DEF order
  <2>2. position \in DOMAIN order
    BY <1>2
  <2>3. DOMAIN order = 1 .. Len(order) /\ Len(order) \in Nat
    BY <2>1 DEF Listing
  <2> HIDE DEF position
  <2> QED
    BY <2>2, <2>3
<1>4. a \in Int
  BY DEF Importance
<1>5. d \in Int
  <2> DEFINE A == {e \in G.edge : e[1] = n}
             B == {e \in G.edge : e[2] = n}
  <2>1. IsFiniteSet(G.edge) /\ A \in SUBSET G.edge /\ B \in SUBSET G.edge
    BY <1>1, EdgesAreFinite
  <2>2. Degree(G, n) = Cardinality(A) + Cardinality(B)
    BY DEF Degree
  <2> HIDE DEF A, B
  <2>3. Cardinality(A) \in Nat /\ Cardinality(B) \in Nat
    BY <2>1, FS_Subset, FS_CardinalityType
  <2> QED
    BY <2>2, <2>3
<1>6. KeyOf(G, marks, n) = <<a, position, d, n>>
  BY DEF KeyOf
<1> HIDE DEF a, position, d
<1> QED
  BY <1>1, <1>3, <1>4, <1>5, <1>6 DEF Ranks

(* A file's functions are listed in the order of their keys. *)
LEMMA RankedIsListing ==
  ASSUME NEW G, OfSymbols(G), NEW marks, NEW file
  PROVE  Listing(RankedOf(G, marks, file), {n \in G.node : FileOf[n] = file})
<1> DEFINE F == {n \in G.node : FileOf[n] = file}
           key == [n \in F |-> KeyOf(G, marks, n)]
           keys == {KeyOf(G, marks, n) : n \in F}
           m == Cardinality(keys)
           c == [i \in 1 .. m |-> CHOOSE k \in keys : Cardinality({l \in keys : RanksBefore(l, k)}) = i - 1]
           r == RankedOf(G, marks, file)
           R == {p \in keys \X keys : RanksBefore(p[1], p[2])}
<1>1. r = [i \in 1 .. m |->
             (CHOOSE k \in keys : Cardinality({l \in keys : RanksBefore(l, k)}) = i - 1)[4]]
  BY DEF RankedOf, KeyOf
<1>2. r = [i \in 1 .. m |-> c[i][4]]
  <2> HIDE DEF keys, m, r
  <2> QED
    BY <1>1
<1>3. \A n \in F : KeyOf(G, marks, n) \in keys /\ KeyOf(G, marks, n) \in Ranks /\ KeyOf(G, marks, n)[4] = n
  BY KeysAreRanks
<1>4. \A k \in keys : k \in Ranks /\ k[4] \in F /\ k = KeyOf(G, marks, k[4])
  <2> SUFFICES ASSUME NEW k \in keys PROVE k \in Ranks /\ k[4] \in F /\ k = KeyOf(G, marks, k[4])
    OBVIOUS
  <2>1. PICK n \in F : k = KeyOf(G, marks, n)
    OBVIOUS
  <2> QED
    BY <1>3, <2>1
<1>5. IsFiniteSet(keys)
  <2>1. F \in SUBSET G.node /\ IsFiniteSet(G.node)
    BY DEF OfSymbols, IsGraph
  <2> HIDE DEF F
  <2>2. IsFiniteSet(F)
    BY <2>1, FS_Subset
  <2>3. keys = {key[n] : n \in F}
    OBVIOUS
  <2> HIDE DEF keys, key
  <2> QED
    BY <2>2, <2>3, ImageIsFinite
<1> HIDE DEF F, key, keys, m, r
<1>6. \A k, l : <<k, l>> \in R <=> k \in keys /\ l \in keys /\ RanksBefore(k, l)
  OBVIOUS
<1>7. \A i \in 1 .. m : (\E k \in keys : Cardinality({l \in keys : <<l, k>> \in R}) = i - 1)
             => c[i] \in keys /\ Cardinality({l \in keys : <<l, c[i]>> \in R}) = i - 1
  <2>1. \A k \in keys : {l \in keys : <<l, k>> \in R} = {l \in keys : RanksBefore(l, k)}
    BY <1>6
  <2> HIDE DEF R
  <2> SUFFICES ASSUME NEW i \in 1 .. m, NEW k \in keys, Cardinality({l \in keys : <<l, k>> \in R}) = i - 1
               PROVE  c[i] \in keys /\ Cardinality({l \in keys : <<l, c[i]>> \in R}) = i - 1
    OBVIOUS
  <2>2. Cardinality({l \in keys : RanksBefore(l, k)}) = i - 1
    BY <2>1
  <2>3. c[i] \in keys /\ Cardinality({l \in keys : RanksBefore(l, c[i])}) = i - 1
    BY <2>2
  <2> HIDE DEF c
  <2> QED
    BY <2>1, <2>3
<1> HIDE DEF R
<1>8. Listing(c, keys) /\ m \in Nat
  <2>1. \A k \in keys : <<k, k>> \notin R
    BY <1>4, <1>6, RanksBeforeIsHigher, HigherIsOrder
  <2>2. \A k, l, h \in keys : <<k, l>> \in R /\ <<l, h>> \in R => <<k, h>> \in R
    <3> SUFFICES ASSUME NEW k \in keys, NEW l \in keys, NEW h \in keys, <<k, l>> \in R, <<l, h>> \in R
                 PROVE  <<k, h>> \in R
      OBVIOUS
    <3>1. k \in Ranks /\ l \in Ranks /\ h \in Ranks
      BY <1>4
    <3>2. Higher(l, k) /\ Higher(h, l)
      BY <1>6, <3>1, RanksBeforeIsHigher
    <3>3. Higher(h, k)
      BY <3>1, <3>2, HigherIsOrder
    <3> QED
      BY <1>6, <3>1, <3>3, RanksBeforeIsHigher
  <2>3. \A k, l \in keys : k = l \/ <<k, l>> \in R \/ <<l, k>> \in R
    <3> SUFFICES ASSUME NEW k \in keys, NEW l \in keys PROVE k = l \/ <<k, l>> \in R \/ <<l, k>> \in R
      OBVIOUS
    <3>1. k \in Ranks /\ l \in Ranks
      BY <1>4
    <3>2. Higher(k, l) \/ Higher(l, k) \/ k[4] = l[4]
      BY <3>1, HigherIsOrder
    <3>3. k[4] = l[4] => k = l
      BY <1>4
    <3> QED
      BY <1>6, <3>1, <3>2, <3>3, RanksBeforeIsHigher
  <2>4. c = [i \in 1 .. m |-> c[i]]
    OBVIOUS
  <2> HIDE DEF c
  <2>5. PlacedBy(c, keys, R)
    BY <1>7, <2>4 DEF PlacedBy, m
  <2>6. StrictOrder(keys, R)
    BY <2>1, <2>2, <2>3 DEF StrictOrder
  <2> QED
    BY <1>5, <2>5, <2>6, CountingIsListing DEF m
<1>9. /\ m \in Nat /\ \A i \in 1 .. m : c[i] \in keys
      /\ \A i, j \in 1 .. m : c[i] = c[j] => i = j
      /\ \A k \in keys : \E i \in 1 .. m : c[i] = k
  <2>1. DOMAIN c = 1 .. m
    BY DEF c
  <2>2. Listing(c, keys)
    BY <1>8
  <2>3. Len(c) \in Nat /\ 1 .. Len(c) = 1 .. m
    BY <2>1, <2>2 DEF Listing
  <2> QED
    BY <1>8, <2>2, <2>3 DEF Listing
<1>10. \A i \in 1 .. m : r[i] = c[i][4]
  BY <1>2
<1>11. r \in [1 .. m -> F]
  <2>1. \A i \in 1 .. m : c[i][4] \in F
    BY <1>4, <1>9
  <2> QED
    BY <1>2, <2>1
<1>12. ASSUME NEW i \in 1 .. m, NEW j \in 1 .. m, r[i] = r[j] PROVE i = j
  <2> HIDE DEF c
  <2>1. c[i] = c[j]
    BY <1>4, <1>9, <1>10, <1>12
  <2> QED
    BY <1>9, <2>1
<1>13. \A n \in F : \E i \in 1 .. m : r[i] = n
  <2> SUFFICES ASSUME NEW n \in F PROVE \E i \in 1 .. m : r[i] = n
    OBVIOUS
  <2>1. KeyOf(G, marks, n) \in keys /\ KeyOf(G, marks, n)[4] = n
    BY <1>3
  <2>2. PICK i \in 1 .. m : c[i] = KeyOf(G, marks, n)
    BY <1>9, <2>1
  <2> QED
    BY <1>10, <2>1, <2>2
<1>14. Listing(r, F)
  BY <1>9, <1>11, <1>12, <1>13, IsListing
<1> QED
  BY <1>14 DEF r, F

(* t is a followed by b. *)
Follows(S, a, b, t) ==
  /\ t \in Seq(S) /\ Len(t) = Len(a) + Len(b) /\ Len(a) \in Nat /\ Len(b) \in Nat
  /\ Part(a, Len(a)) = Range(a)
  /\ Range(t) = Range(a) \cup Range(b)
  /\ \A p \in 0 .. Len(a) : Part(t, p) = Part(a, p)

(* Joining two sequences keeps the beginnings of the first. *)
LEMMA PartOfConcat ==
  ASSUME NEW S, NEW a \in Seq(S), NEW b \in Seq(S)
  PROVE  Follows(S, a, b, a \o b)
<1> DEFINE t == a \o b
<1>1. /\ Len(a) \in Nat /\ Len(b) \in Nat /\ t \in Seq(S) /\ Len(t) = Len(a) + Len(b)
      /\ \A i \in 1 .. Len(a) + Len(b) : t[i] = IF i <= Len(a) THEN a[i] ELSE b[i - Len(a)]
  BY LenProperties, ConcatProperties
<1>2. Range(t) = Range(a) \cup Range(b)
  BY RangeConcatenation
<1>3. Part(a, Len(a)) = Range(a)
  BY RangeEquality DEF Part
<1> HIDE DEF t
<1>4. ASSUME NEW p \in 0 .. Len(a) PROVE Part(t, p) = Part(a, p)
  <2>1. \A i \in 1 .. p : t[i] = a[i]
    BY <1>1
  <2> QED
    BY <2>1 DEF Part
<1> QED
  BY <1>1, <1>2, <1>3, <1>4 DEF t, Follows

(* The functions of a file F that come first, and those next to them. *)
MarkedOf(G, marks, F) == {n \in F : n \in (marks \cup InCycles(G))}
NearOf(G, marks, F) ==
  {n \in F : \E e \in Between(G, F) : n \in {e[1], e[2]} /\ {e[1], e[2]} \cap MarkedOf(G, marks, F) # {}}

(* The order of a file: all its functions, beginning with the first, and *)
(* then those next to them. *)
FileOrdered(G, marks, F, o) ==
  /\ o \in Seq(F) /\ Range(o) = F
  /\ \A i, j \in 1 .. Len(o) : o[i] = o[j] => i = j
  /\ MarkedOf(G, marks, F) # {} =>
       /\ \E p \in 0 .. Len(o) : Part(o, p) = MarkedOf(G, marks, F)
       /\ \E p \in 0 .. Len(o) : Part(o, p) = MarkedOf(G, marks, F) \cup NearOf(G, marks, F)

(* f lists what calls r or is called by r in F. *)
Neighboring(G, F, r, f) ==
  f \in Seq(F) /\ \A m : m \in Range(f) <=> m \in F /\ \E e \in Between(G, F) : {e[1], e[2]} = {m, r}

(* NeighborsIn lists the neighbours. *)
LEMMA NeighborsAreListed ==
  ASSUME NEW G, OfSymbols(G), NEW F \in SUBSET G.node, NEW r
  PROVE  Neighboring(G, F, r, NeighborsIn(G, r, F))
<1> DEFINE M == {m \in F : \E e \in Between(G, F) : {e[1], e[2]} = {m, r}}
           f == Sorted(M)
<1>1. M \in SUBSET F /\ M \in SUBSET G.node /\ M \in SUBSET Int /\ IsFiniteSet(G.node)
  BY DEF OfSymbols, IsGraph
<1>2. NeighborsIn(G, r, F) = f
  BY DEF NeighborsIn
<1> HIDE DEF M
<1>3. IsFiniteSet(M)
  BY <1>1, FS_Subset
<1>4. Listing(f, M)
  BY <1>1, <1>3, SortedIsListing
<1> HIDE DEF f
<1>5. f \in Seq(F)
  BY <1>1, <1>4, SeqMonotonic DEF Listing
<1>6. Range(f) = M
  BY <1>4 DEF Listing, Range
<1> QED
  BY <1>2, <1>5, <1>6 DEF M, Neighboring

(* FileOrder orders all functions of a file so. *)
LEMMA FileOrderIsOrdered ==
  ASSUME NEW G, OfSymbols(G), NEW marks, NEW F \in SUBSET G.node, NEW s, Listing(s, F)
  PROVE  FileOrdered(G, marks, F, FileOrder(G, marks, s))
<1> DEFINE first == MarkedOf(G, marks, F)
           near == NearOf(G, marks, F)
           a == FirstShown(G, marks, s)
           neigh == [i \in DOMAIN a |-> NeighborsIn(G, a[i], Range(s))]
           b == FlattenSeq(neigh)
           t == a \o b \o s
           o == FileOrder(G, marks, s)
<1>1. s \in Seq(F) /\ Range(s) = F /\ \A n \in F : \E i \in 1 .. Len(s) : s[i] = n
  BY DEF Listing, Range
<1>2. o = Distinct(t)
  BY DEF FileOrder
<1>3. Chosen(G, marks, s, Len(s)) = first
  <2>1. \A n : Importance(G, marks, n) # 2 <=> n \in (marks \cup InCycles(G))
    BY DEF Importance
  <2>2. \A i \in 1 .. Len(s) : s[i] \in F
    BY DEF Listing
  <2>3. ASSUME NEW n PROVE n \in Chosen(G, marks, s, Len(s)) <=> n \in first
    <3>1. n \in Chosen(G, marks, s, Len(s)) <=> \E i \in 1 .. Len(s) : s[i] = n /\ Importance(G, marks, s[i]) # 2
      BY DEF Chosen
    <3>2. n \in first <=> n \in F /\ n \in (marks \cup InCycles(G))
      BY DEF MarkedOf
    <3> HIDE DEF first
    <3> QED
      BY <1>1, <2>1, <2>2, <3>1, <3>2
  <2> HIDE DEF first
  <2> QED
    BY <2>3
<1>4. a \in Seq(F) /\ (first # {} => Range(a) = first)
  BY <1>1, <1>3, FirstShownIsChosen
<1> HIDE DEF first, a
<1>5. neigh \in Seq(Seq(F)) /\ Len(neigh) = Len(a)
      /\ \A i \in 1 .. Len(a) : neigh[i] = NeighborsIn(G, a[i], F)
  <2>1. DOMAIN a = 1 .. Len(a) /\ Len(a) \in Nat
    BY <1>4, LenProperties
  <2>2. \A i \in 1 .. Len(a) : neigh[i] = NeighborsIn(G, a[i], F)
    BY <1>1, <2>1
  <2>3. \A i \in 1 .. Len(a) : NeighborsIn(G, a[i], F) \in Seq(F)
    BY NeighborsAreListed DEF Neighboring
  <2>4. neigh = [i \in 1 .. Len(a) |-> neigh[i]]
    BY <2>1
  <2> HIDE DEF neigh
  <2>5. neigh \in [1 .. Len(a) -> Seq(F)]
    BY <2>2, <2>3, <2>4
  <2>6. neigh \in Seq(Seq(F)) /\ DOMAIN neigh = 1 .. Len(a)
    BY <2>1, <2>5, SeqDef
  <2>7. DOMAIN neigh = 1 .. Len(neigh) /\ Len(neigh) \in Nat
    BY <2>6, LenProperties
  <2>8. Len(neigh) = Len(a)
    BY <2>1, <2>6, <2>7
  <2> QED
    BY <2>2, <2>6, <2>8
<1> HIDE DEF neigh
<1>6. b \in Seq(F) /\ Range(b) = UNION {Range(neigh[i]) : i \in 1 .. Len(neigh)}
  BY <1>5, FlattenHasAll
<1> HIDE DEF b
<1> DEFINE c == a \o b
<1>7. /\ c \in Seq(F) /\ Len(c) = Len(a) + Len(b) /\ Len(a) \in Nat /\ Len(b) \in Nat
      /\ Part(a, Len(a)) = Range(a) /\ Range(c) = Range(a) \cup Range(b)
      /\ \A p \in 0 .. Len(a) : Part(c, p) = Part(a, p)
  <2>1. Follows(F, a, b, c)
    BY <1>4, <1>6, PartOfConcat
  <2> HIDE DEF c
  <2> QED
    BY <2>1 DEF Follows
<1>8. t = c \o s
  OBVIOUS
<1> HIDE DEF c, t
<1>9. /\ t \in Seq(F) /\ Len(t) = Len(c) + Len(s) /\ Len(c) \in Nat /\ Len(s) \in Nat
      /\ Part(c, Len(c)) = Range(c) /\ Range(t) = Range(c) \cup Range(s)
      /\ \A p \in 0 .. Len(c) : Part(t, p) = Part(c, p)
  <2>1. Follows(F, c, s, t)
    BY <1>1, <1>7, <1>8, PartOfConcat
  <2> QED
    BY <2>1 DEF Follows
<1>10. Part(t, Len(t)) = Range(t)
  BY <1>9, RangeEquality DEF Part
<1>11. o \in Seq(F) /\ Thinned(t, Len(t), o)
  BY <1>2, <1>9, DistinctThins
<1> HIDE DEF o
<1>12. Range(t) = F
  <2>1. Range(c) \in SUBSET F
    BY <1>7, RangeOfSeq
  <2> QED
    BY <1>1, <1>9, <2>1
<1>13. /\ Len(a) \in 0 .. Len(t) /\ Part(t, Len(a)) = Range(a)
       /\ Len(c) \in 0 .. Len(t) /\ Part(t, Len(c)) = Range(a) \cup Range(b)
  <2>1. Len(a) \in 0 .. Len(a) /\ Len(a) \in 0 .. Len(c) /\ Len(c) \in 0 .. Len(c)
        /\ Len(a) \in 0 .. Len(t) /\ Len(c) \in 0 .. Len(t)
    BY <1>7, <1>9
  <2> QED
    BY <1>7, <1>9, <2>1
<1>14. ASSUME first # {} PROVE Range(a) \cup Range(b) = first \cup near
  <2>1. Range(a) = first
    BY <1>4, <1>14
  <2>2. \A i \in 1 .. Len(a) : \A m : m \in Range(neigh[i]) <=>
          m \in F /\ \E e \in Between(G, F) : {e[1], e[2]} = {m, a[i]}
    <3>1. \A i \in 1 .. Len(a) : Neighboring(G, F, a[i], neigh[i])
      BY <1>5, NeighborsAreListed
    <3> QED
      BY <3>1 DEF Neighboring
  <2>3. \A x : x \in first <=> \E i \in 1 .. Len(a) : a[i] = x
    <3>1. DOMAIN a = 1 .. Len(a)
      BY <1>4, LenProperties
    <3> QED
      BY <2>1, <3>1 DEF Range
  <2>4. \A m : m \in Range(b) <=> m \in F /\ \E r \in first : \E e \in Between(G, F) : {e[1], e[2]} = {m, r}
    <3>1. \A m : m \in Range(b) <=> \E i \in 1 .. Len(a) : m \in Range(neigh[i])
      BY <1>5, <1>6
    <3>2. ASSUME NEW m \in Range(b)
          PROVE  m \in F /\ \E r \in first : \E e \in Between(G, F) : {e[1], e[2]} = {m, r}
      <4>1. PICK i \in 1 .. Len(a) : m \in Range(neigh[i])
        BY <3>1
      <4>2. m \in F /\ \E e \in Between(G, F) : {e[1], e[2]} = {m, a[i]}
        BY <2>2, <4>1
      <4>3. a[i] \in first
        BY <2>3
      <4> QED
        BY <4>2, <4>3
    <3>3. ASSUME NEW m \in F, NEW r \in first, NEW e \in Between(G, F), {e[1], e[2]} = {m, r} PROVE m \in Range(b)
      <4>1. PICK i \in 1 .. Len(a) : a[i] = r
        BY <2>3
      <4>2. m \in Range(neigh[i])
        BY <2>2, <3>3, <4>1
      <4> QED
        BY <3>1, <4>2
    <3> QED
      BY <3>2, <3>3
  <2>5. \A m : m \in near <=> m \in F /\ \E e \in Between(G, F) : m \in {e[1], e[2]} /\ {e[1], e[2]} \cap first # {}
    BY DEF NearOf, first
  <2>6. \A m : m \in first => m \in F
    BY DEF first, MarkedOf
  <2> HIDE DEF near
  <2>7. ASSUME NEW m \in Range(b) PROVE m \in first \cup near
    <3>1. PICK r \in first : \E e \in Between(G, F) : {e[1], e[2]} = {m, r}
      BY <2>4
    <3>2. PICK e \in Between(G, F) : {e[1], e[2]} = {m, r}
      BY <3>1
    <3>3. m \in {e[1], e[2]} /\ r \in {e[1], e[2]} \cap first
      BY <3>2
    <3> QED
      BY <2>4, <2>5, <3>3
  <2>8. ASSUME NEW m \in near PROVE m \in first \cup Range(b)
    <3>1. PICK e \in Between(G, F) : m \in {e[1], e[2]} /\ {e[1], e[2]} \cap first # {}
      BY <2>5
    <3>2. PICK r \in first : r \in {e[1], e[2]}
      BY <3>1
    <3>3. CASE m = r
      BY <3>3
    <3>4. CASE m # r
      <4>1. {e[1], e[2]} = {m, r}
        BY <3>1, <3>2, <3>4
      <4> QED
        BY <2>4, <2>5, <4>1
    <3> QED
      BY <3>3, <3>4
  <2> QED
    BY <2>1, <2>7, <2>8
<1> HIDE DEF near
<1>15. FileOrdered(G, marks, F, o)
  <2>1. Range(o) = F /\ \A i, j \in 1 .. Len(o) : o[i] = o[j] => i = j
    BY <1>10, <1>11, <1>12 DEF Thinned
  <2>2. \A m \in 0 .. Len(t) : \E p \in 0 .. Len(o) : Part(o, p) = Part(t, m)
    BY <1>11 DEF Thinned
  <2>3. ASSUME first # {} PROVE /\ \E p \in 0 .. Len(o) : Part(o, p) = first
                                /\ \E p \in 0 .. Len(o) : Part(o, p) = first \cup near
    BY <1>4, <1>13, <1>14, <2>2, <2>3
  <2> QED
    BY <1>11, <2>1, <2>3 DEF FileOrdered, first, near
<1> QED
  BY <1>15 DEF o

-----------------------------------------------------------------------------
(* Views of files. *)

(* What is stated of a view of a file. *)
ShowsWhatMatters(G, marks, v) ==
  LET file == {n \in G.node : FileOf[n] = v.focus}
      shown == Range(v.nodes)
  IN  /\ shown \subseteq file
      /\ ~v.truncated => shown = file
      /\ MarkedOf(G, marks, file) \ shown # {} => shown \subseteq MarkedOf(G, marks, file)
      /\ NearOf(G, marks, file) \ shown # {} =>
           shown \subseteq (MarkedOf(G, marks, file) \cup NearOf(G, marks, file))

(* Of two beginnings of a sequence one holds the other. *)
LEMMA PartsNest ==
  ASSUME NEW o, NEW p \in Nat, NEW q \in Nat
  PROVE  Part(o, p) \subseteq Part(o, q) \/ Part(o, q) \subseteq Part(o, p)
<1>1. 1 .. p \subseteq 1 .. q \/ 1 .. q \subseteq 1 .. p
  OBVIOUS
<1> QED
  BY <1>1 DEF Part

(* The view of a file is what ViewsAreTrue states of one. *)
LEMMA FileViewIsTrue ==
  ASSUME NEW G, OfSymbols(G), NEW marks, NEW file, NEW limit \in Nat, NEW v,
         NEW ranked, ranked = RankedOf(G, marks, file),
         NEW shown, shown = Shortened(FileOrder(G, marks, ranked), limit),
         v = [scope |-> "file", focus |-> file, nodes |-> shown,
              edges |-> Between(G, Range(shown)), total |-> Len(ranked), truncated |-> Len(ranked) > limit]
  PROVE  v.scope = "file" /\ FitsLimit(v, limit) /\ ShowsWhatMatters(G, marks, v)
<1> DEFINE F == {n \in G.node : FileOf[n] = file}
           o == FileOrder(G, marks, ranked)
           first == MarkedOf(G, marks, F)
           near == NearOf(G, marks, F)
           R == Range(shown)
           L == Len(shown)
<1>0. /\ v.scope = "file" /\ v.focus = file /\ v.nodes = shown
      /\ v.total = Len(ranked) /\ v.truncated = (Len(ranked) > limit)
  OBVIOUS
<1>1. Listing(ranked, F)
  BY RankedIsListing
<1>2. F \in SUBSET G.node
  OBVIOUS
<1> HIDE DEF F
<1>3. FileOrdered(G, marks, F, o)
  BY <1>1, <1>2, FileOrderIsOrdered
<1> HIDE DEF o
<1>4. /\ o \in Seq(F) /\ Range(o) = F /\ Len(o) \in Nat /\ DOMAIN o = 1 .. Len(o)
      /\ \A i, j \in 1 .. Len(o) : o[i] = o[j] => i = j
  BY <1>3, LenProperties DEF FileOrdered
<1>5. Len(o) = Len(ranked)
  BY <1>1, <1>4, DistinctCount, ListingCounts
<1>6. Cut(o, limit, shown, F)
  BY <1>4, ShortenedIsCut DEF o
<1>7. /\ L \in Nat /\ L <= limit /\ DOMAIN shown = 1 .. L /\ L <= Len(o)
      /\ (Len(o) <= limit => L = Len(o)) /\ (Len(o) > limit => L = limit)
      /\ \A i \in 1 .. L : i \in 1 .. Len(o) /\ shown[i] = o[i]
  <2>1. /\ L \in Nat /\ L <= limit /\ DOMAIN shown = 1 .. L
        /\ (Len(o) <= limit => L = Len(o)) /\ (Len(o) > limit => L = limit)
        /\ \A i \in 1 .. L : i \in 1 .. Len(o) /\ shown[i] = o[i]
    BY <1>6 DEF Cut
  <2> DEFINE l == Len(o)
  <2> HIDE DEF L, l
  <2>2. l \in Nat /\ L \in Nat /\ (l <= limit => L = l) /\ (l > limit => L = limit)
    BY <1>4, <2>1 DEF l
  <2>3. L <= l
    BY <2>2
  <2> QED
    BY <2>1, <2>3 DEF l
<1> HIDE DEF L
<1>8. R = Part(o, L)
  BY <1>7 DEF Range, Part
<1>9. Part(o, Len(o)) = F
  BY <1>4 DEF Range, Part
<1> HIDE DEF R
<1>10. R \subseteq F
  <2>1. \A i \in 1 .. L : o[i] \in F
    BY <1>4, <1>7, ElementOfSeq
  <2> QED
    BY <1>8, <2>1 DEF Part
<1>11. ~(Len(ranked) > limit) => R = F
  <2> DEFINE l == Len(o)
  <2>1. l \in Nat /\ l = Len(ranked) /\ (l <= limit => L = l)
    BY <1>4, <1>5, <1>7
  <2> HIDE DEF l
  <2>2. ~(Len(ranked) > limit) => L = l
    BY <2>1
  <2> QED
    BY <1>8, <1>9, <2>2 DEF l
<1>12. first # {} => (first \subseteq R \/ R \subseteq first)
                     /\ (first \cup near \subseteq R \/ R \subseteq first \cup near)
  <2> SUFFICES ASSUME first # {}
               PROVE  (first \subseteq R \/ R \subseteq first)
                      /\ (first \cup near \subseteq R \/ R \subseteq first \cup near)
    OBVIOUS
  <2>1. /\ \E p \in 0 .. Len(o) : Part(o, p) = first
        /\ \E p \in 0 .. Len(o) : Part(o, p) = first \cup near
    BY <1>3 DEF FileOrdered
  <2> HIDE DEF first, near
  <2>2. \A p \in 0 .. Len(o) : p \in Nat
    OBVIOUS
  <2>3. PICK p \in Nat : Part(o, p) = first
    BY <2>1, <2>2
  <2>4. PICK q \in Nat : Part(o, q) = first \cup near
    BY <2>1, <2>2
  <2> QED
    BY <1>7, <1>8, <2>3, <2>4, PartsNest
<1>13. near # {} => first # {}
  BY DEF NearOf
<1>14. /\ first \ R # {} => R \subseteq first
       /\ near \ R # {} => R \subseteq first \cup near
  <2> HIDE DEF first, near
  <2> QED
    BY <1>12, <1>13
<1>15. ShowsWhatMatters(G, marks, v)
  <2> HIDE DEF first, near
  <2>1. {n \in G.node : FileOf[n] = v.focus} = F /\ Range(v.nodes) = R
    BY <1>0 DEF F, R
  <2> QED
    BY <1>0, <1>10, <1>11, <1>14, <2>1 DEF ShowsWhatMatters, first, near
<1>16. FitsLimit(v, limit)
  <2>1. IsInjective(shown)
    <3>1. DOMAIN shown = 1 .. L
      BY <1>7
    <3>2. ASSUME NEW i \in 1 .. L, NEW j \in 1 .. L, shown[i] = shown[j] PROVE i = j
      <4>1. i \in 1 .. Len(o) /\ j \in 1 .. Len(o) /\ o[i] = o[j]
        BY <1>7, <3>2
      <4> QED
        BY <1>4, <4>1
    <3> QED
      BY <3>1, <3>2 DEF IsInjective
  <2> DEFINE l == Len(o)
             h == Len(shown)
  <2>2. l \in Nat /\ h \in Nat /\ l = Len(ranked) /\ (l <= limit => h = l) /\ (l > limit => h = limit) /\ h <= limit
    BY <1>4, <1>5, <1>7 DEF L
  <2> HIDE DEF l, h
  <2>3. h <= limit /\ (l > limit => h = limit) /\ (l > limit <=> h < l)
    BY <2>2
  <2> QED
    BY <1>0, <2>1, <2>2, <2>3 DEF FitsLimit, h
<1> QED
  BY <1>0, <1>15, <1>16

-----------------------------------------------------------------------------
(* The views of a document. *)

(* The document is a graph of the functions, and the view one of it. *)
ViewHolds ==
  \/ view = NoView
  \/ view.scope = "group" /\ (\E limit \in Limits : FitsLimit(view, limit)) /\ CountsOnce(graph, view)
  \/ /\ view.scope = "file" /\ (\E limit \in Limits : FitsLimit(view, limit))
     /\ ShowsWhatMatters(graph, marked, view)
  \/ /\ view.scope = "function" /\ (\E limit \in Limits : FitsLimit(view, limit))
     /\ ShowsNearest(graph, view)
  \/ view.scope = "tree" /\ TreeDone(graph, view.tree)
ViewMade ==
  /\ \E drawnCalls \in GraphChoices : graph = Graph(DOMAIN FileOf, drawnCalls)
  /\ marked \in MarkedChoices
  /\ ViewHolds

(* In every such state the document is a finite graph. *)
LEMMA DocumentIsGraph ==
  ASSUME ViewMade
  PROVE  /\ OfSymbols(graph) /\ IsGraph(graph) /\ graph.node = DOMAIN FileOf
         /\ graph.edge \subseteq graph.node \X graph.node /\ marked \in SUBSET graph.node
<1>1. PICK drawnCalls \in GraphChoices : graph = Graph(DOMAIN FileOf, drawnCalls)
  BY DEF ViewMade
<1>2. graph.node = DOMAIN FileOf /\ graph.edge = drawnCalls
  BY <1>1 DEF Graph
<1>3. drawnCalls \subseteq (DOMAIN FileOf) \X (DOMAIN FileOf)
  BY ChoicesAssumption
<1>4. marked \in SUBSET (DOMAIN FileOf)
  BY ChoicesAssumption DEF ViewMade
<1> QED
  BY <1>2, <1>3, <1>4, FilesArePaths DEF OfSymbols, IsGraph

(* The inductive invariant of the views: the document never changes, and *)
(* each request adds the one view that its proof is about. *)
LEMMA ViewStaysMade == ViewSpec => []ViewMade
<1>1. ViewInit => ViewMade
  BY DEF ViewInit, ViewMade, ViewHolds
<1>2. ViewMade /\ [ViewNext]_viewVars => ViewMade'
  <2> SUFFICES ASSUME ViewMade, [ViewNext]_viewVars PROVE ViewMade'
    OBVIOUS
  <2>1. /\ OfSymbols(graph) /\ IsGraph(graph) /\ graph.node = DOMAIN FileOf
        /\ graph.edge \subseteq graph.node \X graph.node /\ marked \in SUBSET graph.node
    BY DocumentIsGraph
  <2>2. \A limit \in Limits : limit \in Nat /\ limit \in Nat \ {0}
    BY BoundsAssumption
  <2>3. \A depth \in Depths : depth \in Nat
    BY BoundsAssumption
  <2>4. ASSUME graph' = graph, marked' = marked, ViewHolds' PROVE ViewMade'
    BY <2>4 DEF ViewMade
  <2>5. ASSUME NEW limit \in Limits, NEW prefix \in Directories, ShowGroups(prefix, limit)
        PROVE  ViewMade'
    <3>1. graph' = graph /\ marked' = marked /\ view' = GroupView(graph, prefix, limit)
      BY <2>5 DEF ShowGroups
    <3> DEFINE v == GroupView(graph, prefix, limit)
    <3>2. graph.node \subseteq DOMAIN FileOf
      BY <2>1
    <3>3. v.scope = "group" /\ FitsLimit(v, limit) /\ CountsOnce(graph, v)
      BY <2>1, <2>2, <3>2, GroupViewIsTrue
    <3> HIDE DEF v
    <3>4. ViewHolds'
      BY <3>1, <3>3 DEF ViewHolds, v
    <3> QED
      BY <2>4, <3>1, <3>4
  <2>6. ASSUME NEW limit \in Limits, NEW n \in graph.node, ShowFile(FileOf[n], limit)
        PROVE  ViewMade'
    <3> DEFINE ranked == RankedOf(graph, marked, FileOf[n])
               shown == Shortened(FileOrder(graph, marked, ranked), limit)
               v == [scope |-> "file", focus |-> FileOf[n], nodes |-> shown,
                     edges |-> Between(graph, Range(shown)), total |-> Len(ranked),
                     truncated |-> Len(ranked) > limit]
    <3>1. graph' = graph /\ marked' = marked /\ view' = v
      BY <2>6 DEF ShowFile
    <3>2. v.scope = "file" /\ FitsLimit(v, limit) /\ ShowsWhatMatters(graph, marked, v)
      BY <2>1, <2>2, FileViewIsTrue
    <3> HIDE DEF v
    <3>3. ViewHolds'
      BY <3>1, <3>2 DEF ViewHolds
    <3> QED
      BY <2>4, <3>1, <3>3
  <2>7. ASSUME NEW limit \in Limits, NEW n \in graph.node, NEW depth \in Depths, NEW dir,
               ShowFunction(n, depth, limit, dir)
        PROVE  ViewMade'
    <3> DEFINE v == [scope |-> "function", focus |-> n, nodes |-> Search(graph, n, depth, limit, dir),
                     depth |-> depth, direction |-> dir,
                     edges |-> Between(graph, Range(Search(graph, n, depth, limit, dir))),
                     total |-> ReachableCount(graph, n, depth, dir),
                     truncated |-> ReachableCount(graph, n, depth, dir) >
                                     Len(Search(graph, n, depth, limit, dir))]
    <3>1. graph' = graph /\ marked' = marked /\ view' = v
      BY <2>7 DEF ShowFunction
    <3>2. v.scope = "function" /\ FitsLimit(v, limit) /\ ShowsNearest(graph, v)
      BY <2>1, <2>2, <2>3, FunctionViewIsTrue
    <3> HIDE DEF v
    <3>3. ViewHolds'
      BY <3>1, <3>2 DEF ViewHolds
    <3> QED
      BY <2>4, <3>1, <3>3
  <2>8. ASSUME ShowTree PROVE ViewMade'
    <3> DEFINE t == Tree(graph, marked)
               v == [scope |-> "tree", tree |-> t]
    <3>1. graph' = graph /\ marked' = marked /\ view' = v
      BY <2>8 DEF ShowTree
    <3>2. TreeHolds(graph, t) /\ TurnsLeft(graph, t) <= 0
      BY <2>1, TreeEnds
    <3> HIDE DEF t
    <3>3. TreeDone(graph, t)
      BY <2>1, <3>2, TreeIsDone
    <3>4. v.scope = "tree" /\ v.tree = t
      OBVIOUS
    <3> HIDE DEF v
    <3>5. ViewHolds'
      BY <3>1, <3>3, <3>4 DEF ViewHolds
    <3> QED
      BY <2>4, <3>1, <3>5
  <2>9. CASE UNCHANGED viewVars
    <3>1. graph' = graph /\ marked' = marked /\ view' = view
      BY <2>9 DEF viewVars
    <3>2. ViewHolds'
      BY <3>1 DEF ViewMade, ViewHolds
    <3> QED
      BY <2>4, <3>1, <3>2
  <2> QED
    BY <2>5, <2>6, <2>7, <2>8, <2>9 DEF ViewNext
<1> QED
  BY <1>1, <1>2, PTL DEF ViewSpec

(* In every state the view a request gets is no larger than its limit, is *)
(* full when it hides something, counts every call of a directory once and *)
(* shows what matters most: the sums of build_graph_view's groups, the *)
(* order of a file and the two walks around a function agree with the *)
(* document, for every document, prefix, file, function, depth and limit. *)
THEOREM ViewsStayTrue == ViewSpec => []ViewsAreTrue
<1>1. ViewMade => ViewsAreTrue
  <2> SUFFICES ASSUME ViewMade PROVE ViewsAreTrue
    OBVIOUS
  <2>1. graph.edge \subseteq graph.node \X graph.node /\ marked \in SUBSET graph.node
    BY DocumentIsGraph
  <2>2. ViewHolds
    BY DEF ViewMade
  <2>3. NoView.scope = "none"
    BY DEF NoView
  <2>4. ViewTypeOK
    <3>1. view.scope \in {"none", "group", "file", "function", "tree"}
      BY <2>2, <2>3 DEF ViewHolds
    <3>2. ASSUME view.scope \in {"group", "file", "function"}
          PROVE  \E limit \in Limits : FitsLimit(view, limit)
      BY <2>2, <2>3, <3>2 DEF ViewHolds
    <3> QED
      BY <2>1, <3>1, <3>2 DEF ViewTypeOK, FitsLimit
  <2>5. CallsAreCountedOnce
    <3> SUFFICES ASSUME view.scope = "group" PROVE CallsAreCountedOnce
      BY DEF CallsAreCountedOnce
    <3>1. CountsOnce(graph, view)
      BY <2>2, <2>3 DEF ViewHolds
    <3> QED
      BY <3>1 DEF CountsOnce, CallsAreCountedOnce
  <2>6. FileShowsWhatMatters
    <3> SUFFICES ASSUME view.scope = "file" PROVE FileShowsWhatMatters
      BY DEF FileShowsWhatMatters
    <3>1. ShowsWhatMatters(graph, marked, view)
      BY <2>2, <2>3 DEF ViewHolds
    <3> QED
      BY <3>1 DEF ShowsWhatMatters, FileShowsWhatMatters, MarkedOf, NearOf
  <2>7. CloserFirst
    <3> SUFFICES ASSUME view.scope = "function" PROVE CloserFirst
      BY DEF CloserFirst
    <3>1. ShowsNearest(graph, view)
      BY <2>2, <2>3 DEF ViewHolds
    <3> QED
      BY <3>1 DEF ShowsNearest, CloserFirst, NearTo
  <2> QED
    BY <2>4, <2>5, <2>6, <2>7 DEF ViewsAreTrue
<1> QED
  BY <1>1, ViewStaysMade, PTL

(* In every state the tree of render_dependency_tree is finished, expands *)
(* every function once and draws every call once, with "cycle" only where *)
(* the callee leads back: for every document and all marks. *)
THEOREM TreeStaysComplete == ViewSpec => []TreeIsComplete
<1>1. ViewMade => TreeIsComplete
  <2> SUFFICES ASSUME ViewMade, view.scope = "tree" PROVE TreeIsComplete
    BY DEF TreeIsComplete
  <2>1. NoView.scope = "none"
    BY DEF NoView
  <2>2. TreeDone(graph, view.tree)
    BY <2>1 DEF ViewMade, ViewHolds
  <2> QED
    BY <2>2 DEF TreeDone, TreeIsComplete
<1> QED
  BY <1>1, ViewStaysMade, PTL
=============================================================================
