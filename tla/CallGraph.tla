------------------------------ MODULE CallGraph ------------------------------
(***************************************************************************)
(* Directed graphs of calls as the analyzer, the packers and the views use *)
(* them (networkx in the source).  A symbol is an integer whose order is   *)
(* that of the qualified names, so `sorted` and `min` keep their meaning;   *)
(* symbols count from 1.                                                   *)
(***************************************************************************)
EXTENDS Integers, Sequences, FiniteSets, Graphs

Graph(nodes, edges) == [node |-> nodes, edge |-> edges]
Subgraph(G, nodes) == Graph(nodes, {e \in G.edge : e[1] \in nodes /\ e[2] \in nodes})

Sorted(symbols) ==
  [i \in 1 .. Cardinality(symbols) |->
     CHOOSE s \in symbols : Cardinality({t \in symbols : t <= s}) = i]
ByLeast(components) ==
  LET least == Sorted({Min(c) : c \in components})
  IN  [i \in DOMAIN least |-> CHOOSE c \in components : Min(c) = least[i]]

(* The pairs of nodes of which the first reaches the second: the calls,    *)
(* and what they lead to through one more inner node after the other       *)
(* (Warshall's algorithm).                                                 *)
Reaches(G) ==
  LET through[N \in SUBSET G.node] ==
        IF N = {} THEN G.edge \cup {<<n, n>> : n \in G.node}
        ELSE LET u == CHOOSE u \in N : TRUE
                 before == through[N \ {u}]
             IN  before \cup ({m \in G.node : <<m, u>> \in before}
                                \X {n \in G.node : <<u, n>> \in before})
  IN  through[G.node]

(* strongly_connected_components and weakly_connected_components.          *)
StrongComponents(G) ==
  LET reaches == Reaches(G)
  IN  {{n \in G.node : <<m, n>> \in reaches /\ <<n, m>> \in reaches} : m \in G.node}
(* Mutant of WeakComponents: only mutual calls hold symbols together.      *)
WeakComponentsMutual(G) == StrongComponents(G)
WeakComponents(G) ==
  StrongComponents(Graph(G.node, G.edge \cup Transpose(G).edge))

Touches(G, n) == \E e \in G.edge : n \in {e[1], e[2]}

(* Mutant of NextComponent: calls are followed against their direction.    *)
NextComponentBackwards(G, rest) ==
  LET Ready(c) == \A d \in rest \ {c} : ~\E e \in G.edge : e[1] \in c /\ e[2] \in d
  IN  CHOOSE c \in rest : Ready(c) /\ \A d \in rest : Ready(d) => Min(c) <= Min(d)
(* lexicographical_topological_sort of the condensation: of the components *)
(* that no other one left calls into, the one with the least symbol first. *)
NextComponent(G, rest) ==
  LET Ready(c) == \A d \in rest \ {c} : ~\E e \in G.edge : e[1] \in d /\ e[2] \in c
  IN  CHOOSE c \in rest : Ready(c) /\ \A d \in rest : Ready(d) => Min(c) <= Min(d)

TopologicalOrder(G) ==
  LET order[rest \in SUBSET StrongComponents(G)] ==
        IF rest = {} THEN <<>>
        ELSE LET next == NextComponent(G, rest)
             IN  <<next>> \o order[rest \ {next}]
  IN  order[StrongComponents(G)]

(* Symbols within `depth` steps of `focus`, per step function.             *)
Within(focus, depth, Adjacent(_)) ==
  LET reached[k \in 0 .. depth] ==
        IF k = 0 THEN {focus}
        ELSE reached[k - 1] \cup UNION {Adjacent(n) : n \in reached[k - 1]}
  IN  reached[depth]
=============================================================================
