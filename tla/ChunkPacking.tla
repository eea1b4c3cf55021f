----------------------------- MODULE ChunkPacking -----------------------------
(***************************************************************************)
(* How ActChunkPlanner.build packs the components of one migration unit    *)
(* into the chunks that are converted one by one (module ActChunks takes   *)
(* them from there).  Components are sets of symbols, and so are chunks.   *)
(***************************************************************************)
EXTENDS SemanticUnits

CONSTANT ChunkLimits   \* ActChunkLimits

ASSUME ChunkLimitsAssumption ==
  ChunkLimits \in [input : Nat, output : Nat, functions : Nat \ {0}, modules : Nat \ {0}]

(* metrics: what goes into the request of a chunk, with one token for the  *)
(* reserve, and what comes out, with one token per module.                 *)
Modules(symbols, module) == {module[s] : s \in symbols}
Source(symbols) == MapThenSumSet(LAMBDA s : Tokens[s], symbols)
Fits(symbols, module) ==
  LET modules == Cardinality(Modules(symbols, module))
  IN  /\ Source(symbols) + 1 <= ChunkLimits.input
      /\ Source(symbols) + modules <= ChunkLimits.output
      /\ Cardinality(symbols) <= ChunkLimits.functions
      /\ modules <= ChunkLimits.modules

(* Parts call each other along the calls of their symbols.                 *)
Contracted(G, parts) ==
  Graph(parts, {p \in parts \X parts :
                  p[1] # p[2] /\ \E e \in G.edge : e[1] \in p[1] /\ e[2] \in p[2]})
IsAcyclic(G) == \A c \in StrongComponents(G) : Cardinality(c) = 1

(* The components not packed yet, and the first of them.                   *)
Rest(groups, order) == {c \in Range(order) : \A g \in Range(groups) : c \cap g = {}}
FirstOf(rest, order) == order[Min({i \in DOMAIN order : order[i] \in rest})]

(* Mutant of SafeMerge: any component may join.                            *)
SafeMergeAlways(G, groups, order, candidate) == TRUE
(* _safe_merge: a component joins the last group only if the groups and    *)
(* the components not yet packed can still be converted one after another. *)
SafeMerge(G, groups, order, candidate) ==
  LET joined == Last(groups) \cup candidate
  IN  IsAcyclic(Contracted(G, Range(Front(groups)) \cup {joined}
                              \cup (Rest(groups, order) \ {candidate})))

(* _priority: modules shared with the group, calls between the components, *)
(* nearness in the order, and the larger names.                            *)
Priority(G, group, order, candidate, module) ==
  LET members == {i \in DOMAIN order : order[i] \subseteq group}
      own == CHOOSE i \in DOMAIN order : order[i] = candidate
      Calls(c, d) == \E e \in G.edge : e[1] \in c /\ e[2] \in d
      Apart(i) == IF i < own THEN own - i ELSE i - own
  IN  << Cardinality(Modules(candidate, module) \cap Modules(group, module)),
         Cardinality({i \in members : Calls(order[i], candidate)})
           + Cardinality({i \in members : Calls(candidate, order[i])}),
         -Min({Apart(i) : i \in members}),
         Min(candidate) >>
Higher(p, q) ==
  \E i \in DOMAIN p : p[i] > q[i] /\ \A j \in 1 .. i - 1 : p[j] = q[j]

(* One component goes on: the best that fits and may join the last group,  *)
(* or else the first one left, which opens the next group.                 *)
PackOne(G, groups, order, module) ==
  LET rest == Rest(groups, order)
      joining == IF groups = <<>> THEN {}
                 ELSE {c \in rest : /\ Fits(Last(groups) \cup c, module)
                                    /\ SafeMerge(G, groups, order, c)}
      Rank(c) == Priority(G, Last(groups), order, c, module)
  IN  IF joining = {} THEN Append(groups, FirstOf(rest, order))
      ELSE LET best == CHOOSE c \in joining :
                         \A d \in joining \ {c} : Higher(Rank(c), Rank(d))
           IN  Append(Front(groups), Last(groups) \cup best)

(* build: callees come before their callers in the order.                  *)
PackChunks(G, unit, module) ==
  LET inner == Subgraph(G, unit.symbols)
      order == Reverse(TopologicalOrder(inner))
      groups == FoldLeft(LAMBDA g, c : PackOne(inner, g, order, module), <<>>, order)
      parts == Contracted(inner, Range(groups))
  IN  [k \in DOMAIN groups |->
         [symbols |-> groups[k],
          deps |-> {l \in DOMAIN groups : <<groups[k], groups[l]>> \in parts.edge}]]
=============================================================================
