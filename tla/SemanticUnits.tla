---------------------------- MODULE SemanticUnits ----------------------------
(***************************************************************************)
(* How a call graph is cut: SemanticWorkUnitBuilder packs components into  *)
(* units of one prompt, split_semantic_work_unit halves a unit, and        *)
(* MigrationPlanBuilder makes one unit of every weak component.            *)
(***************************************************************************)
EXTENDS CallGraph

CONSTANTS
  Tokens,       \* tokens of the source of every symbol
  TokenBudget,  \* token_budget of a unit
  HardLimit,    \* hard_token_limit of a prompt
  MaxFunctions  \* max_functions_per_unit

ASSUME LimitsAssumption ==
  /\ TokenBudget \in Nat \ {0} /\ MaxFunctions \in Nat \ {0}
  /\ HardLimit \in Nat /\ HardLimit >= TokenBudget

(* The direct neighbours of a unit, one summary per symbol and relation.   *)
Neighbors(G, symbols) ==
  {<<e[2], "callee">> : e \in {e \in G.edge : e[1] \in symbols /\ e[2] \notin symbols}}
  \cup {<<e[1], "caller">> : e \in {e \in G.edge : e[2] \in symbols /\ e[1] \notin symbols}}

(* What the final prompt of a unit costs: its sources and one token for    *)
(* every neighbour.  It need not grow with the unit.                       *)
Estimate(G, symbols) ==
  MapThenSumSet(LAMBDA s : Tokens[s], symbols) + Cardinality(Neighbors(G, symbols))

(* Mutant of Exceeds: the limits are checked before the group is added.    *)
ExceedsLate(G, current, group) ==
  \/ Estimate(G, current) > TokenBudget
  \/ Cardinality(current) > MaxFunctions
(* Mutant of Exceeds: a unit that just fits is refused.                    *)
ExceedsWhenFull(G, current, group) ==
  \/ Estimate(G, current \cup group) >= TokenBudget
  \/ Cardinality(current \cup group) >= MaxFunctions
Exceeds(G, current, group) ==
  \/ Estimate(G, current \cup group) > TokenBudget
  \/ Cardinality(current \cup group) > MaxFunctions

(* Components of one weak component go into the open unit while they fit,  *)
(* in topological order; one that alone exceeds the budget stays alone.    *)
PackGroup(G, packed, group) ==
  IF packed.current # {} /\ Exceeds(G, packed.current, group)
  THEN [units |-> Append(packed.units, packed.current), current |-> group]
  ELSE [packed EXCEPT !.current = @ \cup group]
PackComponent(G, component) ==
  LET packed == FoldLeft(LAMBDA p, group : PackGroup(G, p, group),
                         [units |-> <<>>, current |-> {}],
                         TopologicalOrder(Subgraph(G, component)))
  IN  Append(packed.units, packed.current)

(* build: it raises if a component alone is beyond the hard limit.         *)
TooLarge(G) == \E c \in StrongComponents(G) : Estimate(G, c) > HardLimit
BuildUnits(G) ==
  FlattenSeq([i \in DOMAIN ByLeast(WeakComponents(G)) |->
                PackComponent(G, ByLeast(WeakComponents(G))[i])])

(* split_semantic_work_unit: the boundary between components that is the   *)
(* nearest to the middle, the earlier one of two; <<>> for one component.  *)
Size(groups, k) == Cardinality(UNION {groups[i] : i \in 1 .. k})
Twice(groups, k) == 2 * Size(groups, k) - Size(groups, Len(groups))
Distance(groups, k) == IF Twice(groups, k) < 0 THEN -Twice(groups, k) ELSE Twice(groups, k)
(* Mutant of SplitAt: only the last component is cut off.                  *)
SplitAtEnd(groups) == Len(groups) - 1
SplitAt(groups) ==
  CHOOSE k \in 1 .. Len(groups) - 1 :
    \A l \in 1 .. Len(groups) - 1 :
      \/ Distance(groups, k) < Distance(groups, l)
      \/ Distance(groups, k) = Distance(groups, l) /\ k <= l
SplitUnit(G, unit) ==
  LET groups == TopologicalOrder(Subgraph(G, unit))
  IN  IF Len(groups) < 2 THEN <<>>
      ELSE << UNION {groups[i] : i \in 1 .. SplitAt(groups)},
              UNION {groups[i] : i \in SplitAt(groups) + 1 .. Len(groups)} >>

(* MigrationPlanBuilder.build: entries of a unit are the entry points of   *)
(* the project in it, or else what nothing in it calls.                    *)
(* Mutant of EntriesOf: without an entry point a unit has no entry.        *)
EntriesOfProject(G, unit, entries) == entries \cap unit
EntriesOf(G, unit, entries) ==
  IF entries \cap unit # {} THEN entries \cap unit
  ELSE {s \in unit : InDegree(Subgraph(G, unit), s) = 0}
PlanUnits(G, entries) ==
  [i \in DOMAIN ByLeast(WeakComponents(G)) |->
     LET unit == ByLeast(WeakComponents(G))[i]
     IN  [symbols |-> unit, entries |-> EntriesOf(G, unit, entries),
          sccs |-> {c \in StrongComponents(G) : c \subseteq unit}]]
=============================================================================
