--------------------------- MODULE ProjectAnalysis ---------------------------
(***************************************************************************)
(* From the parsed definitions of a project to its call graph, its work    *)
(* units and its migration plan: DependencyAnalyzer.analyze, the analysis  *)
(* gate, SemanticWorkUnitBuilder.build, split_semantic_work_unit,          *)
(* MigrationPlanBuilder.build and ActChunkPlanner.build, one after the     *)
(* other on one project.                                                   *)
(***************************************************************************)
EXTENDS ChunkPacking

CONSTANTS
  Files,          \* the parsed files, in the order of the scan
  Order,          \* the qualified names of the project, sorted
  CallChoices,    \* what the definitions may call: functions to sets of names
  EntryChoices,   \* configured entry points: sets of names
  CycleLimit      \* representative_limit of a cluster

(* A file has its path, its package and class ("" for none), whether it is *)
(* under private/, whether it is a script, which has one function that     *)
(* stands for it, and its functions, each a method or not.                 *)
ASSUME FilesAssumption ==
  /\ Files \in Seq(Range(Files))
  /\ \A f \in DOMAIN Files :
       /\ DOMAIN Files[f] = {"path", "package", "class", "private", "script", "functions"}
       /\ Files[f].functions \in Seq(Range(Files[f].functions))
ASSUME CycleLimitIsPositive == CycleLimit \in Nat \ {0}

VARIABLES
  calls,       \* the calls of every definition
  configured,  \* settings.project.entry_points
  analysis,    \* analysis-result.json
  units,       \* semantic-work-units.json
  halves,      \* what split_semantic_work_unit makes of a unit
  plan,        \* migration plan
  chunks,      \* act-chunks-<unit>.json of every unit
  stage        \* the last step, or why it failed

vars == <<calls, configured, analysis, units, halves, plan, chunks, stage>>

None == [symbols |-> {}]

-----------------------------------------------------------------------------
(* The parser.                                                             *)

Qualify(package, name) == IF package = "" THEN name ELSE package \o "." \o name

(* A method belongs to its class.  The first other function of a file is   *)
(* its primary one; the rest are local to it.                              *)
Primary(file) == CHOOSE i \in DOMAIN file.functions :
                   /\ ~file.functions[i].method
                   /\ \A j \in 1 .. i - 1 : file.functions[j].method
QualifiedName(file, i) ==
  IF file.functions[i].method
  THEN Qualify(Qualify(file.package, file.class), file.functions[i].name)
  ELSE IF i = Primary(file) THEN Qualify(file.package, file.functions[i].name)
  ELSE Qualify(file.package, file.functions[Primary(file)].name)
         \o ">" \o file.functions[i].name

(* The scope of a name is what comes before its last dot.                  *)
Definition(file, i) ==
  LET text == QualifiedName(file, i)
      method == file.functions[i].method
      local == ~method /\ i # Primary(file)
  IN  [symbol |-> CHOOSE k \in DOMAIN Order : Order[k] = text,
       text |-> text, name |-> file.functions[i].name, file |-> file.path,
       scope |-> IF method THEN Qualify(file.package, file.class) ELSE file.package,
       script |-> file.script,
       public |-> ~local /\ ~file.private]
(* A symbol is the place of its qualified name, and has a source.          *)
ASSUME OrderAssumption ==
  /\ Order \in Seq(STRING)
  /\ \A f \in DOMAIN Files : \A i \in DOMAIN Files[f].functions :
       QualifiedName(Files[f], i) \in Range(Order)
ASSUME TokensAssumption == \A s \in DOMAIN Order : Tokens[s] \in Nat

Definitions ==
  FlattenSeq([f \in DOMAIN Files |->
    [i \in DOMAIN Files[f].functions |-> Definition(Files[f], i)]])

-----------------------------------------------------------------------------
(* DependencyAnalyzer.                                                     *)

(* by_qualified keeps the first definition of a qualified name.            *)
Kept == {d \in DOMAIN Definitions :
           \A e \in 1 .. d - 1 : Definitions[e].symbol # Definitions[d].symbol}
Symbols == {Definitions[d].symbol : d \in Kept}
Place(s) == CHOOSE d \in Kept : Definitions[d].symbol = s
Info(s) == Definitions[Place(s)]
Titled(text) == {s \in Symbols : Order[s] = text}

(* _resolve_call: a qualified name, the only function of that name in the  *)
(* file, one of the same package or class, the only one of the project.    *)
(* An empty set is an unresolved call.                                     *)
Named(name) == {s \in Symbols : Info(s).name = name}
InFile(file, name) == {s \in Named(name) : Info(s).file = file}
InScope(scope, name) == IF scope = "" THEN {} ELSE Titled(Qualify(scope, name))
Unique(candidates) == IF Cardinality(candidates) = 1 THEN candidates ELSE {}
OrElse(found, next) == IF found # {} THEN found ELSE next

Resolve(call, caller) ==
  OrElse(Titled(call),
         OrElse(Unique(InFile(Info(caller).file, call)),
                OrElse(InScope(Info(caller).scope, call), Unique(Named(call)))))
ResolveEntry(text) == OrElse(Titled(text), Unique(Named(text)))

(* The parser drops the calls of a function, but not those of a script, to *)
(* its own simple name; the calls of a definition that was not kept are    *)
(* not looked at.                                                          *)
CallsOf(s) == calls[Place(s)] \ (IF Info(s).script THEN {} ELSE {Info(s).name})
EdgesOf(s) == UNION {{s} \X Resolve(call, s) : call \in CallsOf(s)}
Unresolved(s) == {call \in CallsOf(s) : Resolve(call, s) = {}}

(* _entry_points: what the settings name, or else every main, and what     *)
(* nothing calls, among the public functions.                              *)
Public == {s \in Symbols : Info(s).public}
Mains == {s \in Public : Info(s).name = "main"}
(* Mutant of Uncalled: a function that calls nothing is taken for a root.  *)
UncalledLeaves(G) == {s \in Public : OutDegree(G, s) = 0}
Uncalled(G) == {s \in Public : InDegree(G, s) = 0}
EntryPoints(G) ==
  IF configured # {} THEN UNION {ResolveEntry(text) : text \in configured}
  ELSE Mains \cup Uncalled(G)

(* _cycle_clusters: up to CycleLimit cycles of a cluster stand for it, one *)
(* per edge, closed by a shortest way back and turned to its least symbol. *)
(* Of several shortest ways networkx takes one, and so does this.          *)
(* Mutant of Clusters: two functions that call each other are overlooked.  *)
ClustersOfThree(G) == {c \in StrongComponents(G) : Cardinality(c) > 2}
Clusters(G) == {c \in StrongComponents(G) : Cardinality(c) > 1}
IsPath(G, p) == \A i \in 1 .. Len(p) - 1 : <<p[i], p[i + 1]>> \in G.edge
ShortestPath(G, from, to) ==
  LET Paths(n) == {p \in [1 .. n -> G.node] : p[1] = from /\ p[n] = to /\ IsPath(G, p)}
      length == Min({n \in 1 .. Cardinality(G.node) : Paths(n) # {}})
  IN  CHOOSE p \in Paths(length) : TRUE
Turned(cycle) ==
  LET k == CHOOSE i \in DOMAIN cycle : \A j \in DOMAIN cycle : cycle[i] <= cycle[j]
  IN  SubSeq(cycle, k, Len(cycle)) \o SubSeq(cycle, 1, k - 1)
CycleThrough(G, e) == Turned(<<e[1]>> \o Front(ShortestPath(G, e[2], e[1])))
Before(e, f) == e[1] < f[1] \/ (e[1] = f[1] /\ e[2] < f[2])

(* Mutant of Representatives: every edge of the cluster gets its cycle.    *)
RepresentativesUnlimited(G, cluster) ==
  {CycleThrough(Subgraph(G, cluster), e) : e \in Subgraph(G, cluster).edge}
Representatives(G, cluster) ==
  LET inner == Subgraph(G, cluster)
      cycle == [e \in inner.edge |-> CycleThrough(inner, e)]
      Found(e) == {cycle[f] : f \in {f \in inner.edge : Before(f, e)}}
  IN  {cycle[e] : e \in {e \in inner.edge : Cardinality(Found(e)) < CycleLimit}}

-----------------------------------------------------------------------------
Init ==
  /\ calls \in CallChoices /\ configured \in EntryChoices
  /\ analysis = None /\ units = <<>> /\ halves = <<>> /\ plan = <<>> /\ chunks = <<>>
  /\ stage = "parsed"

Analyzed ==
  LET G == Graph(Symbols, UNION {EdgesOf(s) : s \in Symbols})
  IN  [symbols |-> Symbols, edges |-> G.edge,
       unresolved |-> [s \in Symbols |-> Unresolved(s)],
       entries |-> EntryPoints(G),
       orphans |-> {s \in Symbols : ~Touches(G, s)},
       clusters |-> Clusters(G),
       cycles |-> UNION {Representatives(G, c) : c \in Clusters(G)}]
CallsGraph == Graph(analysis.symbols, analysis.edges)

Analyze ==
  /\ stage = "parsed"
  /\ analysis' = Analyzed
  /\ stage' = "analyzed"
  /\ UNCHANGED <<calls, configured, units, halves, plan, chunks>>

(* SemanticPreparation.prepare, which refuses what no prompt can hold.     *)
Prepare ==
  /\ stage = "analyzed" /\ ~TooLarge(CallsGraph)
  /\ units' = BuildUnits(CallsGraph)
  /\ stage' = "prepared"
  /\ UNCHANGED <<calls, configured, analysis, halves, plan, chunks>>

PrepareRaises ==
  /\ stage = "analyzed" /\ TooLarge(CallsGraph)
  /\ stage' = "too_large"
  /\ UNCHANGED <<calls, configured, analysis, units, halves, plan, chunks>>

(* A unit whose answer was cut off may be halved.                          *)
Split ==
  /\ stage = "prepared"
  /\ \E i \in DOMAIN units : halves' = <<units[i]>> \o SplitUnit(CallsGraph, units[i])
  /\ stage' = "split"
  /\ UNCHANGED <<calls, configured, analysis, units, plan, chunks>>

MakePlan ==
  /\ stage = "analyzed"
  /\ plan' = PlanUnits(CallsGraph, analysis.entries)
  /\ stage' = "planned"
  /\ UNCHANGED <<calls, configured, analysis, units, halves, chunks>>

(* The first Act of every unit packs its chunks; symbols of one file go    *)
(* into one module.                                                        *)
ModuleOf == [s \in Symbols |-> Info(s).file]
Pack ==
  /\ stage = "planned"
  /\ chunks' = [i \in DOMAIN plan |-> PackChunks(CallsGraph, plan[i], ModuleOf)]
  /\ stage' = "packed"
  /\ UNCHANGED <<calls, configured, analysis, units, halves, plan>>

Next == Analyze \/ Prepare \/ PrepareRaises \/ Split \/ MakePlan \/ Pack
Spec == Init /\ [][Next]_vars

-----------------------------------------------------------------------------
(* Properties.                                                             *)

(* Every result talks about symbols of the project, and with no entry      *)
(* point configured an entry is public: _entry_points.                     *)
TypeOK ==
  /\ stage \in {"parsed", "analyzed", "prepared", "too_large", "split", "planned",
               "packed"}
  /\ stage # "parsed" =>
       /\ analysis.edges \subseteq Symbols \X Symbols
       /\ analysis.entries \subseteq (IF configured = {} THEN {s \in Symbols : Info(s).public}
                                      ELSE Symbols)
  /\ \A i \in DOMAIN units : units[i] \subseteq Symbols
  /\ \A i \in DOMAIN plan : plan[i].symbols \subseteq Symbols

(* With no entry point configured, whatever no entry reaches is below a    *)
(* cluster of mutual recursion, below a function that calls itself, or     *)
(* below a local or private function that nothing calls: _entry_points.    *)
EntriesReachTheRest ==
  stage = "analyzed" /\ configured = {} =>
    \A s \in Symbols : \E r \in Symbols :
      /\ <<r, s>> \in Reaches(CallsGraph)
      /\ \/ r \in analysis.entries
         \/ \E c \in analysis.clusters : r \in c
         \/ <<r, r>> \in analysis.edges
         \/ ~Info(r).public /\ InDegree(CallsGraph, r) = 0

(* Every cluster of mutual recursion is shown by one to CycleLimit cycles, *)
(* and what is shown is a cycle: _cycle_clusters, _normalize_cycle.        *)
ClustersAreShown ==
  stage = "analyzed" =>
    /\ \A c \in analysis.clusters :
         Cardinality({p \in analysis.cycles : p[1] \in c}) \in 1 .. CycleLimit
    /\ \A p \in analysis.cycles :
         /\ IsInjective(p) /\ p[1] = Min(Range(p))
         /\ \A i \in DOMAIN p : <<p[i], p[(i % Len(p)) + 1]>> \in analysis.edges

(* The analysis is well typed; its entries and clusters account for the    *)
(* whole call graph, save what is below a function that calls itself, of   *)
(* which the analysis shows its edge only, or below dead local code.       *)
GraphIsExplained == TypeOK /\ EntriesReachTheRest /\ ClustersAreShown

(* The units hold every symbol once, cut no cycle and follow the calls: a  *)
(* call leads into its own unit or a later one, so that a caller's unit    *)
(* comes first (build keeps a strong component in one unit).               *)
UnitsFollowCalls ==
  stage = "prepared" =>
    LET reaches == Reaches(CallsGraph)
    IN  /\ UNION Range(units) = Symbols
        /\ \A i \in DOMAIN units : \A j \in 1 .. i - 1 :
             \A s \in units[i], t \in units[j] : s # t /\ <<s, t>> \notin reaches

(* A unit fits its prompt: it is within the budget and the number of       *)
(* functions, or it is a single component within the hard limit.           *)
UnitsFit ==
  stage = "prepared" =>
    LET reaches == Reaches(CallsGraph)
    IN  \A i \in DOMAIN units :
          \/ /\ Estimate(CallsGraph, units[i]) <= TokenBudget
             /\ Cardinality(units[i]) <= MaxFunctions
          \/ /\ Estimate(CallsGraph, units[i]) <= HardLimit
             /\ \A s, t \in units[i] : <<s, t>> \in reaches

(* A unit was closed because a component of the next one, called by none   *)
(* of the rest of it, did not fit, or because the call chain was complete. *)
UnitsAreFull ==
  stage = "prepared" =>
    \A i \in 1 .. Len(units) - 1 :
      \/ \E c \in StrongComponents(CallsGraph) :
           /\ c \subseteq units[i + 1]
           /\ ~\E e \in analysis.edges : e[1] \in units[i + 1] \ c /\ e[2] \in c
           /\ \/ Estimate(CallsGraph, units[i] \cup c) > TokenBudget
              \/ Cardinality(units[i] \cup c) > MaxFunctions
      \/ \E c \in WeakComponents(CallsGraph) :
           units[i] \subseteq c /\ units[i + 1] \cap c = {}

(* The halves of a unit are both smaller and make it up, no call leads     *)
(* back from the second into the first, and the cut is the first of those   *)
(* between components that are the nearest to the middle.                  *)
HalvesAreOrdered ==
  stage = "split" /\ Len(halves) = 3 =>
    /\ halves[2] # {} /\ halves[3] # {} /\ halves[2] \cap halves[3] = {}
    /\ halves[1] = halves[2] \cup halves[3]
    /\ ~\E e \in analysis.edges : e[1] \in halves[3] /\ e[2] \in halves[2]
    /\ LET order == TopologicalOrder(Subgraph(CallsGraph, halves[1]))
           Gap(k) == LET left == Size(order, k) IN
                     (2 * left - Cardinality(halves[1])) * (2 * left - Cardinality(halves[1]))
           k == CHOOSE n \in 1 .. Len(order) : halves[2] = UNION {order[i] : i \in 1 .. n}
       IN  \A n \in 1 .. Len(order) - 1 : Gap(k) <= Gap(n) /\ (n < k => Gap(k) < Gap(n))

(* The semantic units hold everything once, fit their prompts, waste none, *)
(* follow the calls, and halve in the same way.                            *)
UnitsAreSound ==
  UnitsFollowCalls /\ UnitsFit /\ UnitsAreFull /\ HalvesAreOrdered

(* A migration unit is a whole call chain: every symbol is in one unit, no *)
(* call leaves its unit, and the unit lists every component it is made of. *)
PlanIsClosed ==
  stage = "planned" =>
    /\ UNION {plan[i].symbols : i \in DOMAIN plan} = Symbols
    /\ \A i \in DOMAIN plan :
         /\ UNION plan[i].sccs = plan[i].symbols
         /\ \A e \in analysis.edges : e[1] \in plan[i].symbols <=> e[2] \in plan[i].symbols
         /\ \A j \in DOMAIN plan \ {i} : plan[i].symbols \cap plan[j].symbols = {}

(* A unit has an entry, unless all of it is called from inside a cycle.    *)
PlanHasEntries ==
  stage = "planned" =>
    LET reaches == Reaches(CallsGraph)
    IN  \A i \in DOMAIN plan :
          plan[i].entries = {} =>
            \A s \in plan[i].symbols : \E e \in analysis.edges :
              <<e[2], e[1]>> \in reaches /\ <<e[1], s>> \in reaches

(* The chunks of a unit hold every symbol of it once and cut no recursion, *)
(* and a caller's chunk waits for the chunks it calls: what ActChunks      *)
(* takes for granted of its plan.                                          *)
ChunksFollowCalls ==
  stage = "packed" =>
    \A i \in DOMAIN plan :
      LET pack == chunks[i]
          HoldsOne(symbols) == Cardinality({k \in DOMAIN pack : symbols \subseteq pack[k].symbols}) = 1
      IN  /\ UNION {pack[k].symbols : k \in DOMAIN pack} = plan[i].symbols
          /\ \A c \in plan[i].sccs : HoldsOne(c)
          /\ \A e \in analysis.edges, k, l \in DOMAIN pack :
               e[1] \in pack[k].symbols /\ e[2] \in pack[l].symbols /\ k # l => l \in pack[k].deps

(* Chunks wait for each other in some order, although a chunk may take in  *)
(* a component from further on: no group of chunks all waits for the group *)
(* (_safe_merge).                                                          *)
ChunksCanRun ==
  stage = "packed" =>
    \A i \in DOMAIN plan : \A K \in (SUBSET DOMAIN chunks[i]) \ {{}} :
      \E k \in K : chunks[i][k].deps \cap K = {}

(* A chunk is within the limits of a request, or is one component.         *)
ChunksFit ==
  stage = "packed" =>
    \A i \in DOMAIN plan : \A k \in DOMAIN chunks[i] :
      Fits(chunks[i][k].symbols, ModuleOf) \/ chunks[i][k].symbols \in plan[i].sccs

(* The migration plan is made of whole call chains, each with its entries  *)
(* and with chunks that fit and can be converted one after the other.      *)
PlanIsWhole ==
  PlanIsClosed /\ PlanHasEntries /\ ChunksFollowCalls /\ ChunksCanRun /\ ChunksFit
=============================================================================
