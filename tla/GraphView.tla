------------------------------ MODULE GraphView ------------------------------
(***************************************************************************)
(* What a reader sees of a call graph too large to be drawn: the views of  *)
(* build_graph_view, each computed from the whole document with a limit of *)
(* nodes, and the tree the command line prints (render_dependency_tree).   *)
(***************************************************************************)
EXTENDS CallGraph

CONSTANTS
  FileOf,         \* the path of every function: its directories, then its file
  GraphChoices,   \* the calls of the document
  MarkedChoices,  \* functions marked as entry points or core functions
  Depths, Limits  \* depth and limit of a request, within 0..5 and 1..150

(* The names in a directory are numbered in the order of its view, which   *)
(* lists the directories before the files.                                 *)
ASSUME FileOfAssumption == FileOf \in Seq(Seq(Nat) \ {<<>>})
ASSUME ListingAssumption ==
  \A m, n \in DOMAIN FileOf :
    LET last == Len(FileOf[n])
    IN  IsPrefix(Front(FileOf[n]), FileOf[m]) /\ Len(FileOf[m]) > last
          => FileOf[m][last] < FileOf[n][last]
ASSUME ChoicesAssumption ==
  /\ GraphChoices \subseteq SUBSET ((DOMAIN FileOf) \X (DOMAIN FileOf))
  /\ MarkedChoices \subseteq SUBSET (DOMAIN FileOf)
ASSUME BoundsAssumption == Depths \subseteq 0 .. 5 /\ Limits \subseteq 1 .. 150

VARIABLES
  graph,    \* nodes and edges of the GraphDocument
  marked,   \* nodes with is_entry_point or is_core
  view      \* the answer to a request

viewVars == <<graph, marked, view>>

NoView == [scope |-> "none"]
InCycles(G) == UNION {c \in StrongComponents(G) : Cardinality(c) > 1}
Between(G, symbols) == {e \in G.edge : {e[1], e[2]} \subseteq symbols}
Shortened(seq, limit) == SubSeq(seq, 1, Min({limit, Len(seq)}))

ViewInit ==
  /\ \E calls \in GraphChoices : graph = Graph(DOMAIN FileOf, calls)
  /\ marked \in MarkedChoices
  /\ view = NoView

-----------------------------------------------------------------------------
(* The project and its directories (_build_group_view).                    *)

(* _group_key: the file, or the directory, right below the prefix.         *)
(* Mutant of Under: a function of a file has its directory's prefix only.  *)
UnderDeep(prefix, n) == Len(FileOf[n]) > Len(prefix) + 1 /\ IsPrefix(prefix, FileOf[n])
Under(prefix, n) == Len(FileOf[n]) > Len(prefix) /\ IsPrefix(prefix, FileOf[n])
GroupOf(prefix, n) == SubSeq(FileOf[n], 1, Len(prefix) + 1)
Members(G, prefix, group) == {n \in G.node : Under(prefix, n) /\ GroupOf(prefix, n) = group}
(* Groups are ordered by what they are and by name: see ListingAssumption. *)
GroupsBelow(G, prefix) ==
  LET names == Sorted({FileOf[n][Len(prefix) + 1] : n \in {n \in G.node : Under(prefix, n)}})
  IN  [i \in DOMAIN names |-> Append(prefix, names[i])]

GroupView(G, prefix, limit) ==
  LET shown == Shortened(GroupsBelow(G, prefix), limit)
      CallsFrom(g, h) == {e \in G.edge : /\ e[1] \in Members(G, prefix, g)
                                         /\ e[2] \in Members(G, prefix, h)}
  IN  [scope |-> "group", focus |-> prefix, nodes |-> shown,
       internal |-> [i \in DOMAIN shown |-> Cardinality(CallsFrom(shown[i], shown[i]))],
       cyclic |-> [i \in DOMAIN shown |->
                     Cardinality(Members(G, prefix, shown[i]) \cap InCycles(G))],
       weight |-> [p \in (DOMAIN shown) \X (DOMAIN shown) |->
                     IF p[1] = p[2] THEN 0
                     ELSE Cardinality(CallsFrom(shown[p[1]], shown[p[2]]))],
       total |-> Len(GroupsBelow(G, prefix)),
       truncated |-> Len(GroupsBelow(G, prefix)) > limit]

ShowGroups(prefix, limit) ==
  /\ view = NoView
  /\ view' = GroupView(graph, prefix, limit)
  /\ UNCHANGED <<graph, marked>>

-----------------------------------------------------------------------------
(* A file (_ranked_file_nodes, _build_file_view).                          *)

Degree(G, n) == Cardinality({e \in G.edge : e[1] = n}) + Cardinality({e \in G.edge : e[2] = n})
Importance(G, marks, n) == IF n \in marks THEN 0 ELSE IF n \in InCycles(G) THEN 1 ELSE 2
RanksBefore(k, l) == \E i \in 1 .. 4 : k[i] < l[i] /\ \A j \in 1 .. i - 1 : k[j] = l[j]
RankedOf(G, marks, file) ==
  LET order == TopologicalOrder(G)
      Position(n) == CHOOSE i \in DOMAIN order : n \in order[i]
      keys == {<<Importance(G, marks, n), Position(n), -Degree(G, n), n>> :
                 n \in {n \in G.node : FileOf[n] = file}}
  IN  [i \in 1 .. Cardinality(keys) |->
         (CHOOSE k \in keys : Cardinality({l \in keys : RanksBefore(l, k)}) = i - 1)[4]]

(* Marked functions and cycles come first, or else the first of the file.  *)
FirstShown(G, marks, ranked) ==
  LET first == FoldLeft(LAMBDA found, n : IF Importance(G, marks, n) = 2 THEN found
                                          ELSE Append(found, n), <<>>, ranked)
  IN  IF first = <<>> /\ ranked # <<>> THEN <<ranked[1]>> ELSE first
NeighborsIn(G, n, symbols) ==
  Sorted({m \in symbols : \E e \in Between(G, symbols) : {e[1], e[2]} = {m, n}})
Distinct(seq) ==
  FoldLeft(LAMBDA found, n : IF n \in Range(found) THEN found ELSE Append(found, n), <<>>, seq)

(* Mutant of FileOrder: functions are listed by their rank alone.          *)
FileOrderRanked(G, marks, ranked) == ranked
FileOrder(G, marks, ranked) ==
  LET roots == FirstShown(G, marks, ranked)
  IN  Distinct(roots
        \o FlattenSeq([i \in DOMAIN roots |-> NeighborsIn(G, roots[i], Range(ranked))])
        \o ranked)

ShowFile(file, limit) ==
  /\ view = NoView
  /\ LET ranked == RankedOf(graph, marked, file)
         shown == Shortened(FileOrder(graph, marked, ranked), limit)
     IN  view' = [scope |-> "file", focus |-> file, nodes |-> shown,
                  edges |-> Between(graph, Range(shown)), total |-> Len(ranked),
                  truncated |-> Len(ranked) > limit]
  /\ UNCHANGED <<graph, marked>>

-----------------------------------------------------------------------------
(* A function and its surroundings (_build_function_view).                 *)

Adjacent(G, n, direction) ==
  (IF direction = "callees" THEN {} ELSE {e[1] : e \in {e \in G.edge : e[2] = n}})
  \cup (IF direction = "callers" THEN {} ELSE {e[2] : e \in {e \in G.edge : e[1] = n}})

(* One turn of the search: the head of the queue, unless it is at the full *)
(* depth, adds what it has not seen, in order, until the limit is reached. *)
Push(search, level, n, limit) ==
  IF n \in Range(search.order) \/ Len(search.order) >= limit THEN search
  ELSE [order |-> Append(search.order, n), queue |-> Append(search.queue, <<n, level>>)]
Expand(G, search, depth, limit, direction) ==
  LET head == Head(search.queue)
      rest == [search EXCEPT !.queue = Tail(@)]
  IN  IF head[2] >= depth THEN rest
      ELSE FoldLeft(LAMBDA s, n : Push(s, head[2] + 1, n, limit), rest,
                    Sorted(Adjacent(G, head[1], direction)))

(* A turn takes a function out of the queue; each is queued at most once.  *)
Search(G, focus, depth, limit, direction) ==
  LET Turn(search) == IF search.queue = <<>> \/ Len(search.order) >= limit THEN search
                      ELSE Expand(G, search, depth, limit, direction)
      after[turns \in 0 .. Cardinality(G.node)] ==
        IF turns = 0 THEN [order |-> <<focus>>, queue |-> <<<<focus, 0>>>>]
        ELSE Turn(after[turns - 1])
  IN  after[Cardinality(G.node)].order

(* Mutant of ReachableCount: only the direct callers and callees count.    *)
ReachableCountDirect(G, focus, depth, direction) ==
  1 + Cardinality(Adjacent(G, focus, direction) \ {focus})
ReachableCount(G, focus, depth, direction) ==
  Cardinality(Within(focus, depth, LAMBDA n : Adjacent(G, n, direction)))

ShowFunction(focus, depth, limit, direction) ==
  /\ view = NoView
  /\ LET shown == Search(graph, focus, depth, limit, direction)
         reachable == ReachableCount(graph, focus, depth, direction)
     IN  view' = [scope |-> "function", focus |-> focus, nodes |-> shown,
                  depth |-> depth, direction |-> direction,
                  edges |-> Between(graph, Range(shown)), total |-> reachable,
                  truncated |-> reachable > Len(shown)]
  /\ UNCHANGED <<graph, marked>>

-----------------------------------------------------------------------------
(* The tree of the command line.                                           *)

(* _populate_tree goes depth first: of the calls still to be drawn, those  *)
(* of a function just expanded come before the others of its callers.      *)
BranchesOf(G, source, path) ==
  LET targets == Sorted({e[2] : e \in {e \in G.edge : e[1] = source}})
  IN  [i \in DOMAIN targets |-> [call |-> <<source, targets[i]>>, path |-> path]]
Expanded(G, tree, n, path) ==
  [tree EXCEPT !.expanded = @ \cup {n}, !.branches = BranchesOf(G, n, path \cup {n}) \o @]
Drawn(tree, mark) ==
  [tree EXCEPT !.branches = Tail(@), !.drawn = Append(@, <<Head(tree.branches).call, mark>>)]

(* Mutant of Branch: a function is expanded wherever it is called.         *)
BranchAgain(G, tree) ==
  LET target == Head(tree.branches).call[2]
      path == Head(tree.branches).path
  IN  IF target \in path THEN Drawn(tree, "cycle")
      ELSE Expanded(G, Drawn(tree, "child"), target, path)
(* A call draws a branch; the callee is expanded under it unless it is on  *)
(* the path already or was expanded elsewhere.                             *)
Branch(G, tree) ==
  LET target == Head(tree.branches).call[2]
      path == Head(tree.branches).path
  IN  IF target \in path THEN Drawn(tree, "cycle")
      ELSE IF target \in tree.expanded THEN Drawn(tree, "shared")
      ELSE Expanded(G, Drawn(tree, "child"), target, path)

(* The roots are the entry points, then every function not expanded yet.   *)
Root(G, tree) ==
  LET root == Head(tree.ahead)
      rest == [tree EXCEPT !.ahead = Tail(@)]
  IN  IF root \in tree.expanded THEN rest
      ELSE Expanded(G, [rest EXCEPT !.roots = Append(@, root)], root, {})

(* Every function is a root or skipped, and every call is drawn, once.     *)
Tree(G, marks) ==
  LET Turn(tree) == IF tree.branches # <<>> THEN Branch(G, tree)
                    ELSE IF tree.ahead # <<>> THEN Root(G, tree)
                    ELSE tree
      after[turns \in 0 .. Cardinality(G.node) + Cardinality(G.edge)] ==
        IF turns = 0
        THEN [roots |-> <<>>, drawn |-> <<>>, expanded |-> {}, branches |-> <<>>,
              ahead |-> Sorted(marks) \o Sorted(G.node \ marks)]
        ELSE Turn(after[turns - 1])
  IN  after[Cardinality(G.node) + Cardinality(G.edge)]

ShowTree ==
  /\ view = NoView
  /\ view' = [scope |-> "tree", tree |-> Tree(graph, marked)]
  /\ UNCHANGED <<graph, marked>>

-----------------------------------------------------------------------------
Directories ==
  (UNION {{SubSeq(FileOf[n], 1, k) : k \in 0 .. Len(FileOf[n]) - 1} : n \in DOMAIN FileOf})
    \ {FileOf[n] : n \in DOMAIN FileOf}

ViewNext ==
  \/ \E limit \in Limits :
       \/ \E prefix \in Directories : ShowGroups(prefix, limit)
       \/ \E n \in graph.node : ShowFile(FileOf[n], limit)
       \/ \E n \in graph.node, depth \in Depths, direction \in {"both", "callers", "callees"} :
            ShowFunction(n, depth, limit, direction)
  \/ ShowTree

ViewSpec == ViewInit /\ [][ViewNext]_viewVars

-----------------------------------------------------------------------------
(* Properties.                                                             *)

(* A view is never larger than its limit and is full when it is truncated, *)
(* which is when it counts more than it shows.                             *)
ViewTypeOK ==
  /\ graph.edge \subseteq graph.node \X graph.node /\ marked \subseteq graph.node
  /\ view.scope \in {"none", "group", "file", "function", "tree"}
  /\ view.scope \in {"group", "file", "function"} =>
       /\ IsInjective(view.nodes)
       /\ \E limit \in Limits : /\ Len(view.nodes) <= limit
                                /\ view.truncated => Len(view.nodes) = limit
       /\ view.truncated <=> Len(view.nodes) < view.total

Total(group) == SumFunction(group.internal) + SumFunction(group.weight)

(* A directory view that is not truncated accounts for every call below it *)
(* exactly once, and a directory drawn in it stands for as many calls and  *)
(* cycles as its own view shows.                                           *)
CallsAreCountedOnce ==
  view.scope = "group" /\ ~view.truncated =>
    /\ Total(view) =
         Cardinality(Between(graph, {n \in graph.node : IsPrefix(view.focus, FileOf[n])}))
    /\ \A i \in DOMAIN view.nodes :
         view.nodes[i] \in Directories =>
           LET inside == GroupView(graph, view.nodes[i], Cardinality(graph.node))
           IN  /\ view.internal[i] = Total(inside)
               /\ view.cyclic[i] = SumFunction(inside.cyclic)

(* In a file view nothing hidden matters more than something shown: marked *)
(* functions and cycles, then what calls them or is called by them in the  *)
(* file, then the rest; with room enough every function is there.          *)
FileShowsWhatMatters ==
  view.scope = "file" =>
    LET file == {n \in graph.node : FileOf[n] = view.focus}
        shown == Range(view.nodes)
        first == {n \in file : n \in (marked \cup InCycles(graph))}
        near == {n \in file : \E e \in Between(graph, file) :
                   n \in {e[1], e[2]} /\ {e[1], e[2]} \cap first # {}}
    IN  /\ shown \subseteq file
        /\ ~view.truncated => shown = file
        /\ first \ shown # {} => shown \subseteq first
        /\ near \ shown # {} => shown \subseteq (first \cup near)

(* No hidden function is nearer to the focus than one that is shown, and   *)
(* what the view says it hides is within the depth: _build_function_view   *)
(* and _reachable_count walk the graph separately.                         *)
CloserFirst ==
  view.scope = "function" =>
    LET Near(d) == Within(view.focus, d, LAMBDA n : Adjacent(graph, n, view.direction))
        shown == Range(view.nodes)
    IN  /\ shown \subseteq Near(view.depth)
        /\ \A d \in 0 .. view.depth : Near(d) \subseteq shown \/ shown \subseteq Near(d)
        /\ ~view.truncated <=> shown = Near(view.depth)

(* A view shows what matters most within its limit, says what it hides and *)
(* counts every call once.                                                 *)
ViewsAreTrue ==
  ViewTypeOK /\ CallsAreCountedOnce /\ FileShowsWhatMatters /\ CloserFirst

(* The tree is finished: it expands every function once, as a root or as a *)
(* child, and draws every call once; a call marked as a cycle is on one.   *)
TreeIsComplete ==
  view.scope = "tree" =>
    LET roots == view.tree.roots
        drawn == view.tree.drawn
        reaches == Reaches(graph)
        Expansions(n) == {i \in DOMAIN drawn : drawn[i][2] = "child" /\ drawn[i][1][2] = n}
    IN  /\ view.tree.branches = <<>> /\ view.tree.ahead = <<>>
        /\ \A n \in graph.node :
             Cardinality({i \in DOMAIN roots : roots[i] = n}) + Cardinality(Expansions(n)) = 1
        /\ Len(drawn) = Cardinality(graph.edge) /\ {b[1] : b \in Range(drawn)} = graph.edge
        /\ \A b \in Range(drawn) : b[2] = "cycle" => <<b[1][2], b[1][1]>> \in reaches
=============================================================================
