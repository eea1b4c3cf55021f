------------------------- MODULE SemanticGraphProofs -------------------------
(***************************************************************************)
(* Proofs about SemanticGraph for every number of units, of files and of   *)
(* sessions, every layout of the units over the files, limit of attempts   *)
(* and number of edits.                                                    *)
(*                                                                         *)
(* QueueInv and BudgetInv follow a unit through the loop of one session,   *)
(* FileInv ties the loop to the checkpoint and the annotation files, and   *)
(* StepsInv counts the supersteps.                                         *)
(***************************************************************************)
EXTENDS SemanticGraph, FiniteSetTheorems, TLAPS

-----------------------------------------------------------------------------
(* The invariant.                                                          *)

Elements(q) == {q[i] : i \in 1..Len(q)}
Distinct(q) == \A i, k \in 1..Len(q) : q[i] = q[k] => i = k

InHand == {"annotate", "call", "quality_check"}
AfterLoop == {"aggregate", "done"}
Started == LoopNodes \cup AfterLoop
Open == Elements(graph.pending) \cup {u \in {graph.current} : node \in InHand}
Passes(ref) == Review(ref, FALSE) = "accepted"

(* Before the graph runs and after it stopped there is nothing in memory.  *)
RestInv ==
  node \notin Started =>
    /\ graph = FreshGraph /\ summary = NoSummary /\ steps = 0
    /\ refused = [u \in Units |-> 0]

(* A unit is in the queue or in hand, once, or decided.                    *)
QueueInv ==
  node \in Started =>
    /\ Distinct(graph.pending)
    /\ node \in InHand => graph.current \notin Elements(graph.pending)
    /\ node \in AfterLoop => graph.pending = <<>>
    /\ Open \cap graph.manual = {}
    /\ \A u \in graph.manual : graph.verdict[u] = "manual_review"
    /\ \A u \in Units \ (Open \cup graph.manual) :
         graph.verdict[u] = "accepted" /\ Passes(graph.refs[u])

Spent(u) == graph.attempts[u] - baseline[u]
Asked(u) == u = graph.current /\ node \in {"call", "quality_check"}
BudgetInv ==
  node \in Started =>
    \A u \in Units :
      /\ Spent(u) \in 0..MaxAttempts
      /\ u \in graph.manual => refused[u] = MaxAttempts
      /\ u \in Open => Spent(u) = refused[u] + (IF Asked(u) THEN 1 ELSE 0)
      /\ u \in Open /\ ~Asked(u) => Spent(u) < MaxAttempts

(* An attempt is on file in the checkpoint before its annotation is        *)
(* written, and nothing that the checkpoint holds is waited for.           *)
FileInv ==
  /\ sessions = 0 => node = "idle"
  /\ sessions = 0 \/ node = "preparing" => checkpoint = NoCheckpoint
  /\ \A u \in Units : \A n \in written[u] : n <= checkpoint.state.attempts[u]
  /\ node \in LoopNodes => checkpoint.state.attempts = graph.attempts
  /\ node \in LoopNodes \ {"quality_check"} =>
       checkpoint.state.refs = graph.refs /\ checkpoint.state.verdict = graph.verdict
  /\ node \in LoopNodes =>
       \A u \in Open : \/ node = "quality_check" /\ u = graph.current
                      \/ ~(graph.verdict[u] = "accepted" /\ Passes(graph.refs[u]))
  /\ AttemptFileIsNew

(* Three supersteps for every call that was made.                          *)
Calls == {c \in Units \X (1..MaxAttempts) : c[2] <= Spent(c[1])}
Rounds == 3 * Cardinality(Calls)
StepsInv ==
  /\ node = "select_unit" => steps = Rounds + 1
  /\ node = "annotate" => steps = Rounds + 2
  /\ node = "call" => steps = Rounds - 1
  /\ node = "quality_check" => steps = Rounds
  /\ node = "aggregate" => steps = Rounds + 2
  /\ node = "done" => steps = Rounds + 3

(* What is summarised is summarised from the annotations of this session.  *)
SummaryInv ==
  /\ node \in LoopNodes => summary = NoSummary
  /\ node \in AfterLoop => \A f \in Files : summary[f] \in {{}, KeyOf(f)}
  /\ FreshSummaries

(* Nothing is annotated from other sources than those of the checkpoint.   *)
OfVersion(refs, version) == \A u \in Units : refs[u] # NoRef => refs[u].version = version
SourceInv ==
  ~edited =>
    /\ OfVersion(graph.refs, checkpoint.fingerprint)
    /\ OfVersion(checkpoint.state.refs, checkpoint.fingerprint)
    /\ node \in LoopNodes \cup {"initialize"} => source = checkpoint.fingerprint
    /\ node = "call" => context = source

SemanticInv ==
  /\ TypeOK /\ RestInv /\ QueueInv /\ BudgetInv /\ FileInv /\ StepsInv
  /\ SummaryInv /\ SourceInv

-----------------------------------------------------------------------------
(* Queues.                                                                 *)

(* The first unit leaves a queue.                                          *)
LEMMA HeadLeaves ==
  ASSUME NEW q \in Seq(Units), q # <<>>
  PROVE  /\ Head(q) \in Units /\ Tail(q) \in Seq(Units)
         /\ Elements(q) = Elements(Tail(q)) \cup {Head(q)}
         /\ Distinct(q) => Distinct(Tail(q)) /\ Head(q) \notin Elements(Tail(q))
PROOF
<1>1. /\ Tail(q) \in Seq(Units) /\ Len(q) \in Nat \ {0} /\ Len(Tail(q)) = Len(q) - 1
      /\ \A i \in 1..(Len(q) - 1) : Tail(q)[i] = q[i + 1]
      /\ Head(q) = q[1] /\ q[1] \in Units
  OBVIOUS
<1>2. \A i \in 1..(Len(q) - 1) : i + 1 \in 1..Len(q) /\ i + 1 # 1 /\ Tail(q)[i] = q[i + 1]
  BY <1>1
<1>3. Elements(Tail(q)) \cup {Head(q)} \subseteq Elements(q)
  BY <1>1, <1>2 DEF Elements
<1>4. Elements(q) \subseteq Elements(Tail(q)) \cup {Head(q)}
  <2> SUFFICES ASSUME NEW i \in 1..Len(q), i # 1 PROVE q[i] \in Elements(Tail(q))
    BY <1>1 DEF Elements
  <2>1. i - 1 \in 1..(Len(q) - 1) /\ Tail(q)[i - 1] = q[i]
    BY <1>1
  <2>2. QED
    BY <1>1, <2>1 DEF Elements
<1>5. ASSUME Distinct(q) PROVE Distinct(Tail(q)) /\ Head(q) \notin Elements(Tail(q))
  <2>1. Distinct(Tail(q))
    BY <1>1, <1>2, <1>5 DEF Distinct
  <2>2. Head(q) \notin Elements(Tail(q))
    BY <1>1, <1>2, <1>5 DEF Distinct, Elements
  <2>3. QED
    BY <2>1, <2>2
<1>6. QED
  BY <1>1, <1>3, <1>4, <1>5

(* A unit joins a queue.                                                   *)
LEMMA LastJoins ==
  ASSUME NEW q \in Seq(Units), NEW u \in Units
  PROVE  /\ Append(q, u) \in Seq(Units)
         /\ Elements(Append(q, u)) = Elements(q) \cup {u}
         /\ Distinct(q) /\ u \notin Elements(q) => Distinct(Append(q, u))
PROOF
<1>1. /\ Append(q, u) \in Seq(Units) /\ Len(Append(q, u)) = Len(q) + 1 /\ Len(q) \in Nat
      /\ \A i \in 1..Len(q) : Append(q, u)[i] = q[i]
      /\ Append(q, u)[Len(q) + 1] = u
  OBVIOUS
<1>2. Elements(Append(q, u)) = Elements(q) \cup {u}
  BY <1>1 DEF Elements
<1>3. ASSUME Distinct(q), u \notin Elements(q) PROVE Distinct(Append(q, u))
  BY <1>1, <1>3 DEF Distinct, Elements
<1>4. QED
  BY <1>1, <1>2, <1>3

(* A listing of some units is a queue that holds each of them once.        *)
LEMMA ListingHolds ==
  ASSUME NEW units \in SUBSET Units, NEW q \in Listing(units)
  PROVE  q \in Seq(Units) /\ Elements(q) = units /\ Distinct(q)
PROOF
<1>0. IsFiniteSet(Units)
  BY UnitCountIsPositive, FS_Interval DEF Units
<1>1. IsFiniteSet(units) /\ Cardinality(units) \in Nat
  BY <1>0, FS_Subset, FS_CardinalityType
<1> DEFINE n == Cardinality(units)
<1>2. /\ n \in Nat /\ q \in [1..n -> units]
      /\ \A i, k \in 1..n : i < k => q[i] < q[k]
      /\ \A u \in units : \E i \in 1..n : q[i] = u
  BY <1>1 DEF Listing
<1> HIDE DEF n
<1>3. q \in Seq(Units) /\ Len(q) = n
  BY <1>2
<1>4. Elements(q) = units
  BY <1>2, <1>3 DEF Elements
<1>5. Distinct(q)
  <2> SUFFICES ASSUME NEW i \in 1..n, NEW k \in 1..n, q[i] = q[k] PROVE i = k
    BY <1>3 DEF Distinct
  <2>1. q[i] \in Units
    BY <1>2
  <2>2. q[i] \in Nat
    BY <2>1, UnitCountIsPositive DEF Units
  <2>3. ~(i < k) /\ ~(k < i)
    BY <1>2, <2>2
  <2>4. QED
    BY <1>2, <2>3
<1>6. QED
  BY <1>3, <1>4, <1>5

-----------------------------------------------------------------------------
(* Supersteps.                                                             *)

(* The calls of a session are at most max_attempts for every unit, and the *)
(* recursion limit leaves room for the nodes around them.                  *)
LEMMA CallsAreCounted ==
  ASSUME TRUE
  PROVE  /\ IsFiniteSet(Calls) /\ Cardinality(Calls) \in Nat
         /\ RecursionLimit \in Nat /\ Rounds + 10 <= RecursionLimit
PROOF
<1>1. IsFiniteSet(Units) /\ Cardinality(Units) = UnitCount
  BY UnitCountIsPositive, FS_Interval DEF Units
<1>2. IsFiniteSet(1..MaxAttempts) /\ Cardinality(1..MaxAttempts) = MaxAttempts
  BY MaxAttemptsIsPositive, FS_Interval
<1> DEFINE All == Units \X (1..MaxAttempts)
           P == UnitCount * MaxAttempts
<1>3. IsFiniteSet(All) /\ Cardinality(All) = P
  BY <1>1, <1>2, FS_Product
<1>4. Calls \in SUBSET All
  BY DEF Calls
<1> HIDE DEF All
<1>5. IsFiniteSet(Calls) /\ Cardinality(Calls) <= P
  BY <1>3, <1>4, FS_Subset
<1>6. Cardinality(Calls) \in Nat
  BY <1>5, FS_CardinalityType
<1>7. P \in Nat
  BY <1>3, FS_CardinalityType
<1> DEFINE longest == UnitCount * MaxAttempts * 3 + 10
<1>8. longest = P * 3 + 10
  OBVIOUS
<1>9. RecursionLimit = IF longest > 25 THEN longest ELSE 25
  BY DEF RecursionLimit
<1> HIDE DEF P, longest
<1>10. RecursionLimit \in Nat /\ Rounds + 10 <= RecursionLimit
  BY <1>5, <1>6, <1>7, <1>8, <1>9 DEF Rounds
<1>11. QED
  BY <1>5, <1>6, <1>10

-----------------------------------------------------------------------------
(* Starting and stopping.                                                  *)

(* The state before anything is annotated.                                 *)
LEMMA FreshIsGraph ==
  /\ FreshGraph \in GraphState
  /\ FreshGraph.manual = {} /\ FreshGraph.attempts = [u \in Units |-> 0]
  /\ \A u \in Units : FreshGraph.refs[u] = NoRef
PROOF
<1>1. [i \in Units |-> i] \in Seq(Units)
  BY UnitCountIsPositive DEF Units
<1>2. NoRef \in Ref
  BY BoundsAreNats DEF NoRef, Ref, None, Quality
<1>3. QED
  BY <1>1, <1>2 DEF FreshGraph, GraphState, None, Verdict

(* What is left when a session stops is what is on disk.                   *)
LEMMA ForgetKeeps ==
  ASSUME SemanticInv, sessions # 0, node' = "idle", Forgotten,
         UNCHANGED <<source, written, index, sessions, edited>>,
         cache' \subseteq Files \X Key,
         checkpoint' \in [fingerprint : -1..MaxEdits, state : GraphState],
         \A u \in Units : \A n \in written[u] : n <= checkpoint'.state.attempts[u],
         ~edited => OfVersion(checkpoint'.state.refs, checkpoint'.fingerprint)
  PROVE  SemanticInv'
PROOF
<1>1. /\ graph' = FreshGraph /\ summary' = NoSummary /\ steps' = 0 /\ strict' = FALSE
      /\ refused' = [u \in Units |-> 0] /\ baseline' = [u \in Units |-> 0] /\ context' = 0
  BY DEF Forgotten
<1>2. TypeOK'
  <2>1. strict' \in BOOLEAN /\ edited' \in BOOLEAN /\ sessions' \in 0..MaxSessions
    BY <1>1 DEF SemanticInv, TypeOK
  <2>2. summary' \in [Files -> Key] /\ index' \in [Files -> Key] /\ cache' \subseteq Files \X Key
    BY <1>1 DEF SemanticInv, TypeOK, NoSummary, Key
  <2>3. /\ graph' \in GraphState /\ node' = "idle" /\ steps' \in Nat
        /\ baseline' \in [Units -> Nat] /\ refused' \in [Units -> Nat]
        /\ context' \in 0..MaxEdits /\ source' \in 0..MaxEdits /\ written' \in [Units -> SUBSET Nat]
    BY <1>1, FreshIsGraph, BoundsAreNats DEF SemanticInv, TypeOK
  <2>4. QED
    BY <2>1, <2>2, <2>3 DEF TypeOK, Nodes
<1>3. RestInv' /\ QueueInv' /\ BudgetInv' /\ StepsInv' /\ SummaryInv'
  BY <1>1 DEF RestInv, QueueInv, BudgetInv, StepsInv, SummaryInv, FreshSummaries, Started,
              LoopNodes, AfterLoop
<1>4. FileInv'
  BY DEF FileInv, AttemptFileIsNew, LoopNodes
<1>5. SourceInv'
  BY <1>1, FreshIsGraph DEF SourceInv, OfVersion, LoopNodes
<1>6. QED
  BY <1>2, <1>3, <1>4, <1>5 DEF SemanticInv

(* Every way a session stops before its end.                               *)
LEMMA StopKeeps ==
  ASSUME SemanticInv, Refuse \/ FileFails \/ ProjectFails \/ Crash
  PROVE  SemanticInv'
PROOF
<1>1. /\ node' = "idle" /\ Forgotten /\ sessions # 0
      /\ UNCHANGED <<source, written, index, sessions, edited, checkpoint>>
  BY DEF Refuse, FileFails, ProjectFails, Crash, Running, disk, SemanticInv, FileInv
<1>2. cache' \subseteq Files \X Key
  <2>1. CASE FileFails
    <3>1. PICK others \in SUBSET Files : cache' = cache \cup {<<g, KeyOf(g)>> : g \in others}
      BY <2>1 DEF FileFails, ToSummarise, Shown
    <3>2. \A g \in Files : KeyOf(g) \in Key
      BY UnitsOfIsMap DEF SemanticInv, TypeOK, KeyOf, Key, Annotated, GraphState, Ref
    <3>3. QED
      BY <3>1, <3>2 DEF SemanticInv, TypeOK
  <2>2. CASE Refuse \/ ProjectFails \/ Crash
    BY <2>2 DEF Refuse, ProjectFails, Crash, disk, SemanticInv, TypeOK
  <2>3. QED
    BY <2>1, <2>2
<1>3. QED
  BY <1>1, <1>2, ForgetKeeps DEF SemanticInv, TypeOK, FileInv, SourceInv

(* A session opens with nothing in memory.                                 *)
LEMMA OpenSessionKeeps == ASSUME SemanticInv, OpenSession PROVE SemanticInv'
PROOF
<1>1. /\ node \in {"idle", "done"} /\ sessions \in Nat /\ sessions' = sessions + 1
      /\ sessions < MaxSessions /\ strict' \in BOOLEAN
      /\ node' \in {"preparing", "open"} /\ (node' = "preparing" <=> sessions = 0)
      /\ graph' = FreshGraph /\ summary' = NoSummary /\ steps' = 0
      /\ refused' = [u \in Units |-> 0] /\ baseline' = [u \in Units |-> 0] /\ context' = 0
      /\ UNCHANGED <<source, checkpoint, written, cache, index, edited>>
  BY BoundsAreNats DEF OpenSession, disk, SemanticInv, TypeOK
<1>2. TypeOK'
  BY <1>1, FreshIsGraph, BoundsAreNats DEF SemanticInv, TypeOK, Nodes, LoopNodes, NoSummary, Key
<1>3. RestInv' /\ QueueInv' /\ BudgetInv' /\ StepsInv' /\ SummaryInv'
  BY <1>1 DEF RestInv, QueueInv, BudgetInv, StepsInv, SummaryInv, FreshSummaries, Started,
              LoopNodes, AfterLoop
<1>4. FileInv'
  BY <1>1 DEF SemanticInv, FileInv, AttemptFileIsNew, LoopNodes
<1>5. SourceInv'
  BY <1>1, FreshIsGraph DEF SemanticInv, SourceInv, OfVersion, LoopNodes
<1>6. QED
  BY <1>2, <1>3, <1>4, <1>5 DEF SemanticInv

(* The first checkpoint is written when there is no annotation.            *)
LEMMA WriteCheckpointKeeps == ASSUME SemanticInv, WriteCheckpoint PROVE SemanticInv'
PROOF
<1>1. /\ node = "preparing" /\ node' = "initialize" /\ sessions # 0
      /\ checkpoint' = [fingerprint |-> source, state |-> FreshGraph]
      /\ checkpoint = NoCheckpoint
      /\ UNCHANGED <<source, written, cache, index, graph, baseline, strict, context, summary,
                     steps, refused, sessions, edited>>
  BY DEF WriteCheckpoint, memory, SemanticInv, FileInv
<1>2. checkpoint.state = FreshGraph /\ graph = FreshGraph
  BY <1>1 DEF NoCheckpoint, SemanticInv, RestInv, Started, LoopNodes, AfterLoop
<1>3. TypeOK'
  BY <1>1, FreshIsGraph, BoundsAreNats DEF SemanticInv, TypeOK, Nodes
<1>4. RestInv' /\ QueueInv' /\ BudgetInv' /\ StepsInv' /\ SummaryInv'
  BY <1>1 DEF SemanticInv, RestInv, QueueInv, BudgetInv, StepsInv, SummaryInv, FreshSummaries,
              Started, LoopNodes, AfterLoop
<1>5. FileInv'
  BY <1>1, <1>2 DEF SemanticInv, FileInv, AttemptFileIsNew, LoopNodes
<1>6. SourceInv'
  BY <1>1, <1>2, FreshIsGraph DEF SourceInv, OfVersion, LoopNodes
<1>7. QED
  BY <1>3, <1>4, <1>5, <1>6 DEF SemanticInv

(* A resumed session has found its sources unchanged.                      *)
LEMMA ValidateKeeps == ASSUME SemanticInv, Validate PROVE SemanticInv'
PROOF
<1>1. /\ node = "open" /\ node' = "initialize" /\ source = checkpoint.fingerprint
      /\ UNCHANGED <<source, checkpoint, written, cache, index, graph, baseline, strict,
                     context, summary, steps, refused, sessions, edited>>
  BY DEF Validate, memory, disk
<1>2. TypeOK'
  BY <1>1 DEF SemanticInv, TypeOK, Nodes
<1>3. RestInv' /\ QueueInv' /\ BudgetInv' /\ StepsInv' /\ SummaryInv'
  BY <1>1 DEF SemanticInv, RestInv, QueueInv, BudgetInv, StepsInv, SummaryInv, FreshSummaries,
              Started, LoopNodes, AfterLoop
<1>4. FileInv' /\ SourceInv'
  BY <1>1 DEF SemanticInv, FileInv, AttemptFileIsNew, SourceInv, OfVersion, LoopNodes
<1>5. QED
  BY <1>2, <1>3, <1>4 DEF SemanticInv

(* An edit during a session takes the promise about versions away.         *)
LEMMA EditKeeps == ASSUME SemanticInv, EditSource PROVE SemanticInv'
PROOF
<1>1. /\ source < MaxEdits /\ source' = source + 1
      /\ UNCHANGED <<checkpoint, written, cache, index, node, graph, baseline, strict,
                     context, summary, steps, refused, sessions>>
  BY DEF EditSource, memory
<1>2. edited' \in BOOLEAN /\ (edited' <=> edited \/ Running)
  BY DEF EditSource, SemanticInv, TypeOK
<1>3. TypeOK'
  BY <1>1, <1>2, BoundsAreNats DEF SemanticInv, TypeOK
<1>4. RestInv' /\ FileInv' /\ SummaryInv'
  BY <1>1 DEF SemanticInv, RestInv, FileInv, SummaryInv, FreshSummaries, AttemptFileIsNew,
              KeyOf, Shown, Annotated, Passes, Review, Open
<1>5. QueueInv' /\ BudgetInv' /\ StepsInv'
  BY <1>1 DEF SemanticInv, QueueInv, BudgetInv, StepsInv, Rounds, Calls, Spent, Asked, Passes,
              Review, Open
<1>6. SourceInv'
  BY <1>1, <1>2 DEF SemanticInv, SourceInv, OfVersion, Running, LoopNodes
<1>7. QED
  BY <1>3, <1>4, <1>5, <1>6 DEF SemanticInv

-----------------------------------------------------------------------------
(* The loop.                                                               *)

(* A node of the graph is never the one that meets the recursion limit.    *)
LEMMA NodesHaveRoom ==
  ASSUME SemanticInv, node # "done", NEW next, Superstep(next)
  PROVE  node' = next /\ steps' = steps + 1
PROOF
<1>1. steps <= Rounds + 2 \/ steps = 0
  BY CallsAreCounted DEF SemanticInv, TypeOK, RestInv, StepsInv, Nodes, Started, LoopNodes,
                         AfterLoop, Rounds
<1>2. steps < RecursionLimit
  BY <1>1, CallsAreCounted DEF SemanticInv, TypeOK, Rounds
<1>3. QED
  BY <1>2 DEF Superstep

(* The queue and the hand hold units.                                      *)
LEMMA OpenAreUnits == ASSUME TypeOK PROVE Open \subseteq Units
PROOF
<1>1. graph.pending \in Seq(Units)
  BY DEF TypeOK, GraphState
<1>2. Elements(graph.pending) \subseteq Units
  BY <1>1 DEF Elements
<1>3. QED
  BY <1>2 DEF TypeOK, Open, InHand

(* What _save_checkpoint writes.                                           *)
LEMMA SavedState ==
  ASSUME TypeOK, NEW state \in GraphState, SaveCheckpoint(state)
  PROVE  /\ checkpoint' \in [fingerprint : -1..MaxEdits, state : GraphState]
         /\ checkpoint'.fingerprint = checkpoint.fingerprint
         /\ checkpoint'.state.attempts = state.attempts
         /\ checkpoint'.state.refs = state.refs
         /\ checkpoint'.state.verdict = state.verdict
PROOF
<1> DEFINE new == [FreshGraph EXCEPT !.attempts = state.attempts, !.refs = state.refs,
                                     !.verdict = state.verdict]
<1>1. /\ new \in GraphState /\ new.attempts = state.attempts /\ new.refs = state.refs
      /\ new.verdict = state.verdict
  BY FreshIsGraph DEF GraphState
<1>2. checkpoint' = [checkpoint EXCEPT !.state = new]
  BY DEF SaveCheckpoint
<1> HIDE DEF new
<1>3. QED
  BY <1>1, <1>2 DEF TypeOK

(* A session begins with the units that are not accepted, none of its      *)
(* attempts spent.                                                         *)
LEMMA InitializeKeeps == ASSUME SemanticInv, Initialize PROVE SemanticInv'
PROOF
<1> DEFINE saved == checkpoint.state
<1>1. PICK queue \in Listing(Units \ Accepted(saved)) :
        graph' = [saved EXCEPT !.pending = queue, !.manual = {}]
  BY DEF Initialize
<1>2. /\ node = "initialize" /\ baseline' = saved.attempts
      /\ UNCHANGED <<source, checkpoint, written, cache, index, strict, context, summary,
                     sessions, refused, edited>>
      /\ summary = NoSummary /\ steps = 0 /\ refused = [u \in Units |-> 0]
  BY DEF Initialize, disk, SemanticInv, RestInv, Started, LoopNodes, AfterLoop
<1>3. node' = "select_unit" /\ steps' = steps + 1
  BY <1>2, NodesHaveRoom DEF Initialize
<1>4. /\ queue \in Seq(Units) /\ Elements(queue) = Units \ Accepted(saved)
      /\ Distinct(queue)
  BY <1>1, ListingHolds
<1>5. /\ saved \in GraphState /\ graph' \in GraphState
      /\ graph'.pending = queue /\ graph'.manual = {} /\ graph'.attempts = saved.attempts
      /\ graph'.refs = saved.refs /\ graph'.verdict = saved.verdict
  BY <1>1, <1>4 DEF SemanticInv, TypeOK, GraphState
<1>6. \A u \in Units : saved.attempts[u] \in Nat
  BY <1>5 DEF GraphState
<1>7. Open' = Units \ Accepted(saved)
  BY <1>3, <1>4, <1>5 DEF Open, InHand
<1>8. \A u \in Units : u \in Accepted(saved) <=>
        graph'.verdict[u] = "accepted" /\ Passes(graph.refs[u])'
  BY <1>2, <1>5 DEF Accepted, Passes, Review
<1> HIDE DEF saved
<1>9. TypeOK'
  <2>1. baseline' \in [Units -> Nat] /\ steps' \in Nat /\ node' \in Nodes
    BY <1>2, <1>3, <1>5 DEF SemanticInv, TypeOK, Nodes, LoopNodes, GraphState
  <2>2. QED
    BY <1>2, <1>3, <1>5, <2>1 DEF SemanticInv, TypeOK
<1>10. RestInv' /\ SummaryInv'
  BY <1>2, <1>3 DEF RestInv, SummaryInv, FreshSummaries, Started, LoopNodes, AfterLoop
<1>11. QueueInv'
  BY <1>3, <1>4, <1>5, <1>7, <1>8 DEF QueueInv, InHand, AfterLoop
<1>12. BudgetInv'
  BY <1>2, <1>3, <1>5, <1>6, <1>7, MaxAttemptsIsPositive DEF BudgetInv, Spent, Asked
<1>13. FileInv'
  BY <1>2, <1>3, <1>5, <1>7, <1>8 DEF SemanticInv, FileInv, AttemptFileIsNew, saved
<1>14. StepsInv'
  <2>1. Calls' = {}
    BY <1>2, <1>5, <1>6 DEF Calls, Spent
  <2>2. Rounds' = 0
    BY <2>1, FS_EmptySet DEF Rounds
  <2>3. QED
    BY <1>2, <1>3, <2>2 DEF StepsInv
<1>15. SourceInv'
  BY <1>2, <1>3, <1>5 DEF SemanticInv, SourceInv, OfVersion, LoopNodes, saved
<1>16. QED
  BY <1>9, <1>10, <1>11, <1>12, <1>13, <1>14, <1>15 DEF SemanticInv

(* The first unit of the queue is taken in hand; when there is none, all   *)
(* are decided.                                                            *)
LEMMA SelectKeeps == ASSUME SemanticInv, SelectUnit PROVE SemanticInv'
PROOF
<1>1. /\ node = "select_unit"
      /\ UNCHANGED <<source, checkpoint, written, cache, index, baseline, strict, context,
                     summary, sessions, refused, edited>>
  BY DEF SelectUnit, disk
<1>2. graph \in GraphState /\ graph.pending \in Seq(Units)
  BY DEF SemanticInv, TypeOK, GraphState
<1>3. /\ graph' \in GraphState /\ graph'.manual = graph.manual
      /\ graph'.attempts = graph.attempts /\ graph'.refs = graph.refs
      /\ graph'.verdict = graph.verdict /\ steps' = steps + 1
      /\ \/ /\ node' = "aggregate" /\ graph.pending = <<>> /\ graph'.pending = <<>>
            /\ Elements(graph.pending) = {} /\ Elements(graph'.pending) = {}
         \/ /\ node' = "annotate" /\ graph'.current \in Units
            /\ Elements(graph.pending) = Elements(graph'.pending) \cup {graph'.current}
            /\ Distinct(graph'.pending) /\ graph'.current \notin Elements(graph'.pending)
  <2>1. CASE graph.pending = <<>>
    <3>1. graph' = [graph EXCEPT !.current = None] /\ Superstep("aggregate")
      BY <2>1 DEF SelectUnit
    <3>2. node' = "aggregate" /\ steps' = steps + 1
      BY <3>1, <1>1, NodesHaveRoom
    <3>3. QED
      <4>1. Elements(graph.pending) = {}
        BY <2>1 DEF Elements
      <4>2. graph'.pending = graph.pending /\ graph' \in GraphState
        BY <1>2, <3>1 DEF GraphState
      <4>3. QED
        BY <1>2, <2>1, <3>1, <3>2, <4>1, <4>2 DEF GraphState
  <2>2. CASE graph.pending # <<>>
    <3>1. /\ graph' = [graph EXCEPT !.current = Head(graph.pending),
                                    !.pending = Tail(graph.pending)]
          /\ Superstep("annotate")
      BY <2>2 DEF SelectUnit
    <3>2. node' = "annotate" /\ steps' = steps + 1
      BY <3>1, <1>1, NodesHaveRoom
    <3>3. Distinct(graph.pending)
      BY <1>1 DEF SemanticInv, QueueInv, Started, LoopNodes
    <3>4. QED
      BY <1>2, <2>2, <3>1, <3>2, <3>3, HeadLeaves DEF GraphState
  <2>3. QED
    BY <2>1, <2>2
<1>4. Open' = Open
  BY <1>1, <1>3 DEF Open, InHand
<1>5. \A u \in Units : Passes(graph.refs[u])' <=> Passes(graph.refs[u])
  BY <1>1, <1>3 DEF Passes, Review
<1>6. TypeOK'
  <2>1. node' \in Nodes /\ steps' \in Nat
    BY <1>3 DEF SemanticInv, TypeOK, Nodes, LoopNodes
  <2>2. QED
    BY <1>1, <1>3, <2>1 DEF SemanticInv, TypeOK
<1>7. RestInv'
  BY <1>3 DEF RestInv, Started, LoopNodes, AfterLoop
<1>8. QueueInv'
  <2>1. QueueInv /\ node \in Started
    BY <1>1 DEF SemanticInv, Started, LoopNodes
  <2>2. Distinct(graph'.pending)
    BY <1>3, <2>1 DEF QueueInv
  <2>3. QED
    BY <1>3, <1>4, <1>5, <2>1, <2>2 DEF QueueInv, InHand, AfterLoop
<1>9. BudgetInv'
  BY <1>1, <1>3, <1>4 DEF SemanticInv, BudgetInv, Started, LoopNodes, Spent, Asked
<1>10. FileInv'
  <2>1. /\ FileInv /\ node \in LoopNodes /\ node # "quality_check" /\ sessions # 0
        /\ node' \in {"annotate", "aggregate"}
    BY <1>1, <1>3 DEF SemanticInv, FileInv, LoopNodes
  <2>2. \A u \in Open : ~(graph.verdict[u] = "accepted" /\ Passes(graph.refs[u]))
    BY <1>1, <2>1 DEF FileInv
  <2>3. Open \subseteq Units
    BY OpenAreUnits DEF SemanticInv
  <2>4. QED
    BY <1>1, <1>3, <1>4, <1>5, <2>1, <2>2, <2>3 DEF FileInv, AttemptFileIsNew
<1>11. StepsInv'
  <2>1. Rounds' = Rounds
    BY <1>1, <1>3 DEF Rounds, Calls, Spent
  <2>2. QED
    BY <1>1, <1>3, <2>1, CallsAreCounted DEF SemanticInv, StepsInv, Rounds
<1>12. SummaryInv'
  BY <1>1, <1>3 DEF SemanticInv, SummaryInv, FreshSummaries, LoopNodes, AfterLoop, NoSummary
<1>13. SourceInv'
  BY <1>1, <1>3 DEF SemanticInv, SourceInv, OfVersion, LoopNodes
<1>14. QED
  BY <1>6, <1>7, <1>8, <1>9, <1>10, <1>11, <1>12, <1>13 DEF SemanticInv

(* An attempt is spent, and on file, before the model is asked.            *)
LEMMA AnnotateKeeps == ASSUME SemanticInv, Annotate PROVE SemanticInv'
PROOF
<1> DEFINE u == graph.current
           c == <<u, Spent(u) + 1>>
<1>1. /\ node = "annotate" /\ node' = "call" /\ context' = source
      /\ UNCHANGED <<source, written, cache, index, baseline, strict, summary, steps,
                     sessions, refused, edited>>
  BY DEF Annotate
<1>2. /\ graph \in GraphState /\ u \in Units /\ graph.attempts \in [Units -> Nat]
      /\ graph.attempts[u] + 1 \in Nat
  <2>1. graph \in GraphState /\ u \in Units
    BY <1>1 DEF SemanticInv, TypeOK
  <2>2. graph.attempts \in [Units -> Nat]
    BY <2>1 DEF GraphState
  <2> HIDE DEF u
  <2>3. graph.attempts[u] \in Nat
    BY <2>1, <2>2
  <2>4. QED
    BY <2>1, <2>2, <2>3
<1>3. graph' = [graph EXCEPT !.attempts[u] = @ + 1]
  BY DEF Annotate
<1>4. /\ graph' \in GraphState /\ graph'.current = u /\ graph'.manual = graph.manual
      /\ graph'.attempts = [graph.attempts EXCEPT ![u] = @ + 1]
      /\ graph'.refs = graph.refs /\ graph'.verdict = graph.verdict
      /\ graph'.pending = graph.pending
  BY <1>2, <1>3 DEF GraphState
<1>5. /\ checkpoint' \in [fingerprint : -1..MaxEdits, state : GraphState]
      /\ checkpoint'.fingerprint = checkpoint.fingerprint
      /\ checkpoint'.state.attempts = graph'.attempts
      /\ checkpoint'.state.refs = graph.refs /\ checkpoint'.state.verdict = graph.verdict
  <2>1. SaveCheckpoint(graph')
    BY DEF Annotate
  <2>2. QED
    BY <1>4, <2>1, SavedState DEF SemanticInv
<1>6. Open' = Open /\ u \in Open /\ Open \subseteq Units
  BY <1>1, <1>4, OpenAreUnits DEF SemanticInv, Open, InHand
<1>7. \A v \in Units : Passes(graph.refs[v])' <=> Passes(graph.refs[v])
  BY <1>1, <1>4 DEF Passes, Review
<1>8. /\ Spent(u) \in Nat /\ Spent(u) < MaxAttempts /\ Spent(u) = refused[u]
      /\ \A v \in Units : Spent(v)' = IF v = u THEN Spent(u) + 1 ELSE Spent(v)
  <2>1. \A v \in Units : graph.attempts[v] \in Nat /\ baseline[v] \in Nat
    BY <1>2 DEF SemanticInv, TypeOK, GraphState
  <2>2. \A v \in Units : Spent(v)' = IF v = u THEN Spent(u) + 1 ELSE Spent(v)
    <3>1. ASSUME NEW v \in Units PROVE Spent(v)' = IF v = u THEN Spent(u) + 1 ELSE Spent(v)
      <4>1. Spent(v)' = graph'.attempts[v] - baseline[v]
        BY <1>1 DEF Spent
      <4>2. graph'.attempts[v] = IF v = u THEN graph.attempts[v] + 1 ELSE graph.attempts[v]
        BY <1>2, <1>4
      <4>3. QED
        BY <2>1, <4>1, <4>2 DEF Spent
    <3>2. QED
      BY <3>1
  <2>3. Spent(u) \in 0..MaxAttempts /\ Spent(u) < MaxAttempts /\ refused[u] \in Nat
        /\ Spent(u) = refused[u]
    BY <1>1, <1>2, <1>6 DEF SemanticInv, TypeOK, BudgetInv, Started, LoopNodes, Asked
  <2>4. QED
    BY <2>2, <2>3
<1> HIDE DEF u
<1>9. TypeOK'
  <2>1. node' \in Nodes /\ graph'.current \in Units /\ context' \in 0..MaxEdits
    BY <1>1, <1>2, <1>4 DEF SemanticInv, TypeOK, Nodes, LoopNodes
  <2>2. QED
    BY <1>1, <1>4, <1>5, <2>1 DEF SemanticInv, TypeOK
<1>10. RestInv'
  BY <1>1 DEF RestInv, Started, LoopNodes
<1>11. QueueInv'
  <2>1. QueueInv /\ node \in Started /\ node \in InHand
    BY <1>1 DEF SemanticInv, Started, LoopNodes, InHand
  <2>2. graph.current \notin Elements(graph.pending)
    BY <2>1 DEF QueueInv
  <2>3. QED
    BY <1>1, <1>4, <1>6, <1>7, <2>1, <2>2 DEF QueueInv, AfterLoop, u
<1>12. BudgetInv'
  <2> SUFFICES ASSUME NEW v \in Units
      PROVE  /\ Spent(v)' \in 0..MaxAttempts
             /\ v \in graph'.manual => refused[v] = MaxAttempts
             /\ v \in Open => Spent(v)' = refused[v] + (IF v = u THEN 1 ELSE 0)
             /\ v \in Open /\ v # u => Spent(v)' < MaxAttempts
    BY <1>1, <1>4, <1>6 DEF BudgetInv, Asked
  <2>1. /\ Spent(v) \in 0..MaxAttempts /\ refused[v] \in Nat
        /\ v \in graph.manual => refused[v] = MaxAttempts
        /\ v \in Open => Spent(v) = refused[v] /\ Spent(v) < MaxAttempts
    BY <1>1 DEF SemanticInv, TypeOK, BudgetInv, Started, LoopNodes, Asked
  <2>2. QED
    BY <1>4, <1>8, <2>1, MaxAttemptsIsPositive
<1>13. FileInv'
  <2>1. /\ sessions # 0
        /\ \A v \in Units : \A n \in written[v] : n \in Nat /\ n <= graph.attempts[v]
        /\ \A v \in Open : ~(graph.verdict[v] = "accepted" /\ Passes(graph.refs[v]))
    BY <1>1 DEF SemanticInv, TypeOK, FileInv, LoopNodes
  <2>2. \A v \in Units : graph'.attempts[v] \in Nat /\ graph.attempts[v] \in Nat
                         /\ graph.attempts[v] <= graph'.attempts[v]
    BY <1>2, <1>4 DEF GraphState
  <2>3. \A v \in Units : \A n \in written[v] : n <= checkpoint'.state.attempts[v]
    BY <1>5, <2>1, <2>2
  <2>4. AttemptFileIsNew'
    <3>1. graph'.attempts[u] = graph.attempts[u] + 1
      BY <1>2, <1>4 DEF GraphState
    <3>2. QED
      BY <1>1, <1>2, <1>4, <2>1, <3>1 DEF AttemptFileIsNew
  <2>5. QED
    BY <1>1, <1>4, <1>5, <1>6, <1>7, <2>1, <2>3, <2>4 DEF FileInv
<1>14. StepsInv'
  <2>1. Calls' = Calls \cup {c} /\ c \notin Calls
    BY <1>2, <1>8, MaxAttemptsIsPositive DEF Calls
  <2>2. Cardinality(Calls') = Cardinality(Calls) + 1
    BY <2>1, CallsAreCounted, FS_AddElement
  <2>3. Rounds' = Rounds + 3
    BY <2>2, CallsAreCounted DEF Rounds
  <2>4. QED
    BY <1>1, <2>3, CallsAreCounted DEF SemanticInv, StepsInv, Rounds
<1>15. SummaryInv'
  BY <1>1 DEF SemanticInv, SummaryInv, FreshSummaries, LoopNodes, AfterLoop
<1>16. SourceInv'
  BY <1>1, <1>4, <1>5 DEF SemanticInv, SourceInv, OfVersion, LoopNodes
<1>17. QED
  BY <1>9, <1>10, <1>11, <1>12, <1>13, <1>14, <1>15, <1>16 DEF SemanticInv

(* An answer is stored and shown to the reviewer; a call that fails is     *)
(* shown to it as an error.                                                *)
LEMMA CallKeeps ==
  ASSUME SemanticInv, node = "call", Superstep("quality_check"), context' = 0,
         UNCHANGED <<source, checkpoint, cache, index, baseline, strict, summary, sessions,
                     refused, edited>>,
         graph' \in GraphState, graph'.current = graph.current,
         graph'.pending = graph.pending, graph'.attempts = graph.attempts,
         graph'.verdict = graph.verdict, graph'.manual = graph.manual,
         \A v \in Units \ {graph.current} :
           graph'.refs[v] = graph.refs[v] /\ written'[v] = written[v],
         written' \in [Units -> SUBSET Nat],
         written'[graph.current] \subseteq
           written[graph.current] \cup {graph.attempts[graph.current]},
         LET ref == graph'.refs[graph.current]
         IN ref # graph.refs[graph.current] => ref.version = context
  PROVE  SemanticInv'
PROOF
<1> DEFINE u == graph.current
<1>1. node' = "quality_check" /\ steps' = steps + 1
  BY NodesHaveRoom
<1>2. u \in Units /\ graph \in GraphState /\ graph.attempts[u] \in Nat
  BY DEF SemanticInv, TypeOK, GraphState
<1>3. Open' = Open /\ u \in Open /\ Open \subseteq Units
  BY <1>1, OpenAreUnits DEF SemanticInv, Open, InHand
<1>4. \A v \in Units \ {u} : Passes(graph.refs[v])' <=> Passes(graph.refs[v])
  BY DEF Passes, Review
<1> HIDE DEF u
<1>5. TypeOK'
  <2>1. node' \in Nodes /\ graph'.current \in Units /\ context' \in 0..MaxEdits /\ steps' \in Nat
    BY <1>1, <1>2, BoundsAreNats DEF SemanticInv, TypeOK, Nodes, LoopNodes, u
  <2>2. QED
    BY <2>1 DEF SemanticInv, TypeOK
<1>6. RestInv'
  BY <1>1 DEF RestInv, Started, LoopNodes
<1>7. QueueInv'
  <2>1. QueueInv /\ node \in Started
    BY DEF SemanticInv, Started, LoopNodes
  <2>2. \A v \in Units \ (Open \cup graph.manual) : v # u
    BY <1>3
  <2>3. QED
    BY <1>1, <1>3, <1>4, <2>1, <2>2 DEF QueueInv, InHand, AfterLoop
<1>8. BudgetInv'
  BY <1>1, <1>3 DEF SemanticInv, BudgetInv, Started, LoopNodes, Spent, Asked
<1>9. FileInv'
  <2>1. FileInv /\ sessions # 0 /\ node \in LoopNodes
    BY DEF SemanticInv, FileInv, LoopNodes
  <2>2. \A v \in Units : \A n \in written'[v] : n <= checkpoint.state.attempts[v]
    BY <1>2, <2>1 DEF FileInv, u
  <2>3. \A v \in Open \ {u} : ~(graph'.verdict[v] = "accepted" /\ Passes(graph.refs[v])')
    BY <1>3, <1>4, <2>1 DEF FileInv, u
  <2>4. QED
    BY <1>1, <1>3, <2>1, <2>2, <2>3 DEF FileInv, AttemptFileIsNew, u, LoopNodes
<1>10. StepsInv'
  <2>1. Rounds' = Rounds
    BY DEF Rounds, Calls, Spent
  <2>2. QED
    BY <1>1, <2>1, CallsAreCounted DEF SemanticInv, StepsInv, Rounds
<1>11. SummaryInv'
  BY <1>1 DEF SemanticInv, SummaryInv, FreshSummaries, LoopNodes, AfterLoop
<1>12. SourceInv'
  BY <1>1, <1>2 DEF SemanticInv, SourceInv, OfVersion, LoopNodes, u
<1>13. QED
  BY <1>5, <1>6, <1>7, <1>8, <1>9, <1>10, <1>11, <1>12 DEF SemanticInv

(* The two ways a call comes to its review.                                *)
LEMMA AnswerKeeps ==
  ASSUME SemanticInv, (\E q \in Quality : Answer(q)) \/ CallFails
  PROVE  SemanticInv'
PROOF
<1>1. CASE CallFails
  <2>1. graph' \in GraphState /\ graph' = [graph EXCEPT !.error = TRUE]
    BY <1>1 DEF CallFails, SemanticInv, TypeOK, GraphState
  <2>2. QED
    BY <1>1, <2>1, CallKeeps DEF CallFails, disk, SemanticInv, TypeOK, GraphState
<1>2. ASSUME NEW q \in Quality, Answer(q) PROVE SemanticInv'
  <2> DEFINE u == graph.current
             ref == [attempt |-> graph.attempts[u], quality |-> q, version |-> context]
  <2>1. /\ node = "call" /\ Superstep("quality_check") /\ context' = 0
        /\ written' = [written EXCEPT ![u] = @ \cup {graph.attempts[u]}]
        /\ graph' = [graph EXCEPT !.error = FALSE, !.refs[u] = ref]
        /\ UNCHANGED <<source, checkpoint, cache, index, baseline, strict, summary, sessions,
                       refused, edited>>
    BY <1>2 DEF Answer
  <2>2. u \in Units /\ graph \in GraphState /\ graph.attempts[u] \in Nat
        /\ written \in [Units -> SUBSET Nat] /\ context \in 0..MaxEdits
    BY <2>1 DEF SemanticInv, TypeOK, GraphState
  <2>3. ref \in Ref /\ ref.version = context
    BY <2>2 DEF Ref
  <2> HIDE DEF u, ref
  <2>4. /\ graph' \in GraphState /\ graph'.current = graph.current
        /\ graph'.pending = graph.pending /\ graph'.attempts = graph.attempts
        /\ graph'.verdict = graph.verdict /\ graph'.manual = graph.manual
        /\ graph'.refs = [graph.refs EXCEPT ![u] = ref]
    BY <2>1, <2>2, <2>3 DEF GraphState
  <2>5. /\ \A v \in Units \ {u} : graph'.refs[v] = graph.refs[v] /\ written'[v] = written[v]
        /\ graph'.refs[u] = ref /\ written'[u] = written[u] \cup {graph.attempts[u]}
        /\ written' \in [Units -> SUBSET Nat]
    BY <2>1, <2>2, <2>4 DEF GraphState
  <2>6. QED
    BY <2>1, <2>3, <2>4, <2>5, CallKeeps DEF u
<1>3. QED
  BY <1>1, <1>2

(* A call that gives up takes its attempt back, which no file carries.     *)
LEMMA GiveUpKeeps == ASSUME SemanticInv, CallGivesUp PROVE SemanticInv'
PROOF
<1> DEFINE u == graph.current
           state == [graph EXCEPT !.attempts[u] = @ - 1]
<1>1. /\ node = "call" /\ node' = "idle" /\ Forgotten /\ SaveCheckpoint(state)
      /\ UNCHANGED <<source, written, cache, index, sessions, edited>>
  BY DEF CallGivesUp
<1>2. /\ u \in Units /\ graph \in GraphState
      /\ \A v \in Units : graph.attempts[v] \in Nat /\ written[v] \subseteq Nat
      /\ cache \subseteq Files \X Key
  BY <1>1 DEF SemanticInv, TypeOK, GraphState
<1>3. graph.attempts[u] - 1 \in Nat
  <2>1. Spent(u) = refused[u] + 1 /\ refused[u] \in Nat /\ baseline[u] \in Nat
    BY <1>1, <1>2 DEF SemanticInv, TypeOK, BudgetInv, Started, LoopNodes, Asked, Open, InHand
  <2>2. QED
    BY <1>2, <2>1 DEF Spent
<1>4. /\ state \in GraphState /\ state.refs = graph.refs
      /\ state.attempts = [graph.attempts EXCEPT ![u] = @ - 1]
  BY <1>2, <1>3 DEF GraphState
<1> HIDE DEF state, u
<1>5. /\ checkpoint' \in [fingerprint : -1..MaxEdits, state : GraphState]
      /\ checkpoint'.fingerprint = checkpoint.fingerprint
      /\ checkpoint'.state.attempts = [graph.attempts EXCEPT ![u] = @ - 1]
      /\ checkpoint'.state.refs = graph.refs
  BY <1>1, <1>4, SavedState DEF SemanticInv
<1>6. \A v \in Units : \A n \in written[v] : n <= checkpoint'.state.attempts[v]
  <2>1. /\ \A v \in Units : \A n \in written[v] : n <= graph.attempts[v]
        /\ graph.attempts[u] \notin written[u] /\ sessions # 0
    BY <1>1 DEF SemanticInv, FileInv, AttemptFileIsNew, LoopNodes, u
  <2>2. graph.attempts \in [Units -> Nat]
    BY <1>2 DEF GraphState
  <2>3. ASSUME NEW v \in Units, NEW n \in written[v] PROVE n <= checkpoint'.state.attempts[v]
    <3>1. n \in Nat /\ n <= graph.attempts[v] /\ (v = u => n # graph.attempts[v])
      BY <1>2, <2>1
    <3>2. checkpoint'.state.attempts[v] =
            IF v = u THEN graph.attempts[v] - 1 ELSE graph.attempts[v]
      BY <1>5, <2>2
    <3>3. QED
      BY <1>2, <3>1, <3>2
  <2>4. QED
    BY <2>3
<1>7. ~edited => OfVersion(checkpoint'.state.refs, checkpoint'.fingerprint)
  BY <1>5 DEF SemanticInv, SourceInv, OfVersion
<1>8. sessions # 0
  BY <1>1 DEF SemanticInv, FileInv
<1>9. QED
  BY <1>1, <1>2, <1>5, <1>6, <1>7, <1>8, ForgetKeeps

(* The unit in hand is accepted, goes back to the queue, or goes to a      *)
(* human when its attempts are used up.                                    *)
LEMMA QualityKeeps == ASSUME SemanticInv, QualityCheck PROVE SemanticInv'
PROOF
<1> DEFINE u == graph.current
           decision == Review(graph.refs[u], graph.error)
           status == IF decision # "accepted" /\ Exhausted(u) THEN "manual_review"
                     ELSE decision
<1>1. /\ node = "quality_check" /\ graph' = Judged(status)
      /\ refused' = [refused EXCEPT ![u] = @ + (IF decision = "accepted" THEN 0 ELSE 1)]
      /\ UNCHANGED <<source, written, cache, index, baseline, strict, context, summary,
                     sessions, edited>>
  BY DEF QualityCheck
<1>2. node' = "select_unit" /\ steps' = steps + 1
  BY <1>1, NodesHaveRoom DEF QualityCheck
<1>3. /\ graph \in GraphState /\ u \in Units /\ graph.pending \in Seq(Units)
      /\ graph.attempts \in [Units -> Nat] /\ baseline \in [Units -> Nat]
      /\ refused \in [Units -> Nat] /\ graph.verdict \in [Units -> Verdict]
  BY <1>1 DEF SemanticInv, TypeOK, GraphState
<1>4. /\ decision \in {"accepted", "incomplete", "low_quality"}
      /\ decision = "accepted" => Passes(graph.refs[u])
  BY DEF Review, Passes
<1>5. /\ u \notin Elements(graph.pending) /\ u \in Open /\ u \notin graph.manual
      /\ Open = Elements(graph.pending) \cup {u} /\ Open \subseteq Units
      /\ Distinct(graph.pending)
  BY <1>1, OpenAreUnits DEF SemanticInv, QueueInv, Started, LoopNodes, Open, InHand
<1>6. /\ Spent(u) = refused[u] + 1 /\ Spent(u) <= MaxAttempts
      /\ Exhausted(u) <=> Spent(u) >= MaxAttempts
  BY <1>1, <1>3, <1>5 DEF SemanticInv, BudgetInv, Started, LoopNodes, Asked, Exhausted, Spent
<1> HIDE DEF u, decision
<1>7. \/ /\ status = "accepted" /\ decision = "accepted"
      \/ /\ status = "manual_review" /\ decision # "accepted" /\ refused[u] + 1 = MaxAttempts
      \/ /\ status \in {"incomplete", "low_quality"} /\ decision # "accepted"
         /\ refused[u] + 1 < MaxAttempts
  BY <1>3, <1>4, <1>6, MaxAttemptsIsPositive
<1> HIDE DEF status
<1>8. /\ graph' \in GraphState /\ graph'.attempts = graph.attempts
      /\ graph'.refs = graph.refs /\ graph'.current = u
      /\ graph'.verdict = [graph.verdict EXCEPT ![u] = status]
      /\ graph'.pending = IF status \in {"incomplete", "low_quality"}
                          THEN Append(graph.pending, u) ELSE graph.pending
      /\ graph'.manual = IF status = "manual_review" THEN graph.manual \cup {u}
                         ELSE graph.manual
  <2>1. Append(graph.pending, u) \in Seq(Units) /\ status \in Verdict
    BY <1>3, <1>7, LastJoins DEF Verdict
  <2>2. QED
    BY <1>1, <1>3, <2>1 DEF Judged, GraphState, u
<1>9. /\ checkpoint' \in [fingerprint : -1..MaxEdits, state : GraphState]
      /\ checkpoint'.fingerprint = checkpoint.fingerprint
      /\ checkpoint'.state.attempts = graph.attempts
      /\ checkpoint'.state.refs = graph.refs /\ checkpoint'.state.verdict = graph'.verdict
  <2>1. SaveCheckpoint(graph')
    BY DEF QualityCheck
  <2>2. QED
    BY <1>8, <2>1, SavedState DEF SemanticInv
<1>10. /\ Distinct(graph'.pending)
       /\ Open' = IF status \in {"incomplete", "low_quality"} THEN Open ELSE Open \ {u}
  <2>1. Open' = Elements(graph'.pending)
    BY <1>2 DEF Open, InHand
  <2>2. QED
    <3>1. CASE status \in {"incomplete", "low_quality"}
      <4>1. graph'.pending = Append(graph.pending, u)
        BY <1>8, <3>1
      <4>2. QED
        BY <1>3, <1>5, <2>1, <3>1, <4>1, LastJoins
    <3>2. CASE status \notin {"incomplete", "low_quality"}
      <4>1. graph'.pending = graph.pending
        BY <1>8, <3>2
      <4>2. QED
        BY <1>5, <2>1, <3>2, <4>1
    <3>3. QED
      BY <3>1, <3>2
<1>11. \A v \in Units : Passes(graph.refs[v])' <=> Passes(graph.refs[v])
  BY <1>1, <1>8 DEF Passes, Review
<1>12. \A v \in Units : /\ graph'.verdict[v] = IF v = u THEN status ELSE graph.verdict[v]
                        /\ refused'[v] = IF v = u /\ decision # "accepted" THEN refused[v] + 1
                                         ELSE refused[v]
                        /\ Spent(v)' = Spent(v)
  BY <1>1, <1>3, <1>8 DEF Spent
<1>13. TypeOK'
  <2>1. node' \in Nodes /\ steps' \in Nat /\ refused' \in [Units -> Nat]
    BY <1>1, <1>2, <1>3 DEF SemanticInv, TypeOK, Nodes, LoopNodes
  <2>2. QED
    BY <1>1, <1>2, <1>8, <1>9, <2>1 DEF SemanticInv, TypeOK
<1>14. RestInv'
  BY <1>2 DEF RestInv, Started, LoopNodes
<1>15. QueueInv'
  <2>1. /\ Open \cap graph.manual = {}
        /\ \A v \in graph.manual : v \in Units /\ graph.verdict[v] = "manual_review"
        /\ \A v \in Units \ (Open \cup graph.manual) :
             graph.verdict[v] = "accepted" /\ Passes(graph.refs[v])
    BY <1>1, <1>3 DEF SemanticInv, QueueInv, Started, LoopNodes, GraphState
  <2>2. Open' \cap graph'.manual = {}
    BY <1>5, <1>8, <1>10, <2>1
  <2>3. \A v \in graph'.manual : graph'.verdict[v] = "manual_review"
    BY <1>3, <1>5, <1>8, <1>12, <2>1
  <2>4. \A v \in Units \ (Open' \cup graph'.manual) :
          graph'.verdict[v] = "accepted" /\ Passes(graph.refs[v])'
    <3> SUFFICES ASSUME NEW v \in Units, v \notin Open', v \notin graph'.manual
        PROVE  graph'.verdict[v] = "accepted" /\ Passes(graph.refs[v])'
      OBVIOUS
    <3>1. CASE v = u
      <4>1. status = "accepted" /\ decision = "accepted"
        BY <1>5, <1>7, <1>8, <1>10, <3>1
      <4>2. QED
        BY <1>4, <1>11, <1>12, <3>1, <4>1
    <3>2. CASE v # u
      <4>1. v \notin Open /\ v \notin graph.manual
        BY <1>8, <1>10, <3>2
      <4>2. QED
        BY <1>11, <1>12, <2>1, <3>2, <4>1
    <3>3. QED
      BY <3>1, <3>2
  <2>5. QED
    BY <1>2, <1>10, <2>2, <2>3, <2>4 DEF QueueInv, InHand, AfterLoop
<1>16. BudgetInv'
  <2> SUFFICES ASSUME NEW v \in Units
      PROVE  /\ Spent(v) \in 0..MaxAttempts
             /\ v \in graph'.manual => refused'[v] = MaxAttempts
             /\ v \in Open' => Spent(v) = refused'[v] /\ Spent(v) < MaxAttempts
    BY <1>2, <1>3, <1>12 DEF BudgetInv, Asked, SemanticInv, TypeOK
  <2>1. /\ Spent(v) \in 0..MaxAttempts /\ refused[v] \in Nat
        /\ v \in graph.manual => refused[v] = MaxAttempts
        /\ v \in Open /\ v # u => Spent(v) = refused[v] /\ Spent(v) < MaxAttempts
    BY <1>1, <1>3 DEF SemanticInv, BudgetInv, Started, LoopNodes, Asked, u
  <2>2. CASE v = u
    BY <1>5, <1>6, <1>7, <1>8, <1>10, <1>12, <2>1, <2>2
  <2>3. CASE v # u
    BY <1>8, <1>10, <1>12, <2>1, <2>3
  <2>4. QED
    BY <2>2, <2>3
<1>17. FileInv'
  <2>1. /\ FileInv /\ sessions # 0
        /\ \A v \in Open \ {u} : ~(graph.verdict[v] = "accepted" /\ Passes(graph.refs[v]))
    BY <1>1 DEF SemanticInv, FileInv, LoopNodes, u
  <2>2. \A v \in Open' : ~(graph'.verdict[v] = "accepted" /\ Passes(graph.refs[v])')
    BY <1>5, <1>7, <1>10, <1>11, <1>12, <2>1
  <2>3. \A v \in Units : \A n \in written[v] : n <= checkpoint'.state.attempts[v]
    BY <1>1, <1>9, <2>1 DEF FileInv, LoopNodes
  <2>4. QED
    BY <1>1, <1>2, <1>8, <1>9, <2>1, <2>2, <2>3 DEF FileInv, AttemptFileIsNew
<1>18. StepsInv'
  <2>1. Rounds' = Rounds
    BY <1>1, <1>8 DEF Rounds, Calls, Spent
  <2>2. QED
    BY <1>1, <1>2, <2>1 DEF SemanticInv, StepsInv
<1>19. SummaryInv'
  BY <1>1, <1>2 DEF SemanticInv, SummaryInv, FreshSummaries, LoopNodes, AfterLoop
<1>20. SourceInv'
  BY <1>1, <1>2, <1>8, <1>9 DEF SemanticInv, SourceInv, OfVersion, LoopNodes
<1>21. QED
  BY <1>13, <1>14, <1>15, <1>16, <1>17, <1>18, <1>19, <1>20 DEF SemanticInv

-----------------------------------------------------------------------------
(* The aggregation.                                                        *)

(* A summary is made of the annotations that the file has now, or was kept *)
(* under the key of just these.                                            *)
LEMMA SummariseKeeps == ASSUME SemanticInv, NEW f \in Files, SummariseFile(f) PROVE SemanticInv'
PROOF
<1>1. /\ node = "aggregate"
      /\ UNCHANGED <<source, checkpoint, written, index, node, graph, baseline, strict,
                     context, steps, sessions, refused, edited>>
  BY DEF SummariseFile
<1>2. /\ summary' = [summary EXCEPT ![f] = KeyOf(f)]
      /\ cache' = cache \cup {<<f, KeyOf(f)>>}
  <2>1. PICK key \in IF Cached(f) # {} THEN Cached(f) ELSE {KeyOf(f)} :
          summary' = [summary EXCEPT ![f] = key] /\ cache' = cache \cup {<<f, key>>}
    BY DEF SummariseFile
  <2>2. \A k \in Cached(f) : k = KeyOf(f)
    BY DEF Cached
  <2>3. key = KeyOf(f)
    BY <2>2
  <2>4. QED
    BY <2>1, <2>3
<1>3. KeyOf(f) \in Key
  BY UnitsOfIsMap DEF SemanticInv, TypeOK, KeyOf, Key, Annotated, GraphState, Ref
<1>4. summary \in [Files -> Key] /\ cache \subseteq Files \X Key
  BY DEF SemanticInv, TypeOK
<1>5. TypeOK'
  <2>1. summary' \in [Files -> Key] /\ cache' \subseteq Files \X Key
    BY <1>2, <1>3, <1>4
  <2>2. QED
    BY <1>1, <2>1 DEF SemanticInv, TypeOK
<1>6. RestInv' /\ FileInv'
  BY <1>1 DEF SemanticInv, RestInv, FileInv, AttemptFileIsNew, Passes, Review, Open, Started,
              LoopNodes, AfterLoop
<1>7. QueueInv' /\ BudgetInv' /\ StepsInv'
  BY <1>1 DEF SemanticInv, QueueInv, BudgetInv, StepsInv, Rounds, Calls, Spent, Asked, Passes,
              Review, Open
<1>8. SummaryInv'
  <2>1. \A g \in Files : summary[g] \in {{}, KeyOf(g)}
    BY <1>1 DEF SemanticInv, SummaryInv, AfterLoop
  <2>2. \A g \in Files : summary'[g] \in {{}, KeyOf(g)}
    BY <1>2, <1>4, <2>1
  <2>3. \A g \in Files : KeyOf(g)' = KeyOf(g)
    BY <1>1 DEF KeyOf, Annotated
  <2>4. QED
    BY <1>1, <2>2, <2>3 DEF SummaryInv, FreshSummaries, LoopNodes
<1>9. SourceInv'
  BY <1>1 DEF SemanticInv, SourceInv, OfVersion, LoopNodes
<1>10. QED
  BY <1>5, <1>6, <1>7, <1>8, <1>9 DEF SemanticInv

(* The index is written when every file that is shown has its summary.     *)
LEMMA PublishKeeps == ASSUME SemanticInv, Publish PROVE SemanticInv'
PROOF
<1>1. /\ node = "aggregate" /\ ToSummarise = {} /\ index' = summary
      /\ UNCHANGED <<source, checkpoint, written, cache, graph, baseline, strict, context,
                     summary, sessions, refused, edited>>
  BY DEF Publish
<1>2. node' = "done" /\ steps' = steps + 1
  BY <1>1, NodesHaveRoom DEF Publish
<1>3. TypeOK'
  <2>1. node' \in Nodes /\ steps' \in Nat /\ index' \in [Files -> Key]
    BY <1>1, <1>2 DEF SemanticInv, TypeOK, Nodes
  <2>2. QED
    BY <1>1, <1>2, <2>1 DEF SemanticInv, TypeOK
<1>4. Open' = Open /\ \A u \in Units : Passes(graph.refs[u])' <=> Passes(graph.refs[u])
  BY <1>1, <1>2 DEF Open, InHand, Passes, Review
<1>5. RestInv'
  BY <1>2 DEF RestInv, Started, AfterLoop
<1>6. QueueInv'
  BY <1>1, <1>2, <1>4 DEF SemanticInv, QueueInv, InHand, Started, AfterLoop
<1>7. BudgetInv'
  BY <1>1, <1>2, <1>4 DEF SemanticInv, BudgetInv, Started, AfterLoop, Spent, Asked
<1>8. FileInv'
  BY <1>1, <1>2 DEF SemanticInv, FileInv, AttemptFileIsNew, LoopNodes
<1>9. StepsInv'
  <2>1. Rounds' = Rounds
    BY <1>1 DEF Rounds, Calls, Spent
  <2>2. QED
    BY <1>1, <1>2, <2>1, CallsAreCounted DEF SemanticInv, StepsInv, Rounds
<1>10. SummaryInv'
  <2>1. \A f \in Files : summary[f] \in {{}, KeyOf(f)} /\ KeyOf(f)' = KeyOf(f)
    BY <1>1 DEF SemanticInv, SummaryInv, AfterLoop, KeyOf, Annotated
  <2>2. \A f \in Shown : f \in Files /\ summary[f] = KeyOf(f)
    BY <1>1, <2>1 DEF ToSummarise, Shown
  <2>3. Shown' = Shown
    BY <1>1 DEF Shown, Annotated
  <2>4. QED
    BY <1>1, <1>2, <2>1, <2>2, <2>3 DEF SummaryInv, FreshSummaries, LoopNodes
<1>11. SourceInv'
  BY <1>1, <1>2 DEF SemanticInv, SourceInv, OfVersion, LoopNodes
<1>12. QED
  BY <1>3, <1>5, <1>6, <1>7, <1>8, <1>9, <1>10, <1>11 DEF SemanticInv

-----------------------------------------------------------------------------
(* The theorems.                                                           *)

(* The invariant holds when nothing has been annotated.                    *)
LEMMA InitSemantic == Init => SemanticInv
PROOF
<1> SUFFICES ASSUME Init PROVE SemanticInv
  OBVIOUS
<1>1. TypeOK
  <2>1. checkpoint \in [fingerprint : -1..MaxEdits, state : GraphState]
    BY FreshIsGraph, BoundsAreNats DEF Init, NoCheckpoint
  <2>2. strict \in BOOLEAN /\ edited \in BOOLEAN
    BY DEF Init
  <2>3. index \in [Files -> Key] /\ summary \in [Files -> Key] /\ cache \subseteq Files \X Key
    BY DEF Init, NoSummary, Key
  <2>4. QED
    BY <2>1, <2>2, <2>3, FreshIsGraph, BoundsAreNats DEF Init, TypeOK, Nodes
<1>2. RestInv /\ QueueInv /\ BudgetInv /\ StepsInv /\ SummaryInv
  BY DEF Init, RestInv, QueueInv, BudgetInv, StepsInv, SummaryInv, FreshSummaries, Started,
         LoopNodes, AfterLoop
<1>3. FileInv /\ SourceInv
  BY FreshIsGraph DEF Init, FileInv, AttemptFileIsNew, SourceInv, OfVersion, NoCheckpoint,
                      LoopNodes
<1>4. QED
  BY <1>1, <1>2, <1>3 DEF SemanticInv

(* Every step keeps the invariant.                                         *)
LEMMA NextKeeps == SemanticInv /\ [Next]_vars => SemanticInv'
PROOF
<1> SUFFICES ASSUME SemanticInv, [Next]_vars PROVE SemanticInv'
  OBVIOUS
<1>1. CASE OpenSession
  BY <1>1, OpenSessionKeeps
<1>2. CASE WriteCheckpoint
  BY <1>2, WriteCheckpointKeeps
<1>3. CASE Validate
  BY <1>3, ValidateKeeps
<1>4. CASE Refuse \/ FileFails \/ ProjectFails \/ Crash
  BY <1>4, StopKeeps
<1>5. CASE Initialize
  BY <1>5, InitializeKeeps
<1>6. CASE SelectUnit
  BY <1>6, SelectKeeps
<1>7. CASE Annotate
  BY <1>7, AnnotateKeeps
<1>8. CASE (\E q \in Quality : Answer(q)) \/ CallFails
  BY <1>8, AnswerKeeps
<1>9. CASE CallGivesUp
  BY <1>9, GiveUpKeeps
<1>10. CASE QualityCheck
  BY <1>10, QualityKeeps
<1>11. CASE \E f \in Files : SummariseFile(f)
  BY <1>11, SummariseKeeps
<1>12. CASE Publish
  BY <1>12, PublishKeeps
<1>13. CASE EditSource
  BY <1>13, EditKeeps
<1>14. CASE UNCHANGED vars
  <2>1. UNCHANGED <<source, checkpoint, written, cache, index, node, graph, baseline, strict,
                    context, summary, steps, sessions, refused, edited>>
    BY <1>14 DEF vars
  <2>2. TypeOK' /\ RestInv' /\ StepsInv' /\ BudgetInv'
    BY <2>1 DEF SemanticInv, TypeOK, RestInv, StepsInv, Rounds, Calls, Spent, BudgetInv, Open,
                Asked
  <2>3. QueueInv' /\ FileInv' /\ SourceInv'
    BY <2>1 DEF SemanticInv, QueueInv, FileInv, SourceInv, OfVersion, Open, Passes, Review,
                AttemptFileIsNew
  <2>4. SummaryInv'
    BY <2>1 DEF SemanticInv, SummaryInv, FreshSummaries, Shown, KeyOf, Annotated
  <2>5. QED
    BY <2>2, <2>3, <2>4 DEF SemanticInv
<1>15. QED
  BY <1>1, <1>2, <1>3, <1>4, <1>5, <1>6, <1>7, <1>8, <1>9, <1>10, <1>11, <1>12, <1>13, <1>14
     DEF Next, SessionStep, GraphStep

(* The invariant holds in every state that the job can reach.              *)
THEOREM Invariant == Spec => []SemanticInv
PROOF
<1>1. Init => SemanticInv
  BY InitSemantic
<1>2. SemanticInv /\ [Next]_vars => SemanticInv'
  BY NextKeeps
<1>3. QED
  BY <1>1, <1>2, PTL DEF Spec

(* _quality_check: a unit is decided by an answer that this session        *)
(* accepts or by all the attempts it was allowed in this session.          *)
THEOREM Decisions == Spec => []DecisionsHold
PROOF
<1>1. ASSUME SemanticInv PROVE DecisionsHold
  <2>1. TypeOK
    BY <1>1 DEF SemanticInv
  <2>2. EveryUnitDecided
    <3> SUFFICES ASSUME node \in AfterLoop, NEW u \in Units
        PROVE  \/ u \in graph.manual /\ graph.verdict[u] = "manual_review"
               \/ /\ u \notin graph.manual /\ graph.verdict[u] = "accepted"
                  /\ Review(graph.refs[u], FALSE) = "accepted"
      BY DEF EveryUnitDecided, AfterLoop
    <3>1. QueueInv /\ node \in Started /\ node \notin InHand
      BY <1>1 DEF SemanticInv, Started, AfterLoop, InHand
    <3>2. Open = {}
      BY <3>1 DEF QueueInv, Open, Elements
    <3>3. QED
      BY <3>1, <3>2 DEF QueueInv, Passes
  <2>3. ReviewIsEarned
    <3> SUFFICES ASSUME Running, NEW u \in graph.manual PROVE refused[u] = MaxAttempts
      BY DEF ReviewIsEarned
    <3>1. u \in Units
      BY <2>1 DEF TypeOK, GraphState
    <3>2. CASE node \in Started
      BY <1>1, <3>1, <3>2 DEF SemanticInv, BudgetInv
    <3>3. CASE node \notin Started
      BY <1>1, <3>3, FreshIsGraph DEF SemanticInv, RestInv
    <3>4. QED
      BY <3>2, <3>3
  <2>4. QED
    BY <2>1, <2>2, <2>3 DEF DecisionsHold
<1>2. QED
  BY <1>1, Invariant, PTL

(* _annotate saves the attempt before the call, and _initialize leaves out *)
(* what is accepted: over crashes and resumes no stored annotation is      *)
(* overwritten, and none that this session accepts is asked for again.     *)
THEOREM Answers == Spec => []AnswersAreKept
PROOF
<1>1. ASSUME SemanticInv PROVE AnswersAreKept
  <2>1. AttemptFileIsNew
    BY <1>1 DEF SemanticInv, FileInv
  <2>2. AcceptedNotAskedAgain
    <3> SUFFICES ASSUME node = "call"
        PROVE  LET u == graph.current
                   s == checkpoint.state
               IN ~(s.verdict[u] = "accepted" /\ Review(s.refs[u], FALSE) = "accepted")
      BY DEF AcceptedNotAskedAgain
    <3>1. graph.current \in Open
      BY DEF Open, InHand
    <3>2. QED
      BY <1>1, <3>1 DEF SemanticInv, FileInv, LoopNodes, Passes
  <2>3. QED
    BY <2>1, <2>2 DEF AnswersAreKept
<1>2. QED
  BY <1>1, Invariant, PTL

(* The recursion limit that invoke computes leaves room for every unit to  *)
(* use up its attempts.                                                    *)
THEOREM Recursion == Spec => []WithinRecursionLimit
PROOF
<1>1. ASSUME SemanticInv PROVE WithinRecursionLimit
  <2>1. steps <= Rounds + 3 \/ steps = 0
    BY <1>1, CallsAreCounted DEF SemanticInv, TypeOK, RestInv, StepsInv, Nodes, Started,
                                 LoopNodes, AfterLoop, Rounds
  <2>2. QED
    BY <1>1, <2>1, CallsAreCounted DEF SemanticInv, TypeOK, Rounds, WithinRecursionLimit
<1>2. QED
  BY <1>1, Invariant, PTL

(* The index is of one version of the sources and of the annotations that  *)
(* the session ended with, whatever earlier sessions left in the cache.    *)
THEOREM Index == Spec => []IndexIsCurrent
PROOF
<1>1. ASSUME SemanticInv PROVE IndexIsCurrent
  BY <1>1 DEF SemanticInv, SummaryInv, SourceInv, OfVersion, IndexIsCurrent, OneSourceVersion,
              Annotated
<1>2. QED
  BY <1>1, Invariant, PTL
=============================================================================
