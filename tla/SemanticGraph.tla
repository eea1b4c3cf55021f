---------------------------- MODULE SemanticGraph ----------------------------
(***************************************************************************)
(* The semantic annotation of one job: SemanticAnnotationPipeline around   *)
(* the loop of SemanticAnnotationGraph.                                    *)
(*                                                                         *)
(* A session prepares the job (or reads its checkpoint), then takes one    *)
(* unit (a cluster of functions) after the other from a queue, has it      *)
(* annotated by the model, reviews the answer, and queues the unit again   *)
(* or hands it to a human.  When the queue is empty the annotations are    *)
(* aggregated per file, by several threads, and then for the project.      *)
(* A session ends, fails or dies with its process; a later one resumes     *)
(* from the checkpoint, under the settings of its own day.                 *)
(***************************************************************************)
EXTENDS Integers, Sequences, FiniteSets

CONSTANTS
  UnitCount,     \* clusters of the job, in the order of semantic-work-units.json
  Files,         \* source files
  UnitsOf,       \* units with a function in a file
  MaxAttempts,   \* max_attempts
  MaxSessions,   \* bound: sessions of the job
  MaxEdits       \* bound: edits of the source

Units == 1..UnitCount
None == 0

ASSUME UnitCountIsPositive == UnitCount \in Nat \ {0}
ASSUME UnitsOfIsMap == UnitsOf \in [Files -> SUBSET Units]
ASSUME MaxAttemptsIsPositive == MaxAttempts \in Nat \ {0}
ASSUME BoundsAreNats == MaxSessions \in Nat /\ MaxEdits \in Nat

(* What a stored annotation is worth: a summary is missing, the confidence *)
(* lies between the lowest and the highest threshold used, or above both.  *)
Quality == {"empty", "low", "high"}
Verdict == {"none", "accepted", "low_quality", "incomplete", "manual_review"}

VARIABLES
  \* ---- on disk -------------------------------------------------------
  source,      \* version of the sources (the number of edits)
  checkpoint,  \* semantic-checkpoint.json
  written,     \* attempts with a function-annotations file, per unit
  cache,       \* semantic-aggregate-<key>.json
  index,       \* semantic-index.json: what each file summary was made from
  \* ---- in the process ------------------------------------------------
  node,        \* what the session does next
  graph,       \* SemanticGraphState
  baseline,    \* _attempt_baseline
  strict,      \* whether the session runs under the higher threshold
  context,     \* version of the sources the prompt was made from
  summary,     \* file summaries of the aggregation so far
  steps,       \* supersteps of the graph in this session
  \* ---- history -------------------------------------------------------
  sessions,    \* sessions so far
  refused,     \* answers refused in this session, per unit
  edited       \* the sources changed while a session ran

disk == <<source, checkpoint, written, cache, index>>
memory == <<graph, baseline, strict, context, summary, steps, refused>>
vars == <<source, checkpoint, written, cache, index, node, graph, baseline,
          strict, context, summary, steps, sessions, refused, edited>>

(* An annotation: the attempt that wrote the file, what it is worth and    *)
(* the version of the sources it was made from.                            *)
Ref == [attempt : Nat, quality : Quality, version : 0..MaxEdits]
NoRef == [attempt |-> None, quality |-> "empty", version |-> 0]

(* _initialize: the state before anything is annotated.  Of                *)
(* quality_history the latest entry of every unit is kept.                 *)
FreshGraph == [pending |-> [i \in Units |-> i], current |-> None,
               attempts |-> [u \in Units |-> 0], refs |-> [u \in Units |-> NoRef],
               verdict |-> [u \in Units |-> "none"], manual |-> {}, error |-> FALSE]

NoCheckpoint == [fingerprint |-> -1, state |-> FreshGraph]

(* What a file was summarised from: the attempts of its annotated units.   *)
Key == SUBSET (Units \X Nat)
NoSummary == [f \in Files |-> {}]

LoopNodes == {"select_unit", "annotate", "call", "quality_check"}
Nodes == LoopNodes \cup {"idle", "preparing", "open", "initialize", "aggregate", "done"}
Running == node \notin {"idle", "done"}

-----------------------------------------------------------------------------
(* SemanticQualityReviewer.review, under the threshold of the session.     *)
Review(ref, error) ==
  IF error \/ ref = NoRef \/ ref.quality = "empty" THEN "incomplete"
  ELSE IF strict /\ ref.quality = "low" THEN "low_quality"
  ELSE "accepted"

(* _save_checkpoint replaces the state of the graph in the file.  The      *)
(* queue and the review list are left out: _initialize replaces them.      *)
SaveCheckpoint(state) ==
  checkpoint' = [checkpoint EXCEPT !.state =
                   [FreshGraph EXCEPT !.attempts = state.attempts, !.refs = state.refs,
                                      !.verdict = state.verdict]]

RecursionLimit ==
  LET longest == UnitCount * MaxAttempts * 3 + 10
  IN IF longest > 25 THEN longest ELSE 25

(* A node of the graph is done.  LangGraph raises past the limit.          *)
Superstep(next) ==
  /\ steps' = steps + 1
  /\ node' = IF steps < RecursionLimit THEN next ELSE "idle"

(* What a process knows when it has nothing to do.                         *)
Forgotten ==
  /\ graph' = FreshGraph /\ baseline' = [u \in Units |-> 0] /\ strict' = FALSE
  /\ context' = 0 /\ summary' = NoSummary /\ steps' = 0
  /\ refused' = [u \in Units |-> 0]

-----------------------------------------------------------------------------
(* SemanticAnnotationPipeline.run.                                         *)

Init ==
  /\ source = 0 /\ checkpoint = NoCheckpoint /\ written = [u \in Units |-> {}]
  /\ cache = {} /\ index = NoSummary
  /\ node = "idle" /\ graph = FreshGraph /\ baseline = [u \in Units |-> 0]
  /\ strict = FALSE /\ context = 0 /\ summary = NoSummary /\ steps = 0
  /\ sessions = 0 /\ refused = [u \in Units |-> 0] /\ edited = FALSE

(* A session under the threshold of the current settings.  The first scans *)
(* and analyses the project; a later one needs the checkpoint.             *)
OpenSession ==
  /\ node \in {"idle", "done"}
  /\ sessions < MaxSessions
  /\ sessions > 0 => checkpoint # NoCheckpoint
  /\ node' = IF sessions = 0 THEN "preparing" ELSE "open"
  /\ sessions' = sessions + 1
  /\ strict' \in BOOLEAN
  /\ graph' = FreshGraph /\ baseline' = [u \in Units |-> 0] /\ context' = 0
  /\ summary' = NoSummary /\ steps' = 0 /\ refused' = [u \in Units |-> 0]
  /\ UNCHANGED <<disk, edited>>

(* SemanticPreparation.prepare and its quality gate have passed: only now  *)
(* is the checkpoint written, with the fingerprint of this moment.         *)
WriteCheckpoint ==
  /\ node = "preparing"
  /\ checkpoint' = [fingerprint |-> source, state |-> FreshGraph]
  /\ node' = "initialize"
  /\ UNCHANGED <<source, written, cache, index, memory, sessions, edited>>

(* The sources of a resumed session are those of the checkpoint.           *)
(* Mutant of Validate: they are not compared.                              *)
ValidateNothing ==
  /\ node = "open"
  /\ node' = "initialize"
  /\ UNCHANGED <<disk, memory, sessions, edited>>
Validate ==
  /\ node = "open"
  /\ source = checkpoint.fingerprint
  /\ node' = "initialize"
  /\ UNCHANGED <<disk, memory, sessions, edited>>

(* The preparation fails, or the sources have changed.                     *)
Refuse ==
  /\ \/ node = "preparing"
     \/ node = "open" /\ source # checkpoint.fingerprint
  /\ node' = "idle"
  /\ Forgotten
  /\ UNCHANGED <<disk, sessions, edited>>

-----------------------------------------------------------------------------
(* SemanticAnnotationGraph: initialize, select_unit, annotate,             *)
(* quality_check.                                                          *)

(* Units whose latest entry in the history is accepted and whose stored    *)
(* annotation still is, under the threshold of this session.               *)
(* Mutants of Accepted: the history is believed; the session starts anew.  *)
AcceptedOnce(state) == {u \in Units : state.verdict[u] = "accepted"}
AcceptedNever(state) == {}
Accepted(state) == {u \in Units : /\ state.verdict[u] = "accepted"
                                  /\ Review(state.refs[u], FALSE) = "accepted"}

(* The queue that lists some units in the order of the document.           *)
Listing(units) ==
  {queue \in [1..Cardinality(units) -> units] :
     /\ \A i, k \in 1..Cardinality(units) : i < k => queue[i] < queue[k]
     /\ \A u \in units : \E i \in 1..Cardinality(units) : queue[i] = u}

(* A resumed session reads the state of the checkpoint; the queue holds    *)
(* what is not accepted, and every unit has its attempts again.            *)
(* Mutant: attempts are counted over all sessions.                         *)
InitializeCountingAll ==
  /\ node = "initialize"
  /\ LET saved == checkpoint.state
     IN \E queue \in Listing(Units \ Accepted(saved)) :
          graph' = [saved EXCEPT !.pending = queue, !.manual = {}]
  /\ Superstep("select_unit")
  /\ UNCHANGED <<disk, baseline, strict, context, summary, sessions, refused, edited>>
Initialize ==
  /\ node = "initialize"
  /\ LET saved == checkpoint.state
     IN /\ \E queue \in Listing(Units \ Accepted(saved)) :
             graph' = [saved EXCEPT !.pending = queue, !.manual = {}]
        /\ baseline' = saved.attempts
  /\ Superstep("select_unit")
  /\ UNCHANGED <<disk, strict, context, summary, sessions, refused, edited>>

SelectUnit ==
  /\ node = "select_unit"
  /\ IF graph.pending = <<>>
     THEN /\ graph' = [graph EXCEPT !.current = None]
          /\ Superstep("aggregate")
     ELSE /\ graph' = [graph EXCEPT !.current = Head(graph.pending),
                                    !.pending = Tail(graph.pending)]
          /\ Superstep("annotate")
  /\ UNCHANGED <<disk, baseline, strict, context, summary, sessions, refused, edited>>

(* The attempt is on record before the model is asked, so that a session   *)
(* that dies with the call does not use its number again.  The context is  *)
(* cut from the sources as they are now.                                   *)
(* Mutant of Annotate: the attempt is not saved.                           *)
AnnotateUnsaved ==
  /\ node = "annotate"
  /\ graph' = [graph EXCEPT !.attempts[graph.current] = @ + 1]
  /\ context' = source
  /\ node' = "call"
  /\ UNCHANGED <<disk, baseline, strict, summary, steps, sessions, refused, edited>>
Annotate ==
  /\ node = "annotate"
  /\ graph' = [graph EXCEPT !.attempts[graph.current] = @ + 1]
  /\ SaveCheckpoint(graph')
  /\ context' = source
  /\ node' = "call"
  /\ UNCHANGED <<source, written, cache, index, baseline, strict, summary, steps,
                 sessions, refused, edited>>

(* The model answered, and the answer is stored under its attempt.         *)
Answer(q) ==
  LET u == graph.current
      n == graph.attempts[u]
  IN /\ node = "call"
     /\ written' = [written EXCEPT ![u] = @ \cup {n}]
     /\ graph' = [graph EXCEPT !.error = FALSE, !.refs[u] =
                    [attempt |-> n, quality |-> q, version |-> context]]
     /\ Superstep("quality_check")
     /\ context' = 0
     /\ UNCHANGED <<source, checkpoint, cache, index, baseline, strict, summary,
                    sessions, refused, edited>>

(* An unusable answer, or any other failure of the annotator: the unit     *)
(* keeps the annotation it had.                                            *)
CallFails ==
  /\ node = "call"
  /\ graph' = [graph EXCEPT !.error = TRUE]
  /\ Superstep("quality_check")
  /\ context' = 0
  /\ UNCHANGED <<disk, baseline, strict, summary, sessions, refused, edited>>

(* The network or the configuration: the attempt is taken back and the     *)
(* session ends.  Mutant: the unit is reviewed and queued again.           *)
CallGivesUpAndGoesOn ==
  /\ node = "call"
  /\ graph' = [graph EXCEPT !.error = TRUE, !.attempts[graph.current] = @ - 1]
  /\ SaveCheckpoint(graph')
  /\ Superstep("quality_check")
  /\ UNCHANGED <<source, written, cache, index, baseline, strict, context, summary,
                 sessions, refused, edited>>
CallGivesUp ==
  /\ node = "call"
  /\ SaveCheckpoint([graph EXCEPT !.attempts[graph.current] = @ - 1])
  /\ node' = "idle"
  /\ Forgotten
  /\ UNCHANGED <<source, written, cache, index, sessions, edited>>

(* A refused unit is queued again until its attempts of this session are   *)
(* used up.                                                                *)
Exhausted(u) == graph.attempts[u] - baseline[u] >= MaxAttempts

Judged(status) ==
  LET u == graph.current
  IN [graph EXCEPT !.verdict[u] = status, !.error = FALSE,
                   !.pending = IF status \in {"incomplete", "low_quality"}
                               THEN Append(@, u) ELSE @,
                   !.manual = IF status = "manual_review" THEN @ \cup {u} ELSE @]

QualityCheck ==
  LET u == graph.current
      decision == Review(graph.refs[u], graph.error)
  IN /\ node = "quality_check"
     /\ graph' = Judged(IF decision # "accepted" /\ Exhausted(u)
                        THEN "manual_review" ELSE decision)
     /\ refused' = [refused EXCEPT ![u] = @ + (IF decision = "accepted" THEN 0 ELSE 1)]
     /\ SaveCheckpoint(graph')
     /\ Superstep("select_unit")
     /\ UNCHANGED <<source, written, cache, index, baseline, strict, context, summary,
                    sessions, edited>>

-----------------------------------------------------------------------------
(* _aggregate and SemanticAggregator.  The files are summarised by a pool  *)
(* of threads; each summary is kept under a key of its whole prompt.       *)

Annotated == {u \in Units : graph.refs[u] # NoRef}
(* Mutant of Shown: files without an annotation are waited for.            *)
ShownAll == Files
Shown == {f \in Files : UnitsOf[f] \cap Annotated # {}}
KeyOf(f) == {<<u, graph.refs[u].attempt>> : u \in UnitsOf[f] \cap Annotated}

(* Mutant of Cached: a summary is kept under the path of its file.         *)
CachedByPath(f) == {e[2] : e \in {x \in cache : x[1] = f}}
Cached(f) == {e[2] : e \in {x \in cache : x = <<f, KeyOf(f)>>}}

ToSummarise == {f \in Shown : summary[f] = {}}

SummariseFile(f) ==
  /\ node = "aggregate"
  /\ f \in ToSummarise
  /\ \E key \in IF Cached(f) # {} THEN Cached(f) ELSE {KeyOf(f)} :
       /\ summary' = [summary EXCEPT ![f] = key]
       /\ cache' = cache \cup {<<f, key>>}
  /\ UNCHANGED <<source, checkpoint, written, index, node, graph, baseline, strict,
                 context, steps, sessions, refused, edited>>

(* One file fails; the calls that were running then still store theirs.    *)
FileFails ==
  /\ node = "aggregate"
  /\ \E f \in ToSummarise : \E others \in SUBSET (ToSummarise \ {f}) :
       /\ Cached(f) = {}
       /\ cache' = cache \cup {<<g, KeyOf(g)>> : g \in others}
  /\ node' = "idle"
  /\ Forgotten
  /\ UNCHANGED <<source, checkpoint, written, index, sessions, edited>>

(* The call for the project, then the index and the report.                *)
Publish ==
  /\ node = "aggregate"
  /\ ToSummarise = {}
  /\ index' = summary
  /\ Superstep("done")
  /\ UNCHANGED <<source, checkpoint, written, cache, graph, baseline, strict, context,
                 summary, sessions, refused, edited>>

ProjectFails ==
  /\ node = "aggregate"
  /\ ToSummarise = {}
  /\ node' = "idle"
  /\ Forgotten
  /\ UNCHANGED <<disk, sessions, edited>>

-----------------------------------------------------------------------------
(* The environment.                                                        *)

Crash ==
  /\ Running
  /\ node' = "idle"
  /\ Forgotten
  /\ UNCHANGED <<disk, sessions, edited>>

EditSource ==
  /\ source < MaxEdits
  /\ source' = source + 1
  /\ edited' = (edited \/ Running)
  /\ UNCHANGED <<checkpoint, written, cache, index, node, memory, sessions>>

GraphStep ==
  \/ Initialize \/ SelectUnit \/ Annotate \/ QualityCheck
  \/ \E q \in Quality : Answer(q)
  \/ CallFails \/ CallGivesUp

SessionStep ==
  \/ WriteCheckpoint \/ Validate \/ Refuse
  \/ GraphStep
  \/ \E f \in Files : SummariseFile(f)
  \/ FileFails \/ Publish \/ ProjectFails

Next == OpenSession \/ SessionStep \/ Crash \/ EditSource

Spec == Init /\ [][Next]_vars

(* The graph runs in one thread, and the client ends every call.           *)
FairSpec == Spec /\ WF_vars(SessionStep)

-----------------------------------------------------------------------------
(* Properties.                                                             *)

GraphState == [pending : Seq(Units), current : Units \cup {None},
               attempts : [Units -> Nat], refs : [Units -> Ref],
               verdict : [Units -> Verdict], manual : SUBSET Units, error : BOOLEAN]

(* The state is well typed; a node that works on a unit has one.           *)
TypeOK ==
  /\ source \in 0..MaxEdits
  /\ checkpoint \in [fingerprint : -1..MaxEdits, state : GraphState]
  /\ written \in [Units -> SUBSET Nat]
  /\ cache \subseteq Files \X Key
  /\ index \in [Files -> Key]
  /\ node \in Nodes
  /\ graph \in GraphState
  /\ node \in {"annotate", "call", "quality_check"} => graph.current \in Units
  /\ baseline \in [Units -> Nat] /\ strict \in BOOLEAN /\ context \in 0..MaxEdits
  /\ summary \in [Files -> Key] /\ steps \in Nat
  /\ sessions \in 0..MaxSessions /\ refused \in [Units -> Nat] /\ edited \in BOOLEAN

(* When the queue is empty every unit is decided: it is accepted, by an    *)
(* annotation that passes the review under the threshold of this session,  *)
(* or a human has it.  _initialize reviews again what an earlier session,  *)
(* under other settings, accepted.                                         *)
EveryUnitDecided ==
  node \in {"aggregate", "done"} =>
    \A u \in Units :
      \/ u \in graph.manual /\ graph.verdict[u] = "manual_review"
      \/ /\ u \notin graph.manual /\ graph.verdict[u] = "accepted"
         /\ Review(graph.refs[u], FALSE) = "accepted"

(* A human gets a unit only after max_attempts answers were refused in     *)
(* this session: the attempts of earlier sessions, and calls that died or  *)
(* failed for other reasons, do not count (_attempt_baseline, and the      *)
(* attempt that _annotate takes back).                                     *)
ReviewIsEarned ==
  Running => \A u \in graph.manual : refused[u] = MaxAttempts

(* The state is well typed, and a unit is decided by an answer that this   *)
(* session accepts or by all the attempts it was allowed.                  *)
DecisionsHold == TypeOK /\ EveryUnitDecided /\ ReviewIsEarned

(* The attempt that is about to be stored has no file yet, over crashes    *)
(* and resumes: an annotation that the checkpoint refers to is never       *)
(* overwritten (_annotate saves the attempt before the call).              *)
AttemptFileIsNew ==
  node = "call" => graph.attempts[graph.current] \notin written[graph.current]

(* A unit is not asked for again while the checkpoint holds an annotation  *)
(* of it that this session accepts: a resume pays for no accepted unit.    *)
AcceptedNotAskedAgain ==
  LET u == graph.current
      s == checkpoint.state
  IN node = "call" =>
       ~(s.verdict[u] = "accepted" /\ Review(s.refs[u], FALSE) = "accepted")

(* An answer that was paid for is neither overwritten nor asked for again. *)
AnswersAreKept == AttemptFileIsNew /\ AcceptedNotAskedAgain

(* The loop never reaches the recursion limit that invoke computes from    *)
(* the number of units and attempts, so it never ends a session.           *)
WithinRecursionLimit == steps < RecursionLimit

(* The index is made of summaries of exactly the annotations it contains,  *)
(* although summaries are reused from earlier sessions (the key of         *)
(* _complete).                                                             *)
FreshSummaries ==
  node = "done" => \A f \in Shown : index[f] = KeyOf(f)

(* Annotations of different versions of the sources are not mixed, unless  *)
(* the sources change while a session runs (validate_source).              *)
OneSourceVersion ==
  ~edited => \A u \in Annotated : graph.refs[u].version = checkpoint.fingerprint

(* The index is of one version of the sources and of the annotations the   *)
(* session ended with.                                                     *)
IndexIsCurrent == FreshSummaries /\ OneSourceVersion

(* Every session ends: the queue empties although units come back to it,   *)
(* and the aggregation waits for no file that nobody summarises.           *)
SessionEnds == Running ~> ~Running
=============================================================================
