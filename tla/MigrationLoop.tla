---------------------------- MODULE MigrationLoop ----------------------------
(***************************************************************************)
(* The MATLAB-to-Python agent loop of one migration job.                   *)
(*                                                                         *)
(* A job owns an ordered list of work units (weakly connected call         *)
(* chains, "WCC").  A session opens the job (new or resumed), walks the    *)
(* LangGraph loop of MigrationGraph over the units one at a time, and      *)
(* either completes, is interrupted by an exception that the agent         *)
(* handles, or dies with its process.  What survives between sessions is   *)
(* what is on disk: migration-state.json, migration-checkpoint.json and    *)
(* the numbered artifacts of the attempts.                                 *)
(*                                                                         *)
(* The module is the sequential mode (migration_max_agents = 1, the        *)
(* default).  The chunks of an Act call are abstracted to one bit here,    *)
(* whether the call re-ran the chunk with the highest act-context version; *)
(* module ActChunks has them in full.                                      *)
(***************************************************************************)
EXTENDS Integers, FiniteSets

CONSTANTS
  UnitCount,      \* number of WCCs of the plan, numbered in plan order
  DependsOn,      \* depends_on_units of every unit
  MaxRetries,     \* max_retries of MigrationGraph
  ReasonActions,  \* the actions the injected Reason may answer
  DebugModel,     \* debug_model: record_step also records the quiet stages
  MaxSessions     \* bound: sessions opened on the job

Units == 1..UnitCount
None == 0
MaybeUnit == Units \cup {None}

(* domain/migration.py: ReasonAction and the unit states.                  *)
ReasonAction == {"convert", "finish", "rebuild_context", "replan", "manual_review"}
UnitStatus == {"pending", "ready", "generated", "verified", "frozen", "failed",
               "manual_review"}

ASSUME UnitCountIsNat == UnitCount \in Nat
ASSUME DependsOnIsGraph == DependsOn \in [Units -> SUBSET Units]
(* A unit of any group waits for none of the group: no units wait for each *)
(* other (MigrationPlanBuilder leaves depends_on_units empty).             *)
ASSUME DependsOnIsAcyclic ==
  \A S \in SUBSET Units : S # {} => \E u \in S : DependsOn[u] \cap S = {}
ASSUME MaxRetriesIsNat == MaxRetries \in Nat
ASSUME ReasonAnswers == ReasonActions \subseteq ReasonAction
ASSUME DebugIsFlag == DebugModel \in BOOLEAN
ASSUME MaxSessionsIsNat == MaxSessions \in Nat

VARIABLES
  \* ---- on disk -------------------------------------------------------
  unit,            \* migration-state.json
  checkpoint,      \* migration-checkpoint.json: status and completed_unit_ids
  contextVersion,  \* highest n of act-context-<unit>-*-n.json
  passing,         \* <<u, n>>: observation-<u>-<n>.json exists and passed
  \* ---- in the process ------------------------------------------------
  node,            \* the node about to run, or the phase of the session
  graph,           \* MigrationGraphState
  attempt,         \* MigrationRuntime._attempts
  tracked,         \* MigrationRuntime.current_chain_id
  sessions         \* sessions opened so far (bounds the model)

disk == <<unit, checkpoint, contextVersion, passing>>
memory == <<graph, attempt, tracked>>
vars == <<unit, checkpoint, contextVersion, passing,
          node, graph, attempt, tracked, sessions>>

(* A reference is the number of the attempt that wrote the artifact, or    *)
(* None.                                                                   *)
Ref == Nat

UnitState == [status : UnitStatus, translation : Ref, assembly : Ref,
              observation : Ref, retry : Nat]
FreshUnit == [status |-> "pending", translation |-> None, assembly |-> None,
              observation |-> None, retry |-> 0]

GraphState == [chain : MaybeUnit, stratagem : ReasonAction \cup {"none"},
               translation : Ref, assembly : Ref, observation : Ref, retry : Nat]

(* MigrationSession.graph_input: a graph state that has selected nothing.  *)
GraphInput == [chain |-> None, stratagem |-> "none", translation |-> None,
               assembly |-> None, observation |-> None, retry |-> 0]

ChainNodes == {"build_context", "reason", "act", "assemble", "observe",
               "freeze_chain", "manual_review"}
QuietNodes == {"initialize", "select_call_chain", "project_validate", "publish"}
GraphNodes == ChainNodes \cup QuietNodes
Nodes == GraphNodes \cup {"idle", "opening", "end", "demote", "interrupt"}

CheckpointStatus == {"absent", "running", "interrupted", "manual_review", "completed"}

-----------------------------------------------------------------------------
(* MigrationStateStore and MigrationScheduler.                             *)

Frozen == {u \in Units : unit[u].status = "frozen"}

(* restart_unfinished keeps frozen units and reviewed units whose evidence *)
(* is complete.                                                            *)
HasEvidence(s) == s.translation # None /\ s.assembly # None /\ s.observation # None
(* Mutants of KeptOnResume: failed units are kept too; frozen units need   *)
(* no keeping.                                                             *)
KeptFailedToo(s) == \/ s.status \in {"frozen", "failed"}
                    \/ s.status = "manual_review" /\ HasEvidence(s)
KeptReviewedOnly(s) == s.status = "manual_review" /\ HasEvidence(s)
KeptOnResume(s) == \/ s.status = "frozen"
                   \/ s.status = "manual_review" /\ HasEvidence(s)
RestartUnfinished ==
  [u \in Units |->
     IF KeptOnResume(unit[u]) THEN unit[u]
     ELSE [unit[u] EXCEPT !.status = "pending", !.translation = None,
                          !.assembly = None, !.observation = None, !.retry = 0]]

Terminal == {u \in Units : unit[u].status \in {"frozen", "manual_review"}}
(* A dependency in manual_review does not block its callers, although the  *)
(* agent-loop document wants frozen ones: DependenciesAreFrozen.           *)
(* Mutant of Ready: reviewed dependencies block their callers.             *)
ReadyAfterFrozen == {u \in Units : /\ unit[u].status \in {"pending", "ready"}
                                   /\ DependsOn[u] \subseteq Frozen}
Ready == {u \in Units : /\ unit[u].status \in {"pending", "ready"}
                        /\ DependsOn[u] \subseteq Terminal}

(* MigrationCheckpointStore.save lists the frozen units next to a status.  *)
(* Mutant of SaveCheckpoint: reviewed units are listed as completed.       *)
SaveTerminal(status) ==
  checkpoint' = [status |-> status, completed |-> Terminal]
SaveCheckpoint(status) ==
  checkpoint' = [status |-> status, completed |-> Frozen]

FinalStatus ==
  IF Units # {} /\ Frozen = Units THEN "completed"
  ELSE IF \E u \in Units : unit[u].status = "manual_review" THEN "manual_review"
  ELSE "interrupted"

-----------------------------------------------------------------------------
(* MigrationSessionManager.open.                                           *)

Init ==
  /\ unit = [u \in Units |-> FreshUnit]
  /\ checkpoint = [status |-> "absent", completed |-> {}]
  /\ contextVersion = [u \in Units |-> 0]
  /\ passing = {}
  /\ node = "idle"
  /\ graph = GraphInput
  /\ attempt = [u \in Units |-> 0]
  /\ tracked = None
  /\ sessions = 0

(* A new job builds its plan and its state file.                           *)
OpenNew ==
  /\ node = "idle"
  /\ sessions = 0 /\ sessions < MaxSessions
  /\ sessions' = sessions + 1
  /\ unit' = [u \in Units |-> FreshUnit]
  /\ node' = "opening"
  /\ UNCHANGED <<checkpoint, contextVersion, passing, memory>>

(* A resumed job needs a checkpoint; its state file is restarted before    *)
(* the checkpoint is written again.                                        *)
OpenResume ==
  /\ node = "idle"
  /\ checkpoint.status # "absent"
  /\ sessions < MaxSessions
  /\ sessions' = sessions + 1
  /\ unit' = RestartUnfinished
  /\ node' = "opening"
  /\ UNCHANGED <<checkpoint, contextVersion, passing, memory>>

(* The checkpoint says "running", then the runtime is built: its attempt   *)
(* counters continue from the act-context files.                           *)
OpenCheckpoint ==
  /\ node = "opening"
  /\ SaveCheckpoint("running")
  /\ node' = "initialize"
  /\ graph' = GraphInput
  /\ attempt' = contextVersion
  /\ tracked' = None
  /\ UNCHANGED <<unit, contextVersion, passing, sessions>>

-----------------------------------------------------------------------------
(* The nodes of MigrationGraph.  Every node first calls record_step, which *)
(* moves current_chain_id, except on the quiet stages without debugging.   *)

Recorded(n) == IF n \in QuietNodes /\ ~DebugModel THEN tracked ELSE graph.chain

Enter(n) == node = n /\ tracked' = Recorded(n)

Initialize ==
  /\ Enter("initialize")
  /\ node' = "select_call_chain"
  /\ UNCHANGED <<disk, graph, attempt, sessions>>

SelectUnit ==
  /\ Enter("select_call_chain")
  /\ \E u \in Ready :
       /\ \A v \in Ready : u <= v
       /\ graph' = [GraphInput EXCEPT !.chain = u]
  /\ node' = "build_context"
  /\ UNCHANGED <<disk, attempt, sessions>>

(* Mutant of SelectNothing: the router ignores that nothing was selected.  *)
SelectNothingAndBuild ==
  /\ Enter("select_call_chain")
  /\ Ready = {}
  /\ graph' = [graph EXCEPT !.chain = None]
  /\ node' = "build_context"
  /\ UNCHANGED <<disk, attempt, sessions>>

SelectNothing ==
  /\ Enter("select_call_chain")
  /\ Ready = {}
  /\ graph' = [graph EXCEPT !.chain = None]
  /\ node' = "project_validate"
  /\ UNCHANGED <<disk, attempt, sessions>>

BuildContext ==
  /\ Enter("build_context")
  /\ graph' = [graph EXCEPT !.retry =
                 IF graph.stratagem = "rebuild_context" THEN @ + 1 ELSE @]
  /\ node' = "reason"
  /\ UNCHANGED <<disk, attempt, sessions>>

(* The report the graph state refers to is on disk and passed.             *)
ObservationPassed == <<graph.chain, graph.observation>> \in passing

(* After a passed observation Reason answers "finish" without a model.     *)
(* Mutant of Answers: the model is asked even when the check passed.       *)
AnswersAlwaysAsked == ReasonActions
Answers == IF ObservationPassed THEN {"finish"} ELSE ReasonActions

(* Mutants of AfterReason: "finish" freezes without looking at the report; *)
(* one repair more than max_retries.                                       *)
AfterReasonTrusting(action) ==
  CASE action = "finish" -> "freeze_chain"
    [] action \in {"replan", "manual_review"} -> "manual_review"
    [] OTHER ->
         IF graph.retry >= MaxRetries THEN "manual_review"
         ELSE IF action = "convert" THEN "act" ELSE "build_context"
AfterReasonOffByOne(action) ==
  CASE action = "finish" ->
         IF ObservationPassed THEN "freeze_chain" ELSE "manual_review"
    [] action \in {"replan", "manual_review"} -> "manual_review"
    [] OTHER ->
         IF graph.retry > MaxRetries THEN "manual_review"
         ELSE IF action = "convert" THEN "act" ELSE "build_context"

AfterReason(action) ==
  CASE action = "finish" ->
         IF ObservationPassed /\ graph.translation # None /\ graph.assembly # None
         THEN "freeze_chain" ELSE "manual_review"
    [] action = "rebuild_context" ->
         IF graph.retry >= MaxRetries THEN "manual_review" ELSE "build_context"
    [] action \in {"replan", "manual_review"} -> "manual_review"
    [] OTHER ->
         IF graph.retry >= MaxRetries THEN "manual_review" ELSE "act"

Reason ==
  /\ Enter("reason")
  /\ \E action \in Answers :
       /\ graph' = [graph EXCEPT !.stratagem = action]
       /\ node' = AfterReason(action)
  /\ UNCHANGED <<disk, attempt, sessions>>

(* Act numbers the attempt, then runs the chunks that are not frozen.  The *)
(* first call of a unit runs every chunk; a later one may find them all    *)
(* frozen, or re-run only chunks with fewer attempts, and then writes no   *)
(* act-context file with a higher number.  A chunk whose run was cut off   *)
(* between its attempt count and its file skips a number, once a session.  *)
ContextAdvance(u) ==
  {contextVersion[u] + k : k \in 1..sessions}
    \cup (IF contextVersion[u] = 0 THEN {} ELSE {contextVersion[u]})

Act ==
  /\ Enter("act")
  /\ \E v \in ContextAdvance(graph.chain) :
       contextVersion' = [contextVersion EXCEPT ![graph.chain] = v]
  /\ attempt' = [attempt EXCEPT ![graph.chain] = @ + 1]
  /\ graph' = [graph EXCEPT !.translation = attempt'[graph.chain]]
  /\ unit' = [unit EXCEPT ![graph.chain].status = "generated",
                          ![graph.chain].translation = attempt'[graph.chain]]
  /\ node' = "assemble"
  /\ UNCHANGED <<checkpoint, passing, sessions>>

Assemble ==
  /\ Enter("assemble")
  /\ graph' = [graph EXCEPT !.assembly = attempt[graph.chain]]
  /\ unit' = [unit EXCEPT ![graph.chain].assembly = attempt[graph.chain]]
  /\ node' = "observe"
  /\ UNCHANGED <<checkpoint, contextVersion, passing, attempt, sessions>>

(* observation-<unit>-<attempt>.json is written, or replaced.              *)
WriteReport(u, n, passed) ==
  passing' = IF passed THEN passing \cup {<<u, n>>} ELSE passing \ {<<u, n>>}

Observe ==
  /\ Enter("observe")
  /\ \E passed \in BOOLEAN :
       /\ WriteReport(graph.chain, attempt[graph.chain], passed)
       /\ graph' = [graph EXCEPT !.observation = attempt[graph.chain],
                                 !.retry = @ + 1]
       /\ unit' = [unit EXCEPT
                     ![graph.chain].status = IF passed THEN "verified" ELSE "failed",
                     ![graph.chain].observation = attempt[graph.chain],
                     ![graph.chain].retry = graph.retry + 1]
  /\ node' = "reason"
  /\ UNCHANGED <<checkpoint, contextVersion, attempt, sessions>>

FreezeChain ==
  /\ Enter("freeze_chain")
  /\ unit' = [unit EXCEPT ![graph.chain].status = "frozen"]
  /\ node' = "select_call_chain"
  /\ UNCHANGED <<checkpoint, contextVersion, passing, graph, attempt, sessions>>

ManualReview ==
  /\ Enter("manual_review")
  /\ unit' = [unit EXCEPT ![graph.chain].status = "manual_review"]
  /\ node' = "select_call_chain"
  /\ UNCHANGED <<checkpoint, contextVersion, passing, graph, attempt, sessions>>

(* project_validate compiles every assembled file again and resolves the   *)
(* imports over their union: units that passed alone pass together.        *)
AllAssembledPassed ==
  \A u \in Units : unit[u].assembly # None => <<u, unit[u].assembly>> \in passing

(* Mutants of ProjectValidate: the project check alone opens the gate; a   *)
(* failed check starts the loop again.                                     *)
ProjectValidateOnly ==
  /\ Enter("project_validate")
  /\ \E passed \in {b \in BOOLEAN : AllAssembledPassed => b} :
       node' = IF passed THEN "publish" ELSE "end"
  /\ UNCHANGED <<disk, graph, attempt, sessions>>
ProjectValidateAgain ==
  /\ Enter("project_validate")
  /\ \E passed \in {b \in BOOLEAN : AllAssembledPassed => b} :
       node' = IF Units # {} /\ Frozen = Units /\ passed THEN "publish"
               ELSE "select_call_chain"
  /\ UNCHANGED <<disk, graph, attempt, sessions>>

ProjectValidate ==
  /\ Enter("project_validate")
  /\ \E passed \in {b \in BOOLEAN : AllAssembledPassed => b} :
       node' = IF Units # {} /\ Frozen = Units /\ passed THEN "publish" ELSE "end"
  /\ UNCHANGED <<disk, graph, attempt, sessions>>

Publish ==
  /\ Enter("publish")
  /\ node' = "end"
  /\ UNCHANGED <<disk, graph, attempt, sessions>>

(* The session, its graph and its runtime go out of scope.                 *)
Leave ==
  /\ node' = "idle"
  /\ graph' = GraphInput
  /\ attempt' = [u \in Units |-> 0]
  /\ tracked' = None

(* MigrationSessionManager.complete, after the graph has returned.         *)
Complete ==
  /\ node = "end"
  /\ SaveCheckpoint(FinalStatus)
  /\ Leave
  /\ UNCHANGED <<unit, contextVersion, passing, sessions>>

-----------------------------------------------------------------------------
(* Exceptions and crashes.                                                 *)

(* An exception leaves a node before or after record_step has run, and the *)
(* files that node was writing may be there: act-context files of an Act,  *)
(* the report of an Observe.                                               *)
PartialEffects ==
  \/ UNCHANGED <<contextVersion, passing>>
  \/ /\ node = "act"
     /\ \E v \in ContextAdvance(graph.chain) :
          contextVersion' = [contextVersion EXCEPT ![graph.chain] = v]
     /\ UNCHANGED passing
  \/ /\ node = "observe"
     /\ \E passed \in BOOLEAN :
          WriteReport(graph.chain, attempt[graph.chain], passed)
     /\ UNCHANGED contextVersion

Raise ==
  /\ node \in GraphNodes
  /\ PartialEffects
  /\ tracked' \in {tracked, Recorded(node)}
  /\ node' = "demote"
  /\ UNCHANGED <<unit, checkpoint, graph, attempt, sessions>>

(* _run_graph: the unit the runtime tracks is marked failed.               *)
Demote ==
  /\ node = "demote"
  /\ unit' = IF tracked = None THEN unit
             ELSE [unit EXCEPT ![tracked].status = "failed"]
  /\ node' = "interrupt"
  /\ UNCHANGED <<checkpoint, contextVersion, passing, memory, sessions>>

(* agent.run: the checkpoint is marked interrupted.                        *)
Interrupt ==
  /\ node = "interrupt"
  /\ SaveCheckpoint("interrupted")
  /\ Leave
  /\ UNCHANGED <<unit, contextVersion, passing, sessions>>

(* The process dies: no handler runs, the disk stays as it is.  An         *)
(* exception in open or in complete, which no handler covers, leaves the   *)
(* same state.                                                             *)
Crash ==
  /\ node # "idle"
  /\ IF node \in GraphNodes THEN PartialEffects
     ELSE UNCHANGED <<contextVersion, passing>>
  /\ Leave
  /\ UNCHANGED <<unit, checkpoint, sessions>>

-----------------------------------------------------------------------------
GraphStep ==
  \/ Initialize \/ SelectUnit \/ SelectNothing \/ BuildContext \/ Reason \/ Act
  \/ Assemble \/ Observe \/ FreezeChain \/ ManualReview
  \/ ProjectValidate \/ Publish

SessionStep == OpenCheckpoint \/ GraphStep \/ Complete \/ Demote \/ Interrupt

Next == OpenNew \/ OpenResume \/ SessionStep \/ Raise \/ Crash

Spec == Init /\ [][Next]_vars

(* A process that lives keeps executing its session; when sessions are     *)
(* opened, and whether they raise or crash, is up to the environment.      *)
FairSpec == Spec /\ WF_vars(SessionStep)

-----------------------------------------------------------------------------
(* Properties.                                                             *)

TypeOK ==
  /\ unit \in [Units -> UnitState]
  /\ checkpoint \in [status : CheckpointStatus, completed : SUBSET Units]
  /\ contextVersion \in [Units -> Nat]
  /\ passing \subseteq Units \X Nat
  /\ node \in Nodes
  /\ graph \in GraphState
  /\ (node \in ChainNodes => graph.chain \in Units)
  /\ attempt \in [Units -> Nat]
  /\ tracked \in MaybeUnit
  /\ sessions \in Nat

OneAttempt(s) == s.translation = s.assembly /\ s.assembly = s.observation

(* A frozen unit has a translation, an assembly and a report of one and    *)
(* the same attempt, and the report on disk says it passed: no crash,      *)
(* retry or resume freezes stale or unchecked code (_after_reason,         *)
(* _freeze_chain against restart_unfinished and the attempt numbering).    *)
FrozenVerified ==
  \A u \in Frozen : /\ HasEvidence(unit[u]) /\ OneAttempt(unit[u])
                    /\ <<u, unit[u].observation>> \in passing

(* What a resume keeps for human review is one complete attempt whose      *)
(* report failed: code that passed its check is never parked, and evidence *)
(* of two attempts is never mixed (restart_unfinished, _manual_review).    *)
ReviewJustified ==
  \A u \in Units : unit[u].status = "manual_review" /\ HasEvidence(unit[u])
     => OneAttempt(unit[u]) /\ <<u, unit[u].observation>> \notin passing

(* The evidence recorded for a decided unit is evidence of that decision:  *)
(* of one attempt, passing when it was frozen and failing when it was      *)
(* parked.                                                                 *)
EvidenceHolds == FrozenVerified /\ ReviewJustified

(* Work in progress is confined to one unit, across crashes too: the graph *)
(* never leaves a unit half done to start another, and a resume leaves no  *)
(* half-done unit behind (select_call_chain, restart_unfinished).          *)
InFlight == {u \in Units : unit[u].status \in {"generated", "verified", "failed"}}
OneInFlight ==
  /\ \A u, v \in InFlight : u = v
  /\ node \in ChainNodes => InFlight \subseteq {graph.chain}

(* Everything the checkpoint file claims is true of the state file, at     *)
(* every point where the process may die between the two writes: listed    *)
(* units are frozen and verified, and "completed" means all of them are    *)
(* (open, interrupt, complete).                                            *)
CheckpointTruthful ==
  /\ checkpoint.completed \subseteq Frozen
  /\ checkpoint.status = "completed" => Frozen = Units

(* The graph ends only when every unit is frozen or handed to review, so   *)
(* the scheduler starves no unit (ready, _after_select).  This holds of a  *)
(* ready that is content with a reviewed dependency; DependenciesAreFrozen *)
(* is what the documents say of it.                                        *)
NothingStarves == node = "end" => Terminal = Units

(* Publishing happens only when all units are frozen and their reports     *)
(* still pass (_after_project_validate).                                   *)
PublishGate == node = "publish" => Frozen = Units /\ AllAssembledPassed

(* docs/matlab-to-python-agent-loop.md:54: the scheduler selects only units *)
(* whose dependencies are frozen.  The code violates it: ready also takes  *)
(* a dependency in manual_review.                                          *)
DependenciesAreFrozen == node \in ChainNodes => DependsOn[graph.chain] \subseteq Frozen

(* What the last nodes take for granted: the graph ends with every unit    *)
(* decided, and publishes only what is frozen and still passes.            *)
EndsDecided == NothingStarves /\ PublishGate

(* Repairs and context rebuilds together stay within max_retries, in the   *)
(* graph and in the state file (the routing of _after_reason).             *)
RetryBudget ==
  /\ graph.retry <= MaxRetries
  /\ \A u \in Units : unit[u].retry <= MaxRetries

(* A unit that the checkpoint lists is out of reach of every later         *)
(* session: neither its state nor its report changes again.                *)
ListedUnitsUntouched ==
  [][\A u \in checkpoint.completed :
       /\ unit'[u] = unit[u]
       /\ {p \in passing' : p[1] = u} = {p \in passing : p[1] = u}]_vars

(* A session that is opened comes to an end: the loop of Reason, Act and   *)
(* Observe, and the loop of context rebuilds, terminate for every answer   *)
(* of the model.                                                           *)
SessionEnds == (node # "idle") ~> (node = "idle")

(* The documentation of resume: a frozen unit stays frozen and is skipped  *)
(* (docs/matlab-to-python-agent-loop.md, section 8).                       *)
FrozenStaysFrozen ==
  [][\A u \in Units : unit[u].status = "frozen" => unit'[u].status = "frozen"]_vars
=============================================================================
