------------------------------ MODULE ActChunks ------------------------------
(***************************************************************************)
(* The Act of one WCC: the chunk plan, the waves of chunk workers, and the *)
(* Reason/Act/Assemble/Observe rounds that use them, over the sessions of  *)
(* one job.                                                                *)
(*                                                                         *)
(* The symbols of the WCC are numbered in the order the plan lists them,   *)
(* so a chunk is an interval <<first, last>>: a split cuts an interval in  *)
(* two and puts the halves where their parent stood in the list.  The plan *)
(* file is rewritten under one lock, so one step of the model is one       *)
(* rewrite; the worker threads of a wave interleave between rewrites.      *)
(***************************************************************************)
EXTENDS Integers, FiniteSets

CONSTANTS
  SymbolCount,    \* symbols of the WCC
  Calls,          \* internal_dependencies: <<caller, callee>>
  Plan,           \* the chunks that ActChunkPlanner.build packed
  Concurrency,    \* chunk_concurrency
  MaxRetries,     \* max_retries of MigrationGraph
  MaxSessions     \* bound: sessions opened on the job

Symbols == 1..SymbolCount
Chunks == {c \in Symbols \X Symbols : c[1] <= c[2]}
SymbolsOf(c) == c[1]..c[2]
Single(c) == c[1] = c[2]
CallsInto(c, d) == \E call \in Calls : call[1] \in SymbolsOf(c) /\ call[2] \in SymbolsOf(d)

ASSUME SymbolCountIsPositive == SymbolCount \in Nat \ {0}
ASSUME CallsAreEdges == Calls \subseteq Symbols \X Symbols
ASSUME PlanPartitions ==
  /\ Plan \subseteq Chunks
  /\ \A s \in Symbols : \E c \in Plan : s \in SymbolsOf(c)
  /\ \A c, d \in Plan : c # d => SymbolsOf(c) \cap SymbolsOf(d) = {}
(* _safe_merge: the packed chunks call each other without a cycle.         *)
ASSUME PlanIsAcyclic ==
  \A S \in SUBSET Plan \ {{}} : \E c \in S : \A d \in S \ {c} : ~CallsInto(c, d)
ASSUME ConcurrencyIsPositive == Concurrency \in Nat \ {0}
ASSUME MaxRetriesIsNat == MaxRetries \in Nat
ASSUME MaxSessionsIsNat == MaxSessions \in Nat

VARIABLES
  \* ---- on disk -------------------------------------------------------
  plan,            \* act-chunks-<wcc>.json
  contextVersion,  \* highest n of act-context-<chunk>-n.json
  directories,     \* the n of generated-python/<wcc>/attempt-<n>
  \* ---- in the process ------------------------------------------------
  main,            \* what the main thread is about to do
  worker,          \* what the worker of every chunk is about to do
  attempt,         \* MigrationRuntime._attempts of the WCC
  retry,           \* retry_count of the graph state
  sessions         \* sessions opened so far (bounds the model)

disk == <<plan, contextVersion, directories>>
process == <<main, worker, attempt, retry>>
vars == <<plan, contextVersion, directories, main, worker, attempt, retry, sessions>>

ChunkStatus == {"pending", "running", "frozen", "failed", "superseded"}
Chunk == [status : ChunkStatus \cup {"absent"}, deps : SUBSET Chunks,
          attempts : Nat, translation : Nat]
Absent == [status |-> "absent", deps |-> {}, attempts |-> 0, translation |-> 0]
NewChunk(deps) == [Absent EXCEPT !.status = "pending", !.deps = deps]

MainPhase == {"idle", "reason", "prepare", "schedule", "wave", "aggregate",
              "assemble", "observe", "frozen", "review"}
WorkerPhase == {"none", "queued", "context", "model", "frozen", "failing",
                "splitting", "finished", "failed"}
Ended == {"idle", "frozen", "review"}

-----------------------------------------------------------------------------
(* ActChunkStore and ActChunkPlanner.split.                                *)

Leaves == {c \in Chunks : plan[c].status \notin {"absent", "superseded"}}
FrozenChunks == {c \in Chunks : plan[c].status = "frozen"}
FailedSingles == {c \in Leaves : plan[c].status = "failed" /\ Single(c)}
Ready == {c \in Chunks : plan[c].status = "pending" /\ plan[c].deps \subseteq FrozenChunks}

(* The first k chunks of the plan's list among S.                          *)
FirstOf(k, S) == {c \in S : Cardinality({d \in S : d[1] < c[1]}) < k}

Left(c) == <<c[1], c[1] + (c[2] - c[1]) \div 2>>
Right(c) == <<c[1] + (c[2] - c[1]) \div 2 + 1, c[2]>>
CallBothWays(a, b) == CallsInto(a, b) /\ CallsInto(b, a)

InitialPlan ==
  [c \in Chunks |->
     IF c \in Plan THEN NewChunk({d \in Plan \ {c} : CallsInto(c, d)}) ELSE Absent]

(* The halves inherit the dependencies of their parent, and the calling    *)
(* half waits for the called one; whoever waited for the parent waits for  *)
(* both halves.                                                            *)
(* Mutants of HalfDeps: halves that call each other wait for each other;   *)
(* the called half waits for the calling one.                              *)
HalfDepsCyclic(c, half, other) ==
  plan[c].deps \cup (IF CallsInto(half, other) THEN {other} ELSE {})
HalfDepsSwapped(c, half, other) ==
  plan[c].deps \cup
    (IF CallsInto(other, half) /\ ~CallBothWays(half, other) THEN {other} ELSE {})
HalfDeps(c, half, other) ==
  plan[c].deps \cup
    (IF CallsInto(half, other) /\ ~CallBothWays(half, other) THEN {other} ELSE {})
Renamed(deps, c) == IF c \in deps THEN (deps \ {c}) \cup {Left(c), Right(c)} ELSE deps

(* Mutant of Split: the parent stays in the plan as a failed chunk.        *)
SplitKeepingParent(c) ==
  [d \in Chunks |->
     CASE d = c -> plan[c]
       [] d = Left(c) -> NewChunk(HalfDeps(c, Left(c), Right(c)))
       [] d = Right(c) -> NewChunk(HalfDeps(c, Right(c), Left(c)))
       [] OTHER -> [plan[d] EXCEPT !.deps = Renamed(@, c)]]
Split(c) ==
  [d \in Chunks |->
     CASE d = c -> [plan[c] EXCEPT !.status = "superseded"]
       [] d = Left(c) -> NewChunk(HalfDeps(c, Left(c), Right(c)))
       [] d = Right(c) -> NewChunk(HalfDeps(c, Right(c), Left(c)))
       [] OTHER -> [plan[d] EXCEPT !.deps = Renamed(@, c)]]

Update(c, status) == [plan EXCEPT ![c].status = status]

-----------------------------------------------------------------------------
(* Sessions.                                                               *)

NoWorkers == [c \in Chunks |-> "none"]

Init ==
  /\ plan = [c \in Chunks |-> Absent]
  /\ contextVersion = 0
  /\ directories = {}
  /\ main = "idle"
  /\ worker = NoWorkers
  /\ attempt = 0
  /\ retry = 0
  /\ sessions = 0

(* A new or resumed session: the attempt number continues from the         *)
(* act-context files, the unit starts with a fresh retry count.            *)
LastVersion == contextVersion

Open ==
  /\ main = "idle"
  /\ sessions < MaxSessions
  /\ sessions' = sessions + 1
  /\ main' = "reason"
  /\ attempt' = LastVersion
  /\ retry' = 0
  /\ UNCHANGED <<disk, worker>>

(* Reason asks for a conversion: act numbers the attempt and creates the   *)
(* plan unless an earlier call already did.                                *)
(* Mutant of InitializePlan: every call plans anew.                        *)
PlanAnew == InitialPlan
InitializePlan == IF Leaves = {} THEN InitialPlan ELSE plan

Act ==
  /\ main = "reason"
  /\ retry < MaxRetries
  /\ attempt' = attempt + 1
  /\ plan' = InitializePlan
  /\ main' = "prepare"
  /\ UNCHANGED <<contextVersion, directories, worker, retry, sessions>>

(* Reason hands the WCC to review, or the retries are used up.             *)
ManualReview ==
  /\ main = "reason"
  /\ main' = "review"
  /\ UNCHANGED <<disk, worker, attempt, retry, sessions>>

(* _prepare_failed_chunks: leaves an earlier process left running become   *)
(* failed; failed leaves are split, or retried when they are one symbol.   *)
(* Mutant of Unprepared: running leaves are overlooked.                    *)
UnpreparedFailed == {c \in Leaves : plan[c].status = "failed"}
Unprepared == {c \in Leaves : plan[c].status \in {"running", "failed"}}

Prepare ==
  /\ main = "prepare"
  /\ \E c \in FirstOf(1, Unprepared) :
       plan' = CASE plan[c].status = "running" -> Update(c, "failed")
                 [] plan[c].status = "failed" /\ Single(c) -> Update(c, "pending")
                 [] OTHER -> Split(c)
  /\ UNCHANGED <<contextVersion, directories, process, sessions>>

Prepared ==
  /\ main = "prepare"
  /\ Unprepared = {}
  /\ main' = "schedule"
  /\ UNCHANGED <<disk, worker, attempt, retry, sessions>>

-----------------------------------------------------------------------------
(* _run_chunks: the waves.                                                 *)

StartWave ==
  /\ main = "schedule"
  /\ Ready # {}
  /\ worker' = [c \in Chunks |->
                  IF c \in FirstOf(Concurrency, Ready) THEN "queued" ELSE "none"]
  /\ main' = "wave"
  /\ UNCHANGED <<disk, attempt, retry, sessions>>

AllFrozen ==
  /\ main = "schedule"
  /\ Leaves \subseteq FrozenChunks
  /\ main' = "aggregate"
  /\ UNCHANGED <<disk, worker, attempt, retry, sessions>>

WaveOver == main = "wave" /\ \A c \in Chunks : worker[c] \in {"none", "finished", "failed"}

(* Mutant of WaveFailed: a failed symbol does not end the call.            *)
WaveFailedNever == FALSE
WaveFailed == FailedSingles # {} /\ \E c \in Chunks : worker[c] = "failed"

(* After the wave the call goes on, or it raises because a chunk of one    *)
(* symbol failed: the session is interrupted.  Ctrl+C while a worker is    *)
(* waited for is collected as an error of that worker, and changes nothing *)
(* of this: it is no step of the model.                                    *)
EndWave ==
  /\ WaveOver
  /\ worker' = NoWorkers
  /\ main' = IF WaveFailed THEN "idle" ELSE "schedule"
  /\ UNCHANGED <<disk, attempt, retry, sessions>>

-----------------------------------------------------------------------------
(* _run_chunk: the steps of the worker of chunk c.                         *)

Move(c, from, to) ==
  /\ worker[c] = from
  /\ worker' = [worker EXCEPT ![c] = to]
  /\ UNCHANGED <<directories, main, attempt, retry, sessions>>

StartChunk(c) ==
  /\ Move(c, "queued", "context")
  /\ plan' = [plan EXCEPT ![c].status = "running", ![c].attempts = @ + 1]
  /\ UNCHANGED contextVersion

WriteContext(c) ==
  /\ Move(c, "context", "model")
  /\ contextVersion' = IF plan[c].attempts > contextVersion
                       THEN plan[c].attempts ELSE contextVersion
  /\ UNCHANGED plan

(* The model answered, translation and interface are written.              *)
FreezeChunk(c) ==
  /\ Move(c, "model", "frozen")
  /\ plan' = [plan EXCEPT ![c].status = "frozen", ![c].translation = plan[c].attempts]
  /\ UNCHANGED contextVersion

FinishChunk(c) ==
  /\ Move(c, "frozen", "finished")
  /\ UNCHANGED <<plan, contextVersion>>

(* The context is too large, the model call or its validation fails, or    *)
(* the progress file cannot be written after the freeze.                   *)
ChunkRaises(c) ==
  /\ \E from \in {"context", "model", "frozen"} : Move(c, from, "failing")
  /\ UNCHANGED <<plan, contextVersion>>

FailChunk(c) ==
  /\ Move(c, "failing", IF Single(c) THEN "failed" ELSE "splitting")
  /\ plan' = Update(c, "failed")
  /\ UNCHANGED contextVersion

SplitChunk(c) ==
  /\ Move(c, "splitting", "finished")
  /\ plan' = Split(c)
  /\ UNCHANGED contextVersion

WorkerStep(c) ==
  \/ StartChunk(c) \/ WriteContext(c) \/ FreezeChunk(c) \/ FinishChunk(c)
  \/ ChunkRaises(c) \/ FailChunk(c) \/ SplitChunk(c)

-----------------------------------------------------------------------------
(* After the chunks.                                                       *)

Aggregate ==
  /\ main = "aggregate"
  /\ main' = "assemble"
  /\ UNCHANGED <<disk, worker, attempt, retry, sessions>>

Assemble ==
  /\ main = "assemble"
  /\ directories' = directories \cup {attempt}
  /\ main' = "observe"
  /\ UNCHANGED <<plan, contextVersion, worker, attempt, retry, sessions>>

ObservePass ==
  /\ main = "observe"
  /\ main' = "frozen"
  /\ retry' = retry + 1
  /\ UNCHANGED <<disk, worker, attempt, sessions>>

(* _mark_observation_failures: a syntax failure marks the leaves whose     *)
(* files it names, an unresolved import marks none.                        *)
ObserveFail ==
  /\ main = "observe"
  /\ \E located \in SUBSET (Leaves \cap FrozenChunks) :
       plan' = [c \in Chunks |->
                  IF c \in located THEN [plan[c] EXCEPT !.status = "failed"] ELSE plan[c]]
  /\ main' = "reason"
  /\ retry' = retry + 1
  /\ UNCHANGED <<contextVersion, directories, worker, attempt, sessions>>

-----------------------------------------------------------------------------
(* Exceptions and crashes.                                                 *)

(* An exception of the main thread outside a wave: the model call of       *)
(* Reason, a wave that cannot start, an aggregate that does not cover the  *)
(* WCC, files in the way of the assembler, Ctrl+C.                         *)
Raise ==
  /\ main \notin Ended \cup {"wave"}
  /\ \/ main = "assemble" /\ directories' = directories \cup {attempt}
     \/ UNCHANGED directories
  /\ main' = "idle"
  /\ UNCHANGED <<plan, contextVersion, worker, attempt, retry, sessions>>

(* The process dies, with its workers.                                     *)
Crash ==
  /\ main \notin Ended
  /\ main' = "idle"
  /\ worker' = NoWorkers
  /\ UNCHANGED <<disk, attempt, retry, sessions>>

-----------------------------------------------------------------------------
SessionStep ==
  \/ Act \/ ManualReview \/ Prepare \/ Prepared \/ StartWave \/ AllFrozen \/ EndWave
  \/ Aggregate \/ Assemble \/ ObservePass \/ ObserveFail
  \/ \E c \in Chunks : WorkerStep(c)

Next == Open \/ SessionStep \/ Raise \/ Crash

Spec == Init /\ [][Next]_vars

(* Threads that live keep running and every model call ends, answered or   *)
(* not (the client's timeouts).                                            *)
FairSpec == Spec /\ WF_vars(SessionStep)

-----------------------------------------------------------------------------
(* Properties.                                                             *)

TypeOK ==
  /\ plan \in [Chunks -> Chunk]
  /\ contextVersion \in Nat
  /\ directories \subseteq Nat
  /\ main \in MainPhase
  /\ worker \in [Chunks -> WorkerPhase]
  /\ attempt \in Nat
  /\ retry \in Nat
  /\ sessions \in Nat

(* Through every split, retry, crash and resume each symbol of the WCC is  *)
(* in exactly one leaf: nothing is dropped from the aggregate and nothing  *)
(* is translated twice (split, leaves, _aggregate_chunks).                 *)
LeavesPartition ==
  Leaves # {} => \A s \in Symbols : Cardinality({c \in Leaves : s \in SymbolsOf(c)}) = 1

(* The scheduler always finds a chunk to run until all are frozen: splits  *)
(* leave no cycle and no dependency on a superseded chunk, so "the chunk   *)
(* graph cannot be scheduled" (_run_chunks) never happens.                 *)
SchedulerNeverStuck ==
  main = "schedule" => Ready # {} \/ Leaves \subseteq FrozenChunks

(* The plan in the file is well typed, a partition of the symbols, and can *)
(* be scheduled to its end.                                                *)
PlanIsSound == TypeOK /\ LeavesPartition /\ SchedulerNeverStuck

(* A chunk runs after the chunks it calls, except between halves of one    *)
(* chunk that called each other when it was split; siblings of the same    *)
(* wave never invalidate that while it runs (ready, split, _run_chunk).    *)
SplitMutually(s, t) ==
  \E c \in Chunks : /\ plan[c].status = "superseded"
                    /\ CallBothWays(Left(c), Right(c))
                    /\ \/ s \in SymbolsOf(Left(c)) /\ t \in SymbolsOf(Right(c))
                       \/ s \in SymbolsOf(Right(c)) /\ t \in SymbolsOf(Left(c))
CallersWait ==
  \A c \in Chunks, call \in Calls :
     worker[c] \in {"context", "model"} /\ call[1] \in SymbolsOf(c) =>
       \/ call[2] \in SymbolsOf(c)
       \/ \E d \in FrozenChunks : call[2] \in SymbolsOf(d)
       \/ SplitMutually(call[1], call[2])

(* A chunk is "running" in the plan file exactly while a live worker runs  *)
(* it, once an Act call has prepared the plan: a crash leaves no chunk     *)
(* that waits for a thread that is gone (_prepare_failed_chunks).          *)
RunningHasWorker ==
  main \in {"schedule", "wave", "aggregate", "assemble", "observe"} =>
    \A c \in Leaves : plan[c].status = "running" =>
                        worker[c] \in {"context", "model", "failing"}

(* A frozen chunk that the Observation does not blame and no worker owns   *)
(* keeps its status and its translation, whatever its siblings do and      *)
(* across resumes (initialize, _prepare_failed_chunks, split).             *)
FrozenChunksKept ==
  [][\A c \in FrozenChunks :
       \/ plan'[c].status = "frozen" /\ plan'[c].translation = plan[c].translation
       \/ main = "observe" \/ worker[c] = "failing"]_vars

(* The rounds of an opened session end: splits are bounded by the symbols  *)
(* and repairs by max_retries (_run_chunks, _after_reason).                *)
SessionEnds == main \notin Ended ~> main \in Ended
=============================================================================
