------------------------------ MODULE Workflow ------------------------------
(***************************************************************************)
(* MainWorkflow and AnalysisPipeline: the rows of jobs and tasks in the    *)
(* database, the scan, the chunks parsed side by side on a thread pool,    *)
(* their aggregation, the analysis, the code tree and the agent that       *)
(* follows, with files that come and go, workers, gates and writes that    *)
(* raise, interrupts and dying processes.                                  *)
(* One process works on the database at a time.                            *)
(***************************************************************************)
EXTENDS Integers, Sequences, FiniteSets, TLC

CONSTANTS
  Files,          \* paths the project may hold, in sorted order 1 .. Files
  ChunkSize,      \* parser_chunk_size
  MaxWorkers,     \* max_workers of the pool
  MaxJobs,        \* bound: jobs of the database
  MaxRuns,        \* bound: those that start with a scan
  MaxFaults,      \* bound: database writes that fail
  MaxStops,       \* bound: interrupts and deaths of the process
  MaxChanges,     \* bound: files that come or go
  MaxResumes      \* bound: resumed runs

ASSUME BoundsAssumption ==
  /\ Files \in Nat /\ ChunkSize \in Nat \ {0} /\ MaxWorkers \in Nat \ {0}
  /\ MaxJobs \in Nat \ {0} /\ MaxRuns \in 0 .. MaxJobs
  /\ {MaxFaults, MaxStops, MaxChanges, MaxResumes} \subseteq Nat

VARIABLES
  disk,       \* what every path is: "file", "directory" (called x.m) or "absent"
  row,        \* jobs table: status, and what the error of a job says
  tasks,      \* tasks table: status of every task of every job
  target,     \* what a job was started for
  manifest,   \* file-manifest.json of a job
  parsed,     \* parse-chunk-*.json of a job: the files of every chunk
  scan,       \* scan-result.json of a job
  analysed,   \* jobs that have an analysis-result.json
  tree,       \* jobs that have a structural-code-tree.json
  checkpoint, \* jobs whose agent has begun and left a checkpoint
  job,        \* the job the process works on
  pc,         \* where its main thread is
  step,       \* where every task of the process is
  collected,  \* results executor.map has returned
  reason,     \* what the exception under way, or the end of a call, says
  faults, stops, changes, resumes

rows == <<row, tasks>>
artifacts == <<manifest, parsed, scan, analysed, tree, checkpoint>>
thread == <<job, pc, collected, reason>>
counters == <<faults, stops, changes, resumes>>
vars == <<disk, row, tasks, target, artifacts, thread, step, counters>>

Jobs == 1 .. MaxJobs
Absent == {0}     \* no artifact yet
Chunks == 1 .. (Files + ChunkSize - 1) \div ChunkSize
MainTask == [scan |-> 0, aggregate |-> -1, analyze |-> -2]
MainTasks == {MainTask[at] : at \in DOMAIN MainTask}
Tasks == MainTasks \cup Chunks
Active == {"save", "start", "work", "finish", "failing"}
Targets == {"scan", "analyze", "convert"}   \* annotate goes the way of convert

Listed == {f \in 1 .. Files : disk[f] # "absent"}
Ordered(files) == SelectSeq([f \in 1 .. Files |-> f], LAMBDA f : f \in files)
ChunksOf(j) == {c \in Chunks : (c - 1) * ChunkSize < Cardinality(manifest[j])}
ChunkFiles(j, c) ==
  {Ordered(manifest[j])[i] :
     i \in {i \in 1 .. Cardinality(manifest[j]) : (i - 1) \div ChunkSize = c - 1}}
Busy == {t \in Tasks : step[t] \in Active}
Queued == {t \in Tasks : step[t] = "queued"}

Init ==
  /\ \E odd \in 1 .. Files, kind \in {"file", "directory", "absent"} :
       disk = [f \in 1 .. Files |-> IF f = odd THEN kind ELSE "file"]
  /\ row = [j \in Jobs |-> [status |-> "none", error |-> "none"]]
  /\ tasks = [j \in Jobs |-> [t \in Tasks |-> "none"]]
  /\ target = [j \in Jobs |-> "scan"]
  /\ manifest = [j \in Jobs |-> {}]
  /\ parsed = [j \in Jobs |-> [c \in Chunks |-> Absent]]
  /\ scan = [j \in Jobs |-> Absent]
  /\ analysed = {} /\ tree = {} /\ checkpoint = {}
  /\ job = 1 /\ pc = "idle" /\ collected = 0 /\ reason = "none"
  /\ step = [t \in Tasks |-> "none"]
  /\ faults = 0 /\ stops = 0 /\ changes = 0 /\ resumes = 0

-----------------------------------------------------------------------------
(* Jobs.                                                                   *)

SetJob(j, status, error) == row' = [row EXCEPT ![j] = [status |-> status, error |-> error]]
Restart(j, at) ==
  /\ job' = j /\ pc' = at /\ collected' = 0 /\ reason' = "none"
  /\ step' = [t \in Tasks |-> "none"]

(* _run: a new job, whose id no row has; ids are taken in order.           *)
Fresh(j) == row[j].status = "none" /\ \A i \in 1 .. j - 1 : row[i].status # "none"
Run(j) ==
  /\ pc = "idle" /\ Busy = {} /\ Fresh(j) /\ j <= MaxRuns
  /\ SetJob(j, "pending", "none")
  /\ \E wanted \in Targets : target' = [target EXCEPT ![j] = wanted]
  /\ Restart(j, "run")
  /\ UNCHANGED <<disk, tasks, artifacts, counters>>

(* run_matlab_to_python_from_analysis: a job of its own on the scan and    *)
(* the analysis of another one; it has no tasks.                           *)
RunFromAnalysis(j, from) ==
  /\ pc = "idle" /\ Busy = {} /\ Fresh(j)
  /\ from \in analysed
  /\ SetJob(j, "pending", "none")
  /\ target' = [target EXCEPT ![j] = "snapshot"]
  /\ manifest' = [manifest EXCEPT ![j] = manifest[from]]
  /\ scan' = [scan EXCEPT ![j] = scan[from]]
  /\ Restart(j, "convert")
  /\ UNCHANGED <<disk, tasks, parsed, analysed, tree, checkpoint, counters>>

(* Resuming: the job has a checkpoint and the files are those of its scan, *)
(* or else it raises before the job is touched.                            *)
Unchanged(j) == scan[j] = Listed
Resume(j) ==
  /\ pc = "idle" /\ Busy = {} /\ j \in checkpoint /\ Unchanged(j)
  /\ resumes < MaxResumes
  /\ SetJob(j, "running", "none")
  /\ Restart(j, "agent")
  /\ resumes' = resumes + 1
  /\ UNCHANGED <<disk, tasks, target, artifacts, faults, stops, changes>>

(* _execute_job marks the row before it enters its try.                    *)
MarkRunning ==
  /\ pc \in {"run", "convert"}
  /\ SetJob(job, "running", "none")
  /\ IF pc = "run"
     THEN pc' = "scan" /\ step' = [step EXCEPT ![MainTask.scan] = "save"]
     ELSE pc' = "agent" /\ UNCHANGED step
  /\ UNCHANGED <<disk, tasks, target, artifacts, job, collected, reason, counters>>

(* The call is over; what is left of it is what the pool still runs.       *)
Return(why) ==
  /\ pc' = "idle" /\ collected' = 0 /\ reason' = why /\ UNCHANGED job
  /\ step' = [t \in Tasks |-> IF t \in Busy THEN step[t] ELSE "none"]

Completed ==
  /\ pc = "completing"
  /\ SetJob(job, "completed", "none") /\ Return("none")
  /\ UNCHANGED <<disk, tasks, target, artifacts, counters>>

Raised ==
  /\ pc = "raising"
  /\ SetJob(job, "failed", reason) /\ Return("none")
  /\ UNCHANGED <<disk, tasks, target, artifacts, counters>>

-----------------------------------------------------------------------------
(* One task, on the main thread or on one of the pool (_execute).          *)

Mark(t, status) == tasks' = [tasks EXCEPT ![job][t] = status]
Move(t, to) == step' = [step EXCEPT ![t] = to]

SaveTask(t) ==
  /\ step[t] = "save"
  /\ Mark(t, "pending") /\ Move(t, "start")
  /\ UNCHANGED <<disk, row, target, artifacts, thread, counters>>

StartTask(t) ==
  /\ step[t] = "start"
  /\ Mark(t, "running") /\ Move(t, "work")
  /\ UNCHANGED <<disk, row, target, artifacts, thread, counters>>

FinishTask(t) ==
  /\ step[t] = "finish"
  /\ Mark(t, "completed") /\ Move(t, "ok")
  /\ UNCHANGED <<disk, row, target, artifacts, thread, counters>>

FailTask(t) ==
  /\ step[t] = "failing"
  /\ Mark(t, "failed") /\ Move(t, "failed")
  /\ UNCHANGED <<disk, row, target, artifacts, thread, counters>>

(* Whatever a worker, its artifact or the gate may raise on is raised      *)
(* before anything is written (the root is no directory, a listed path is  *)
(* no file, a write fails) or after it (Written).                          *)
(* Mutant of WorkRaises: the handler of _execute lets it pass.             *)
WorkRaisesUncaught(t) ==
  /\ step[t] = "work"
  /\ Move(t, "lost")
  /\ UNCHANGED <<disk, rows, target, artifacts, thread, counters>>
WorkRaises(t) ==
  /\ step[t] = "work"
  /\ Move(t, "failing")
  /\ UNCHANGED <<disk, rows, target, artifacts, thread, counters>>

(* The artifact is there: the gate passes it, or raises.                   *)
Written(t) == step[t] = "work" /\ \E to \in {"finish", "failing"} : Move(t, to)

(* ScannerWorker lists every path that matches, directories too.           *)
Scan ==
  /\ Written(MainTask.scan)
  /\ manifest' = [manifest EXCEPT ![job] = Listed]
  /\ UNCHANGED <<disk, rows, target, parsed, scan, analysed, tree, checkpoint, thread, counters>>

(* ParserWorker._parse_chunk: every listed path must be a file by now.     *)
ParseChunk(c) ==
  /\ Written(c)
  /\ \A f \in ChunkFiles(job, c) : disk[f] = "file"
  /\ parsed' = [parsed EXCEPT ![job][c] = ChunkFiles(job, c)]
  /\ UNCHANGED <<disk, rows, target, manifest, scan, analysed, tree, checkpoint, thread, counters>>

(* ParserWorker._aggregate: what was parsed must be the manifest, which it *)
(* is in every run of the pipeline: it gets here with every chunk.         *)
Aggregate ==
  /\ Written(MainTask.aggregate)
  /\ UNION {parsed[job][c] : c \in ChunksOf(job)} = manifest[job]
  /\ scan' = [scan EXCEPT ![job] = UNION {parsed[job][c] : c \in ChunksOf(job)}]
  /\ UNCHANGED <<disk, rows, target, manifest, parsed, analysed, tree, checkpoint, thread, counters>>

Analyze ==
  /\ Written(MainTask.analyze)
  /\ analysed' = analysed \cup {job}
  /\ UNCHANGED <<disk, rows, target, manifest, parsed, scan, tree, checkpoint, thread, counters>>

-----------------------------------------------------------------------------
(* The pipeline.                                                           *)

Submit(at) == pc' = at /\ Move(MainTask[at], "save")

(* The scan is over: one task per chunk is handed to the pool.             *)
AfterScan ==
  /\ pc = "scan" /\ step[MainTask.scan] = "ok"
  /\ pc' = "parse"
  /\ step' = [t \in Tasks |-> IF t \in ChunksOf(job) THEN "queued" ELSE step[t]]
  /\ UNCHANGED <<disk, rows, target, artifacts, job, collected, reason, counters>>

(* A thread of the pool takes the chunk that has waited longest.           *)
TakeChunk(c) ==
  /\ step[c] = "queued"
  /\ \A d \in Queued : c <= d
  /\ Cardinality(Busy) < MaxWorkers
  /\ Move(c, "save")
  /\ UNCHANGED <<disk, rows, target, artifacts, thread, counters>>

(* executor.map returns the results in order.  At the first exception it   *)
(* cancels what no thread has taken, and the pool waits for the rest.      *)
(* Mutant of Collect: an exception is waited for as if it were a result.   *)
CollectResults ==
  /\ pc = "parse" /\ collected < Cardinality(ChunksOf(job))
  /\ step[collected + 1] = "ok"
  /\ collected' = collected + 1
  /\ UNCHANGED <<disk, rows, target, artifacts, job, pc, reason, step, counters>>
Collect ==
  /\ pc = "parse" /\ collected < Cardinality(ChunksOf(job))
  /\ \/ /\ step[collected + 1] = "ok"
        /\ collected' = collected + 1
        /\ UNCHANGED <<pc, reason, step>>
     \/ /\ step[collected + 1] \in {"failed", "lost"}
        /\ reason' = (IF step[collected + 1] = "lost" THEN "database" ELSE "worker")
        /\ pc' = "draining"
        /\ step' = [t \in Tasks |-> IF t \in Queued THEN "cancelled" ELSE step[t]]
        /\ UNCHANGED collected
  /\ UNCHANGED <<disk, rows, target, artifacts, job, counters>>

(* Mutant of Drained: the pool does not wait for its threads.              *)
DrainedAtOnce ==
  /\ pc = "draining"
  /\ pc' = "raising"
  /\ UNCHANGED <<disk, rows, target, artifacts, job, collected, reason, step, counters>>
Drained ==
  /\ pc = "draining" /\ Busy = {}
  /\ pc' = "raising"
  /\ UNCHANGED <<disk, rows, target, artifacts, job, collected, reason, step, counters>>

(* Mutant of AfterParse: it does not wait for the results.                 *)
AfterParseAtOnce ==
  /\ pc = "parse" /\ Queued = {}
  /\ Submit("aggregate")
  /\ UNCHANGED <<disk, rows, target, artifacts, job, collected, reason, counters>>
AfterParse ==
  /\ pc = "parse" /\ collected = Cardinality(ChunksOf(job))
  /\ Submit("aggregate")
  /\ UNCHANGED <<disk, rows, target, artifacts, job, collected, reason, counters>>

AfterAggregate ==
  /\ pc = "aggregate" /\ step[MainTask.aggregate] = "ok"
  /\ IF target[job] = "scan" THEN pc' = "completing" /\ UNCHANGED step
     ELSE Submit("analyze")
  /\ UNCHANGED <<disk, rows, target, artifacts, job, collected, reason, counters>>

(* The task of the analysis is completed before the code tree is written.  *)
(* Mutant: the job goes on without it.                                     *)
AfterAnalyzeNoTree ==
  /\ pc = "analyze" /\ step[MainTask.analyze] = "ok"
  /\ pc' = IF target[job] = "analyze" THEN "completing" ELSE "agent"
  /\ UNCHANGED <<disk, rows, target, artifacts, job, collected, reason, step, counters>>
AfterAnalyze ==
  /\ pc = "analyze" /\ step[MainTask.analyze] = "ok"
  /\ tree' = tree \cup {job}
  /\ pc' = IF target[job] = "analyze" THEN "completing" ELSE "agent"
  /\ UNCHANGED <<disk, rows, target, manifest, parsed, scan, analysed, checkpoint>>
  /\ UNCHANGED <<job, collected, reason, step, counters>>

(* Between tasks the pipeline raises too: the manifest or the analysis is  *)
(* read back, the tree is built and written, all outside _execute.         *)
PipelineRaises ==
  /\ pc \in {"scan", "analyze"} /\ step[MainTask[pc]] = "ok"
  /\ pc' = "raising" /\ reason' = "worker"
  /\ UNCHANGED <<disk, rows, target, artifacts, job, collected, step, counters>>

(* A task of the main thread has raised.                                   *)
TaskRaised ==
  /\ pc \in DOMAIN MainTask /\ step[MainTask[pc]] \in {"failed", "lost"}
  /\ pc' = "raising"
  /\ reason' = IF step[MainTask[pc]] = "lost" THEN "database" ELSE "worker"
  /\ UNCHANGED <<disk, rows, target, artifacts, job, collected, step, counters>>

(* The agent (SemanticGraph, MigrationLoop) leaves its checkpoint and then *)
(* returns or raises; its preparation may raise before that.               *)
BeginAgent ==
  /\ pc = "agent" /\ job \notin checkpoint
  /\ checkpoint' = checkpoint \cup {job}
  /\ UNCHANGED <<disk, rows, target, manifest, parsed, scan, analysed, tree, thread, step, counters>>

EndAgent ==
  /\ pc = "agent"
  /\ \/ job \in checkpoint /\ pc' = "completing" /\ UNCHANGED reason
     \/ pc' = "raising" /\ reason' = "agent"
  /\ UNCHANGED <<disk, rows, target, artifacts, job, collected, step, counters>>

-----------------------------------------------------------------------------
(* What goes wrong.                                                        *)

(* A write to the database raises (it is locked or full): a task is lost   *)
(* at the write it was at, within the try of _execute it then fails.       *)
TaskWriteFails(t) ==
  /\ faults < MaxFaults
  /\ \/ step[t] \in {"save", "start", "failing"} /\ Move(t, "lost")
     \/ step[t] = "finish" /\ Move(t, "failing")
  /\ faults' = faults + 1
  /\ UNCHANGED <<disk, rows, target, artifacts, thread, stops, changes, resumes>>

(* The row stays what it was, whatever became of the job, unless it was    *)
(* the write inside the try of _execute_job.                               *)
JobWriteFails ==
  /\ faults < MaxFaults /\ pc \in {"run", "convert", "completing", "raising"}
  /\ IF pc = "completing"
     THEN pc' = "raising" /\ reason' = "database" /\ UNCHANGED <<job, collected, step>>
     ELSE Return("unwritten")
  /\ faults' = faults + 1
  /\ UNCHANGED <<disk, rows, target, artifacts, stops, changes, resumes>>

(* Ctrl-C reaches the main thread inside the try of _execute_job: what it  *)
(* ran itself is dropped, for _execute catches Exception only; the pool    *)
(* cancels what waits and is waited for, unless it is being waited for     *)
(* already.  During a write of the row it does what JobWriteFails does.    *)
Interrupt ==
  /\ stops < MaxStops
  /\ pc \in {"scan", "parse", "draining", "aggregate", "analyze", "agent", "completing"}
  /\ reason' = "interrupted"
  /\ pc' = IF pc = "parse" THEN "draining" ELSE "raising"
  /\ step' = [t \in Tasks |-> IF t \in Queued THEN "cancelled"
                              ELSE IF t \in Busy /\ t \notin Chunks THEN "dropped"
                              ELSE step[t]]
  /\ stops' = stops + 1
  /\ UNCHANGED <<disk, rows, target, artifacts, job, collected, faults, changes, resumes>>

Die ==
  /\ stops < MaxStops /\ pc # "idle"
  /\ pc' = "idle" /\ collected' = 0 /\ reason' = "died" /\ UNCHANGED job
  /\ step' = [t \in Tasks |-> "none"]
  /\ stops' = stops + 1
  /\ UNCHANGED <<disk, rows, target, artifacts, faults, changes, resumes>>

FileChanges(f) ==
  /\ changes < MaxChanges /\ disk[f] # "directory"
  /\ disk' = [disk EXCEPT ![f] = IF @ = "file" THEN "absent" ELSE "file"]
  /\ changes' = changes + 1
  /\ UNCHANGED <<rows, target, artifacts, thread, step, faults, stops, resumes>>

-----------------------------------------------------------------------------
TaskStep(t) ==
  SaveTask(t) \/ StartTask(t) \/ WorkRaises(t) \/ FinishTask(t) \/ FailTask(t)
PoolStep(c) == TakeChunk(c) \/ TaskStep(c) \/ ParseChunk(c)
MainStep ==
  \/ MarkRunning \/ Completed \/ Raised
  \/ \E t \in MainTasks : TaskStep(t)
  \/ Scan \/ Aggregate \/ Analyze
  \/ AfterScan \/ Collect \/ Drained \/ AfterParse \/ AfterAggregate \/ AfterAnalyze
  \/ PipelineRaises \/ TaskRaised \/ BeginAgent \/ EndAgent

Next ==
  \/ \E j \in Jobs : Run(j) \/ Resume(j) \/ \E from \in Jobs : RunFromAnalysis(j, from)
  \/ MainStep
  \/ \E c \in Chunks : PoolStep(c)
  \/ \E t \in Tasks : TaskWriteFails(t)
  \/ JobWriteFails \/ Interrupt \/ Die
  \/ \E f \in 1 .. Files : FileChanges(f)

(* A process runs on until it dies: its threads are scheduled by the       *)
(* system.  Nothing makes anyone start or resume a job.                    *)
Fairness == WF_vars(MainStep) /\ \A c \in Chunks : WF_vars(PoolStep(c))
Spec == Init /\ [][Next]_vars /\ Fairness

-----------------------------------------------------------------------------
(* Properties.                                                             *)

TypeOK ==
  /\ \A j \in Jobs : /\ row[j].status \in {"none", "pending", "running", "completed", "failed"}
                     /\ scan[j] \in {Absent, manifest[j]}
  /\ \A j \in Jobs, t \in Tasks :
       tasks[j][t] \in {"none", "pending", "running", "completed", "failed"}
  /\ \A t \in Tasks : step[t] \in Active \cup {"none", "queued", "ok", "failed", "lost",
                                               "cancelled", "dropped"}
  /\ pc \in {"idle", "run", "convert", "scan", "parse", "draining", "aggregate", "analyze",
             "agent", "completing", "raising"}
  /\ Cardinality(Busy) <= MaxWorkers

(* A job is completed only when every task it had to do is, the scan holds *)
(* exactly the files that were listed, each parsed by one chunk, and the   *)
(* analysis and its tree are there if they were asked for (_run_pipeline,  *)
(* _aggregate, _analyze).                                                  *)
CompletedIsComplete ==
  \A j \in Jobs :
    row[j].status = "completed" /\ target[j] # "snapshot" =>
      /\ scan[j] = manifest[j]
      /\ \A t \in {MainTask.scan, MainTask.aggregate} \cup ChunksOf(j) : tasks[j][t] = "completed"
      /\ target[j] # "scan" => /\ j \in analysed \cap tree
                                /\ tasks[j][MainTask.analyze] = "completed"

(* The state is well typed, and a completed row stands for completed work. *)
RowsHold == TypeOK /\ CompletedIsComplete

(* Once a job is settled none of its threads goes on: executor.map raises  *)
(* at the first failure, yet the row is written after the pool is empty.   *)
(* Only a Ctrl-C while the pool is waited for leaves threads at work.      *)
SettledIsQuiet ==
  row[job].status \in {"completed", "failed"} /\ (Busy \cup Queued) # {} =>
    row[job].error = "interrupted"

(* A job that failed by itself, in a worker, at a gate, at an artifact or  *)
(* between its tasks, leaves no task pending or running behind, on the     *)
(* main thread or on another; only an interrupt, a death or a failed write *)
(* of the database does (_execute).                                        *)
FailedLeavesNoTask ==
  \A j \in Jobs :
    faults = 0 /\ row[j].status = "failed" /\ row[j].error # "interrupted" =>
      \A t \in Tasks : tasks[j][t] \notin {"pending", "running"}

(* A job that is settled is over: no thread goes on and no task is open.   *)
SettledIsOver == SettledIsQuiet /\ FailedLeavesNoTask

(* Every call comes to an end, and the row of its job then says how, but   *)
(* for a death of the process or a write that fails (_execute_job).        *)
EveryJobSettles ==
  pc # "idle" ~> /\ pc = "idle"
                 /\ \/ row[job].status \in {"completed", "failed"}
                    \/ reason \in {"died", "unwritten"}
=============================================================================
