# Formal models of matlab_check_agent

TLA+ models of the program under `src/matlab_refactor_agent`, the TLC
instances that check them and the TLAPS proofs about them.  File names and line
numbers below refer to that directory unless another path is given.

The program reads a MATLAB project, analyses its call graph, optionally
annotates it with a language model, and migrates it to Python: every weakly
connected call chain (WCC, a *unit*) goes through a loop of Reason, Act,
Assemble and Observe until it is frozen or handed to a human.  A migration
runs for hours, calls an unreliable service, is interrupted, and is resumed
from files.  What can go wrong there, and what a unit test hardly reaches, is
the subject of this directory.

## 1. Inventory

| Component | State it keeps | Operations | Interacts with | Correct when |
|---|---|---|---|---|
| Migration agent loop (`migration/agent.py`, `orchestration/migration_graph.py`) | LangGraph state of one session: selected unit, references to the artifacts of the attempt, retry count | the nodes initialize ... publish and their routers; the exception handlers of `_run_graph` and `run`; waves of units when `migration_max_agents > 1` | state store, checkpoint, runtime | only checked code freezes; work is bounded; every unit ends frozen or in review |
| Unit state store and scheduler (`orchestration/migration_state.py`) | `migration-state.json` | initialize, load, save, update, restart_unfinished, ready | loop, sessions, web backend (reads) | a resume keeps complete evidence and nothing else |
| Checkpoint and sessions (`migration/checkpoint.py`) | `migration-checkpoint.json` | open, interrupt, complete, fingerprint of the sources | agent, web backend | the checkpoint never claims more than the state file |
| Migration runtime (`migration/runtime.py`) | counters of attempts and versions, the unit it tracks | build_context, reason, act, assemble, observe, project_validate, record_step | chunk store, model client, artifacts | attempts are numbered without reuse; the tracked unit is the one at work |
| Act chunk planner and store (`migration/chunking.py`) | `act-chunks-<wcc>.json` | build, split, initialize, update, fail, ready, leaves | worker threads of a wave | leaves partition the symbols; the schedule never blocks; frozen chunks are kept |
| Reason policy and agents (`migration/reason_policy.py`, `agents/`) | none | at most two model calls with a deterministic fallback | runtime, client | a request to rebuild the context does not loop |
| Assembler, observer, validators (`workers/`) | files of an attempt directory | assemble, observe; validators that the loop does not call | runtime | an attempt never overwrites another |
| Planning and context (`migration/planning.py`, `migration/context.py`) | none | analysis to plan; plan to context | sessions, runtime | every symbol is in one unit and one module |
| Migration web backend (`apps/migration/backend/jobs.py`) | `migration-web.json`, the set of active jobs, the queue of one executor thread | submit, restart, resume, status, close | service, checkpoint | one run per job; nothing shown as running that is not; what is unfinished can be resumed |
| Workflow and job database (`orchestration/workflow.py`, `orchestration/state_manager.py`) | SQLite tables of jobs and tasks | run and resume of the pipelines around a status | all pipelines | the job status follows the outcome |
| Call lifecycle and model client (`orchestration/call_lifecycle.py`, `infrastructure/llm/`) | semaphore, deadline timer | invoke, complete: transient retries, argument repair, response retries | every model call | bounded calls, no late answer accepted |
| Semantic graph and checkpoint (`orchestration/semantic_graph.py`, `semantics/`) | `semantic-checkpoint.json`, `semantic-progress.json` | select, annotate, quality check, aggregate, resume | annotator, quality reviewer | every cluster is accepted or in review, none is lost by a resume |
| Semantic web backend (`apps/semantic/backend/`) | jobs in memory and in SQLite, progress events, two threads | submit, annotate, resume, restart, delete | semantic service, migration backend (reads snapshots) | state and stage agree with what runs |
| Analysis pipeline (`analysis/pipeline.py`, `orchestration/worker_pool.py`, `quality_gate.py`, worker agents) | tasks in SQLite | scan, parse in chunks, aggregate, analyze | worker pool | chunks cover the manifest; a gate stops a bad stage |
| Parsing, dependency analysis, graph views (`workers/`) | none | pure algorithms | analysis pipeline, web views | agree with their definition |
| Artifact store (`infrastructure/artifacts.py`) | files of a job | atomic write, read | everything | a write is one step |
| Settings, command line, executors, frontends, packaging | configuration | no core logic | | |

Hard behaviours, each a hazard in `PROJECT.json` at its line, with the
properties that cover it:

* **Crashes between two files.**  A unit's state, the checkpoint, the reports
  and the numbered artifacts are written one after the other; so are the rows
  of a job and what its run left.
* **Exceptions from any node**, handled by code that looks at what the session
  tracked last.
* **Resume**: what is kept, what is reset, how numbers continue, under which
  settings, on which version of the sources.
* **Nested retries**: repairs of a unit around splits of its chunks around
  repairs of an answer around transient failures, with a model that may fail
  for ever and two recursion limits above them.
* **Threads**: the workers of a wave that rewrite one plan file, the parsers of
  a pool that write rows, the calls that share a semaphore and a log, the timer
  that closes a stream somebody else creates, the two workers of a backend.
* **Requests that race** with the threads and with each other, and a backend
  that dies with jobs in its queue.
* **Storage that fails** between a decision and its record.
* **Graph algorithms** whose results feed each other: resolution, components,
  packing under limits, halving, truncated views.

## 2. Modules

| Module | Models | Checked by | Proved by |
|---|---|---|---|
| `MigrationLoop` | the agent loop of one job over its sessions | `MCMigrationLoop` | `MigrationLoopProofs` |
| `UnitLedger` | the abstract promise of a job about its units | through `MigrationLedger` | |
| `MigrationLedger` | the refinement mapping from the loop to the ledger | `MCMigrationLoop` | `MigrationLoopProofs` |
| `MigrationSteps` | the loop with the supersteps LangGraph counts | `MCMigrationLoop` | `MigrationLoopProofs` |
| `ActChunks` | the chunks of one unit inside that loop, with worker threads | `MCActChunks` | `ActChunksProofs` |
| `MigrationWeb` | the migration backend around the sessions of several jobs | `MCMigrationWeb` | `MigrationWebProofs` |
| `SemanticGraph` | the semantic annotation of one job over its sessions | `MCSemanticGraph` | `SemanticGraphProofs` |
| `SemanticWeb` | the semantic backend, its threads, rows and progress events | `MCSemanticWeb` | `SemanticWebProofs` |
| `ModelCalls` | concurrent calls of the model | `MCModelCalls` | `ModelCallsProofs` |
| `Workflow` | jobs and tasks in the database, the parser pool | `MCWorkflow` | `WorkflowProofs` |
| `CallGraph` | graphs, components, topological order | through the next four | `ProjectAnalysisProofs` |
| `SemanticUnits` | packing a call graph into semantic units, halving, the units of a migration plan | `MCProjectAnalysis` | `ProjectAnalysisProofs` |
| `ChunkPacking` | packing one migration unit into Act chunks | `MCProjectAnalysis` | `ProjectAnalysisProofs` |
| `ProjectAnalysis` | from parsed files to the plan: symbols, resolution, entries, cycles, units, chunks | `MCProjectAnalysis` | `ProjectAnalysisProofs` |
| `GraphView` | the bounded views of a call graph and the dependency tree | `MCGraphView` | `ProjectAnalysisProofs` |

How they fit together.  `ProjectAnalysis` produces what the migration runs on:
a plan of units that no call leaves, and for each unit a partition into chunks
that can run one after another, which is what `ActChunks` assumes of its `Plan`.
`MigrationLoop` abstracts an Act call to "the highest act-context version
advanced, or not"; `ActChunks` opens that call and keeps of the loop only the
rounds of its unit.  `MigrationWeb` keeps of a session the checkpoint writes
that the backend can see, and `SemanticWeb` the same of a session of
`SemanticGraph`.  `Workflow` is the job around the analysis and around either
agent.  Every model call made by any of them is a call of `ModelCalls`, which
ends with an answer or an error: that is all the agents assume of it.

### MigrationLoop, MigrationSteps, MigrationLedger

Variables are split as in the program.  *On disk*: `unit` (migration-state.json),
`checkpoint` (status and completed ids), `contextVersion` (the highest
act-context file per unit, from which a new runtime continues its attempt
numbers), `passing` (the observation reports that passed).  *In the process*:
`node` (the graph node about to run, or a phase of the session: opening, end,
demote, interrupt), `graph` (MigrationGraphState), `attempt`
(`MigrationRuntime._attempts`), `tracked` (`current_chain_id`).  An artifact
reference is the number of the attempt that wrote it.

Each node of the graph is one action that begins with `Enter`, the record_step
callback, which moves `tracked` except on the four quiet stages without
`debug_model`.  `Raise` leaves a node at any point with the partial files of
that node on disk; `Demote` and `Interrupt` are the two handlers; `Crash` ends
the process without any handler.  `OpenNew`, `OpenResume` and `OpenCheckpoint`
split `MigrationSessionManager.open` at its file writes.  The answer of the
model is any member of `ReasonActions`, except that a passed report makes
Reason answer "finish" without asking.

`MigrationSteps` adds the counter that LangGraph compares with the recursion
limit of `_run_graph`, one per node that ran in the invoke.  `MigrationLedger`
maps the three files to the variables of `UnitLedger`: the outcome of a unit
(open, frozen, review), the verdict on the attempt its evidence is of, the list
and the completion of the checkpoint.  A session that resumes is `TakeUp`, a
checkpoint write is `List`, Act, Assemble and Observe are `Work` on the verdict,
and every other step, crashes included, leaves the ledger alone.

### ActChunks

The symbols of the unit are numbered in plan order, so a chunk is an interval
and a split cuts it as `split` does.  `plan` is the chunk file (status,
dependencies, attempts and the attempt that produced the translation),
rewritten under a lock: one rewrite, one step.  A worker of the wave
interleaves between its own rewrites (`queued`, `context`, `model`, `frozen`,
`failing`, `splitting`).  `main` is the main thread: it prepares what an earlier
call left, starts waves of at most `Concurrency` ready chunks, aggregates,
assembles, observes, and returns to Reason.  An Observation may blame any set
of frozen leaves.  The plan Act starts from is a constant with the two facts
that `build` ensures (a partition; acyclic), stated as assumptions here and
proved of the packing itself in `ProjectAnalysis` (`PlanIsWhole`).

### MigrationWeb

A request handler runs under the manager's lock: one step.  The executor thread
walks `_run`: save the record, open a session, return or raise, settle, save and
forget.  `Crash` and `Closed` end the process and clear what it had in memory;
`Start` gives the next process a new owner number (a fresh uuid in the code).
The records of the jobs in `Unwritable` may fail to be written at any save.

### SemanticGraph

*On disk*: the version of the sources, the checkpoint with the graph state and
the fingerprint it was made under, the annotation files of every attempt, the
cached summaries (keyed by what they summarise) and the index.  *In the
process*: the node, the graph state, the attempts earlier sessions had used
(`baseline`), whether the session runs under the stricter threshold, the
summaries so far.  A call of the model may answer with any quality, fail, or
give up for good; sources may be edited between and during sessions; a session
may die at every node.

### SemanticWeb

A job is a row of the store and, after a lookup, an object in memory.  A handler
that does everything under the lock is one action.  `submit_annotation` looks
up first (`missed`, `loaded`, `found`), changes under the lock and submits after
it (`submit`); with `Overlap` other requests pass it in between.  The two
threads walk through analysis, annotation, emission of progress events and the
done callback.  `Restart` loses everything in memory, and the next process fails
what the rows left running.

### ModelCalls

One action per step between two waits: take a slot, start the timer, create the
stream, check that the holder still wants it, read, record the observation,
back off.  The timer has a step of its own between setting `expired` and closing
the stream (`firing`, `fired`).  The recorder reads its file and rewrites it
under a lock (`read`); a rewrite that fails is swallowed, as the recorder does,
and `written` counts those that did not.  A response that cannot be used leads
to another round with its own transient failures.

### Workflow

Rows of jobs and tasks and the artifacts of every stage.  The main thread is a
program counter (`pc`), a task (scan, aggregate, analyze and every parse chunk)
a pass through the steps of `_execute` (save, start, work, finish or failing); a
parse chunk has a thread, of which `MaxWorkers` run at a time.  The work of any
task may raise before its artifact is written (`WorkRaises`: the root is no
directory, a path is no file, the write fails) or after it (`Written`: the gate
refuses).  Between tasks the pipeline reads its artifacts back and writes the
code tree, and may raise there too (`PipelineRaises`).  Database writes may fail,
files come and go, Ctrl+C and death hit any step.

### CallGraph, SemanticUnits, ChunkPacking, ProjectAnalysis, GraphView

Pure algorithms as operators, applied by the few actions that call them
(`Analyze`, `Prepare`, `Split`, `MakePlan`, `Pack`; `ShowGroups`, `ShowFile`,
`ShowFunction`, `ShowTree`) to every input of the instance.  Symbols are numbers
in the order of their names.  The components of networkx are defined by
reachability, its lexicographical topological order by the least component that
is ready.  Token estimates are numbers per symbol.  What the code does in a loop over
a queue (`Search`) or by recursion (`Tree`) is an iteration over as many turns as
it can need; the recursion of `_populate_tree` is a list of the calls still to be
drawn, those of the function expanded last first.

## 3. Runs

| Run | Instance | Distinct states | Bounds and why they suffice |
|---|---|---|---|
| `loop` | 2 units, the caller before its dependency in plan order, 2 retries, all answers, 2 sessions | 229,865 | two units are needed for "another unit" and for a dependency; two retries give a repair, a repair after a rebuild and an exhausted budget; the second session sees everything the first can leave on disk |
| `loop_frozen` (violation) | 2 independent units | | finding 1 |
| `loop_review` (violation) | 2 units, one depends on the other | | finding 3 |
| `chunks` | 4 symbols in the chunks 1..3 and 4, two workers, 2 retries, 2 sessions, fairness | 1,083,240 | the first chunk splits twice, once into halves that call each other and once into a caller and a callee, while another chunk waits for it |
| `web` | 2 jobs, 3 processes, the record of one job may fail to be written | 36,350 | two jobs share the queue; the third process sees what two crashes left; a failing record must not disturb the other job |
| `semgraph` | 2 units in 2 files that share one of them, 2 attempts, 2 sessions, 1 edit | 2,211,332 | a file with functions of both units makes summaries depend on two annotations; the second session resumes under either threshold and after an edit |
| `semweb` | 2 jobs, 2 threads, 1 annotate request at a time, 2 events, 2 processes | 195,453 | every pair of job, thread and request interleaves; the second process recovers the rows of the first |
| `semweb_overlap` (violation) | 1 job, 2 requests | | finding 2 |
| `calls` | 2 callers, 1 slot, 1 transient retry, 1 repair, a log of 3 | 1,148,021 | the callers contend for the slot and the log; both kinds of retry happen and are exhausted; the log overflows; any write of it may fail |
| `workflow` | 3 files in 3 chunks, 2 parser threads, 2 jobs, 1 failing write, 2 stops, 1 file change, 1 resume | 645,376 | one chunk waits while two run; every task may raise; a job resumed after each kind of fault; the second job starts from what the first left; a path that is a directory or absent from the start is one more file that is not as it should be |
| `analysis` | 6 definitions in 5 files (a package, a file found twice, once as a script, a private function, a local main); every choice of one call each, and every graph between four of them; with and without configured entries | 162,969 | every rule of resolution applies to some name and is ambiguous for some; four nodes give every shape of component, cycle and diamond the packings tell apart |
| `views` | 5 functions in 4 directories and files, 512 graphs, limits 1 to 3, depths 2 and 3 | 81,592 | every view is truncated and complete for some graph |

`MaxSessions`, `MaxServers`, `MaxJobs`, `MaxRuns`, `MaxResumes`, `MaxStops`,
`MaxFaults`, `MaxChanges`, `MaxEdits` and `MaxEvents` bound the environment and
nothing else; every other number of a configuration is a parameter of the
program.  Deadlock checking is off because each system may stop: no session is
opened any more, every job is settled, every view was shown.

Properties of the passing runs.  Most are conjunctions of named parts that are
explained where they are defined.

* `EvidenceHolds`, `OneInFlight` (loop): the evidence recorded for a decided
  unit is of one attempt and says what the decision says; at most one unit is
  half done, across crashes and resumes.
* `CheckpointTruthful`, `ListedUnitsUntouched`: the checkpoint never claims more
  than the state file, and what it lists never changes again.
* `EndsDecided`, `WorkIsBounded`, `SessionEnds`: the graph ends with every unit
  decided, because a unit in review holds nobody up (which the code decides and a
  document denies, finding 3), and publishes only what passed; retries and
  supersteps stay within their limits; every session ends.
* `ImplementsLedger`: all of it together keeps the abstract ledger.
* `PlanIsSound`, `CallersWait`, `RunningHasWorker`, `FrozenChunksKept` and its own
  `SessionEnds` (chunks):
  no symbol is lost or converted twice, the schedule never blocks, callers run
  after callees unless a split put them into halves that call each other, a dead worker blocks nothing, siblings keep their translation.
* `OneRunPerJob`, `RecordsHold`, `StatusIsTrue`, `EveryRunSettles` (web): the
  record, the queue, the checkpoint and what a user is shown agree.
* `DecisionsHold`, `AnswersAreKept`, `WithinRecursionLimit`, `IndexIsCurrent`
  (semgraph): a unit is accepted or earned its review; no answer is paid for
  twice or overwritten; the graph fits its limit; no summary is stale.
* `ResultsAreOffered`, `EventsAppended` (semweb): what is completed can be
  served, a checkpoint is offered for resume, a reader of events misses none.
* `CallsAreBounded`, `StreamsEnd`, `NoObservationLost`, `EveryCallEnds` (calls): the
  requests of a call are bounded, slots and streams come back, the log keeps the
  last of the observations that could be written, every call ends.
* `RowsHold`, `SettledIsOver`, `EveryJobSettles` (workflow): a completed row
  stands for completed work, code tree included; nothing of a settled job goes
  on, and a job that failed by itself, at whatever task, leaves no task open.
* `GraphIsExplained`, `UnitsAreSound`, `PlanIsWhole` (analysis): every function is
  below an entry or in a cluster whose cycles are shown, or below a function that
  calls itself (of which only the edge is shown) or below a private or
  local function that nothing calls; semantic units hold everything once, fit, waste
  nothing and follow the calls; the plan is closed, has its entries, and its
  chunks fit and can be converted one after the other.
* `ViewsAreTrue`, `TreeIsComplete` (views): a view says what it hides, counts
  every call once and shows what matters most; the tree ends, with every function
  expanded and every call drawn once.

### Fairness

Weak fairness, always of steps the program takes by itself; never of requests,
new sessions, exceptions, crashes, edits or answers of a server.

* `MigrationLoop`, `ActChunks`, `SemanticGraph`: the steps of a session that
  lives.  The graph runs synchronously, and every call in it ends (`EveryCallEnds`).
* `MigrationWeb`: the one thread of the executor.  `SemanticWeb`: its two
  threads, and requests that were accepted.
* `ModelCalls`: the threads of the calls, the timer, and the transport timeout
  of a stream that is being created.  That a server answers, or a stream brings
  another chunk, is not assumed: the timer ends the call.
* `Workflow`: the main thread and the threads of the pool.

### What the runs found

1. `loop_frozen`: an exception on a quiet stage demotes the unit that was
   frozen last (`migration/agent.py:140`); a resume converts it again.  The
   documentation promises that frozen units are skipped.  Units already listed
   in the checkpoint are safe (`ListedUnitsUntouched`, proved).
2. `semweb_overlap`: two annotate requests that overlap after a restart load one
   job into two objects, pass the check for a running job each on its own, and
   run the job twice (`apps/semantic/backend/app.py:260`).
3. `loop_review`: a unit is taken up when its dependencies are frozen *or in
   manual review* (`orchestration/migration_state.py:93`);
   `docs/matlab-to-python-agent-loop.md:54` says frozen, and so does the name of
   the scheduler's test, which tries another status.  Plans built today have no
   dependencies between units.

Where the code and a document of the repository differ, the models follow the
code.  Beside the findings these are the differences met (the interrupt of a wave
alone is not in a model):

* A split cuts in the middle of a chunk, through a recursion
  (`migration/chunking.py:165`), and the comment at `:177` accepts it.
  `docs/matlab-to-python-agent-loop.md:86` says "同一 SCC 不拆分" (`:12` and `:23`
  say the same, and so do `docs/structure-analysis.md:68` and
  `docs/使用教程.md:231`); only the first packing keeps a component whole.
* The halves of a split that call each other wait for nothing
  (`chunking.py:178`).  That needs no recursion (in `chunks`, 2 calls 3 and 3
  calls 1, cut between 2 and 3), so a caller may run before its callee is frozen,
  against "依赖 chunk 先冻结，调用者后执行" (`matlab-to-python-agent-loop.md:89`).
  `CallersWait` exempts exactly those halves.
* An Act call that re-runs no chunk leaves no act-context file to continue the
  numbering from, so a later session meets its attempt directory again
  (`migration/runtime.py:95`; `attempt \in directories` when `main = "assemble"`).
  The comment above it says "续跑不能覆盖之前的尝试",
  `matlab-to-python-agent-loop.md:108` "每次尝试使用新目录", `使用教程.md:264` that
  generated directories are not overwritten.  The assembler refuses a file that
  differs, so what is lost is the attempt.
* Ctrl+C during a wave is collected like the error of a worker, and the next wave
  starts (`runtime.py:426`); `使用教程.md:365` says "Ctrl+C 为 `130`".
* A backend that dies after the checkpoint is completed and before the record is
  settled leaves a finished job that is shown as interrupted, offered for resume
  (`apps/migration/backend/jobs.py:373`) and refused (`:235`).  `使用教程.md:265`
  says "全部完成后按钮禁用", `:246` that what is interrupted is unfinished.
  `StatusIsTrue` is about the other direction: what is unfinished is offered.
* A component counts as a cycle cluster from two functions on
  (`workers/dependency_analysis.py:133`); `structure-analysis.md:76` counts a
  self-loop too ("包含多个函数或自环的 SCC 是循环簇").  A function that calls itself,
  by its qualified name or as a script, is therefore in no cluster, and no entry
  either unless something names it.
* A call is matched with qualified names before the functions of the caller's file
  (`dependency_analysis.py:112`); `structure-analysis.md:55-56` has the local
  functions first.
* A local function of another file is the target of a call when its short name is
  the only one in the project (`dependency_analysis.py:123`); by
  `structure-analysis.md:49` and `:55` it is visible in its file.

Seen while modelling, and part of the models where they are modelled:

* A chunk the Observation blames may change its interface while its callers keep
  the translation made against the old one (`runtime.py:799`).
* A record that cannot be written leaves its job active for ever
  (`apps/migration/backend/jobs.py:298`).
* A stream created after its timer ran is not closed (`infrastructure/llm/client.py:340`).
* The recorder swallows a write of its log that fails
  (`orchestration/call_lifecycle.py:141`): that observation is lost.
* A process that dies leaves its row running; only another run or resume of the
  job changes it (`orchestration/workflow.py:403`).  An interrupt, a death or a
  row that cannot be written may leave a task open under a settled job.
* Files are listed by name, so a directory `x.m` fails its chunk
  (`workers/scanning.py`); sources are read again when a prompt is made
  (`workers/semantic_context.py:325`).
* A configured entry whose name is ambiguous yields no entry.
* Packing is greedy: two neighbouring chunks may both be small enough to be one.
* Nothing calls `split_semantic_work_unit` yet; it is modelled as the function
  it is.

## 4. Proofs

For every number of units, files, symbols, jobs, threads, requests and callers,
every dependency and call graph (acyclic where that is said), retry limit, set of
answers and number of sessions or processes, from the named assumptions of the
modules and the hypotheses the table names:

| Theorem | Property | Inductive invariant |
|---|---|---|
| `TypeCorrect` | `TypeOK` | itself; it contains that chain nodes have a unit |
| `FrozenIsVerified`, `ReviewIsJustified`, `EvidenceIsComplete` | `EvidenceHolds` | `EvidenceInv` |
| `CheckpointIsTruthful`, `ListedIsUntouched` | `CheckpointTruthful`, `ListedUnitsUntouched` | `CheckpointInv` |
| `RetriesAreBounded` | `RetryBudget` | `BudgetInv` |
| `OnlyOneInFlight` | `OneInFlight` | `InFlightInv` |
| `EndsAreDecided` | `EndsDecided` | `EndsInv`; needs that the plan is acyclic |
| `SessionsFitTheirLimit` | `WorkIsBounded` | `StepsInv` |
| `LoopKeepsLedger` | `ImplementsLedger` | `EvidenceInv`, `CheckpointInv` and that a unit is fresh before the first session |
| `PlanStaysSound` | `PlanIsSound` | `PlanInv` for the plan file, `WorkInv` and `PhaseInv` for the waves; needs that the packing is a partition without a cycle |
| `NothingRunsAlone`, `CalleesAreFirst`, `SiblingsKeepFrozen` | `RunningHasWorker`, `CallersWait`, `FrozenChunksKept` | the same |
| `JobsRunOnce`, `RecordsAreBacked`, `StatusStaysTrue` | `OneRunPerJob`, `RecordsHold`, `StatusIsTrue` | `ScheduleInv`, `RunInv`, `RecordInv` |
| `CallsStayBounded` | `CallsAreBounded` | `SlotsAccounted`, `RequestInv`; needs that the callers are finitely many |
| `StreamsComeToAnEnd` | `StreamsEnd` | `StreamInv` |
| `ObservationsAreKept` | `NoObservationLost` | `LogInv` |
| `Decisions`, `Answers` | `DecisionsHold`, `AnswersAreKept` | `QueueInv` and `BudgetInv`; `FileInv` |
| `Recursion`, `Index` | `WithinRecursionLimit`, `IndexIsCurrent` | `StepsInv`; `SummaryInv` and `SourceInv` |
| `Rows`, `Settled` | `RowsHold`, `SettledIsOver` | `WorkflowInv` |
| `GraphStaysExplained` | `GraphIsExplained` | `Made`: each artifact is what its step computes from the ones before it |
| `UnitsStaySound`, `PlanStaysWhole` | `UnitsAreSound`, `PlanIsWhole` | the same; `Train` for the packed units, `Grouped` for the chunks |
| `OneRun`, `Status`, `Results`, `Events` | `OneRunPerJob`, `StatusIsTrue`, `ResultsAreOffered`, `EventsAppended` (of `SemanticWeb`) | `WebInv`; needs that lookups do not overlap |

`EvidenceInv` is in two halves.  `DurableEvidence` speaks of files only: beside
the two properties, that a waiting unit carries nothing over and that reports
have a number.  `WorkingEvidence` ties the graph state to the files: between Act
and Observe the references are of the running attempt, elsewhere graph and state
file agree on one attempt, and the routers sent the loop to freeze or review
according to the report.  Without it a freeze could combine a report of one
attempt with the translation of another; with it, crashes and resumes touch only
the durable half.

`CheckpointInv` adds that neither the unit at work nor the tracked unit is
listed (which is why the demotion of finding 1 never reaches a listed unit), and
that a completed checkpoint is rewritten before the graph runs again.
`BudgetInv` adds that Act and a rebuild are entered with budget left.
`InFlightInv` adds where the half-done unit may be at each node, in particular
that the handler demotes the unit that is half done.  `EndsInv` says which units
may still be waiting at every node; that a waiting unit with nothing ready leads
to a cycle is the argument that needs `DependsOnIsAcyclic`.

`StepsInv` is a ranking argument.  Every node has a rest, the most supersteps it
can be followed by before the loop looks for the next unit; rest plus the cost of
one unit times the number of waiting units goes down with every superstep.  At
the start of a session it is 4 + n(4 + 4R) for n units and R retries, which is
below the limit 20 + n(12 + 8R) that `_run_graph` sets.

`LoopKeepsLedger` maps step by step: one lemma per kind of step (`SavingLists`,
`ResumeTakesUp`, `PartialWorks`, ...), one case per action.

`PlanInv` says of the chunk file that its leaves cover the symbols and do not
overlap, that what was split lies above the leaves, that leaves wait for leaves
only, and that every group of leaves has one that waits for none of the group.
The last is what a split must not break: in a group that contains a half, the
parent stands for both halves, so the group as it was had a chunk that could go
first; if that was the parent, one of the halves can, because two halves never
wait for each other.  `CallsAreDeps` keeps of every call either a dependency or
the record of the mutual split that dropped it.  `WorkInv` ties every worker to
the status of its chunk and says that what it waits for is frozen and in nobody's
hands, so no sibling can split or fail it under the worker.  `PhaseInv` says that
from the schedule on nothing is running or failed without a worker; with `NoCycle`
it gives a chunk to run whenever one is not frozen.

`ScheduleInv` makes queue, thread and the set of active jobs describe the same
runs, but for jobs whose record could not be written, and makes a stopped backend
empty; `RunInv` says what record and checkpoint hold at every phase of a run, and
`RecordInv` that a record in the name of this process belongs to a run of it.

In `ModelCallsProofs` one lemma (`SlotStep`) says of every step that what it takes
from or gives to the limiter is what the caller gains or loses.  `RequestInv`
counts: what was sent is at most a full budget for every finished round, the
failures of this one, and the request under way.  `StreamInv` holds in whatever
order the timer and the caller pass each other: the caller publishes its stream
before it looks at the timer, the timer expires before it looks for the stream.
`LogInv` says that a call that has read the log still has the log.

`SemanticInv` follows a unit of the semantic graph: it is in the queue or in
hand, once, or it is decided (`QueueInv`), and the attempts it has spent in this
session are its refusals and the call under way (`BudgetInv`), so it goes to
review exactly when its attempts are used up.  `FileInv` says that the checkpoint
counts an attempt before the annotation of that attempt can be written; a session
that resumes therefore numbers its files above everything on disk.  `StepsInv`
counts three supersteps for every pair of a unit and a spent attempt, which makes
the limit of the graph a cardinality.  `SummaryInv` and `SourceInv` say that
summaries are made of this session's annotations, and annotations of the sources
the checkpoint was made for.

`WorkflowInv` is a table, over all tasks alike: those of the main thread may
raise at every step, as those of the pool.  `StageInv` lists, by the place of the main thread,
what the threads may be at; `DoneInv` what a finished step has left in the
database and on disk; `RowInv` what the row of a job says meanwhile; `WholeInv`
that a job that is completed, or handed to an agent, has every row and file that
stands for its work.  The failing writes are the hard cases: `DoneInv` promises
that a task without a final row is one a thread still works on only as long as no
write has failed.  The fairness of the specification is not used.

`WebInv` is an invariant of each job (`JobInv`) and of what they share.  A task
of a job is in one place, the queue, a thread or a request (`OneTask`), and it is
of the object that a lookup would find, at the stage it works at (`TasksFit`); a
request between its steps has seen what still holds (`LookupFits`); the row
differs from its object only in what a thread has not written (`RowFits`).  A step
of one job leaves the invariant of the others (`OthersKeep`), so every action is
looked at for its own job.  `~Overlap` is a hypothesis of the theorems, not an
assumption of the module: with overlapping lookups `LookupFits` and then
`OneRunPerJob` fail, which is finding 2, and the run `semweb_overlap` shows it on
the same specification.

`ProjectAnalysisProofs` is about what the algorithms compute, for every project.
That the artifacts are what their steps compute is an easy invariant (`Made`);
the rest is about recursions over finite sets: Warshall's loop in `Reaches`, the
order of the components, the folds that pack.  The library's induction theorems
take an operator, which the installed provers cannot instantiate, so induction is
taken from the pigeonhole principle instead, where it is about a set
(`NatInduct`, `SubsetInduct`); from it follow that such a recursion has a
solution (`SubsetRecursion`), and that its values stay within whatever set its
step keeps (`SubsetInvariant`).  With these:

* `Reaches` is the least reflexive and transitive relation that contains the
  calls (`Reaching`, `StaysInside`).  No later proof looks at Warshall's loop.
* Strong and weak components are partitions; `TopologicalOrder` lists each
  component once and no chain of calls leads back in it.  That a next component
  exists is the argument `TopOf`: a node that reaches another one which does not
  reach it back has more above it, which ends in a finite graph.
* A sequence of units is a `Train` if no call leads back in it, each unit fits,
  and each was closed for a reason.  A packing step keeps that (`PackGroupPacks`),
  and the trains of two call chains couple (`TrainsCouple`).
* A group of chunks may take in a component from further on, so the groups are
  not in the order of the components.  The invariant of the packer is that the
  graph between groups and components left is acyclic (`PackOneTakes`), which
  `_safe_merge` asks of every merge after the first component of a group;
  `ChunksMadeCanRun` is that there is a first one in every acyclic graph.
* A shortest walk passes no function twice (`ShortestPathIsSimple`), and one call
  out of the cluster closes it to a cycle, which `_normalize_cycle` only turns;
  the greedy choice of representatives takes at least the first
  (`RepresentativesShow`).

The proofs need that what the parser returns is finite (`FilesAssumption`), that
`Order` lists every qualified name (`OrderAssumption`: it is the order of the
names), and that estimates are numbers (`TokensAssumption`).  `PlanStaysWhole`
proves of every plan of every project what `ActChunks` assumes of its `Plan`.

The theorems about `GraphView` are in the same module, since they rest on the
same lemmas.  `ViewMade` is inductive: the document never changes, and the view,
once there is one, is true of it.  That is not a consequence of earlier states,
so the work is in one lemma per kind of view:

* `GroupViewIsTrue`: the groups below a path hold every function under it once,
  so the sums are sizes of disjoint parts (`SumOfSizes`, `GroupsCount`); a
  directory in a view covers what its own view covers (`MembersMeans`), because
  no directory is also a file.
* `FileViewIsTrue`: sorting by keys lists the functions of a file
  (`RankedIsListing`); `Distinct` keeps every beginning of a sequence as a
  beginning (`DistinctThins`); so what is cut off matters no more than what is
  left, whatever the limit.
* `FunctionViewIsTrue`: the queue holds two levels at a time, all of one level
  before the next (`Stage`), so no function is shown before a nearer one
  (`SearchShows`), and when the search ends below its limit it has found what
  `_reachable_count` counts.  As many turns as functions suffice, since each is
  queued once (`SearchHolds`).
* `TreeIsDone`: each turn draws a call or takes a name, and what is left to be
  drawn or taken falls by one (`BranchGoesOn`, `RootGoesOn`), so that the turns
  of `Tree` end it (`TreeEnds`); meanwhile each call of an expanded function is
  drawn or waiting, once (`CallsOnce`).

They need that a function has a path (`FileOfAssumption`), that calls and marks
are of functions of the document (`ChoicesAssumption`), and that a request has a
limit of at least 1 and a depth, as the API checks (`BoundsAssumption`).

Everywhere the step lemmas have one case per action.  `SemanticInv`,
`WorkflowInv` and `WebInv` also hold when TLC evaluates them on the instances of
their runs (`WebInv` with two requests as well).

Only model-checked: the semantic backend with overlapping lookups, and all
liveness, which the prover cannot prove under fairness.

## 5. What is abstracted

* Contents: source, prompts, generated code, interfaces.  A model call has an
  outcome; an Observation passes or fails and blames some chunks.
* The passed project check follows from passed unit checks, since it compiles
  the same files and resolves imports over their union.
* `MigrationLoop` lets the sources alone: its fingerprint guard always passes.
  `SemanticGraph` has edits and the guard.
* A file write is atomic, which `ArtifactStore.write_text` ensures by replacing
  the file.  One node of a graph is one step; what a crash sees between the
  writes inside a node is in `PartialEffects`.
* One process at a time works on a job: a command line next to a backend is not
  modelled, since nothing in the program coordinates them
  (`orchestration/workflow.py:282`).
* In `GraphView` the names in a directory are numbered in the order a view lists
  them, directories before files (`ListingAssumption`, no proof needs it).
* In `ProjectAnalysis` the module of a symbol is its file, which is what the
  fallback of Reason plans; the model may plan otherwise.

## 6. Not modelled

* The parallel mode of the agent (`migration_max_agents` above 1, waves of units
  in `_run_graph`): `docs/使用教程.md:99` fixes it to 1.  Read but not modelled:
  the router of `select_call_chain` may then answer END, which its path map does
  not contain (`orchestration/migration_graph.py:86`), and all units share one
  state file (`migration/agent.py:160`).
* The grammar of MATLAB, metrics, the code tree, Mermaid and JSON output; prompts,
  parsing of answers, token estimates.
* The validators nothing in the loop calls; the executors of MATLAB and Python.
* Settings, command line and rendering, routes that only read, the stream of
  events, frontends, packaging and scripts.

## 7. Further work

Every safety property of a passing run is stated by a theorem.  What is left is
about how the theorems join:

* `SemanticWeb` and `MigrationWeb` keep of a session its checkpoint writes; that
  `SemanticGraph` and `MigrationLoop` implement such a session is the
  refinement the pairs are built for, as `MigrationLedger` is for the loop.
* With overlapping lookups, the part of `WebInv` that is left (one object per
  task, rows behind objects only in what is unwritten) has not been stated.
