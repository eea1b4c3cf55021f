----------------------------- MODULE SemanticWeb -----------------------------
(***************************************************************************)
(* The web backend of the semantic application: MvpJobManager, its two     *)
(* executor threads and SQLiteWebProjectStore.                             *)
(*                                                                         *)
(* A job is a row of the store and, once a request has looked it up, an    *)
(* object in memory that handlers and threads change under one lock and    *)
(* write back.  Every handler but one does its lookup under that lock;     *)
(* submit_annotation does it before, so requests may pass each other       *)
(* between its steps, and a job may come to have two objects.              *)
(***************************************************************************)
EXTENDS Integers, Sequences, FiniteSets

CONSTANTS
  Jobs,          \* job ids that may be handed out
  Workers,       \* threads of the executor
  Requests,      \* annotate requests served at a time
  Overlap,       \* whether other requests pass an annotate request in its lookup
  MaxEvents,     \* bound: progress events of a run
  MaxServers     \* bound: processes of the backend

ASSUME OverlapIsFlag == Overlap \in BOOLEAN
ASSUME BoundsAreNats == MaxEvents \in Nat /\ MaxServers \in Nat \ {0}

JobState == {"queued", "running", "completed", "failed"}
JobStage == {"analyze", "annotate"}
Kind == {"analysis", "annotation", "resume", "full"}

(* What the row and the object have in common.                             *)
Job == [state : JobState, stage : JobStage, graph : BOOLEAN, semantics : BOOLEAN]
NewJob == [state |-> "queued", stage |-> "analyze", graph |-> FALSE, semantics |-> FALSE]
NoJob == [state |-> "none"]
Active(job) == job.state \in {"queued", "running"}

(* A job has at most two objects here: more would need a third request.    *)
Objects == {1, 2}
Task == [job : Jobs, object : Objects, kind : Kind]
NoTask == [kind |-> "none"]

VARIABLES
  \* ---- on disk -------------------------------------------------------
  row,       \* web_projects
  events,    \* highest sequence in semantic_progress_events, per job
  run,       \* semantic-run.json: none, a started run, one with a checkpoint
  log,       \* semantic-progress.json of that run: its last sequence
  issued,    \* job ids handed out; new_job_id repeats none
  \* ---- in the process ------------------------------------------------
  object,    \* the _Job objects of every job
  cached,    \* _jobs: the object that a lookup finds, or 0
  request,   \* annotate requests
  queue,     \* tasks no thread has taken
  worker,    \* task and phase of every thread
  servers    \* processes so far

disk == <<row, events, run, log, issued>>
memory == <<object, cached, request, queue, worker>>
vars == <<row, events, run, log, issued, object, cached, request, queue, worker, servers>>

Free == [phase |-> "free"]
Idle == [phase |-> "idle", task |-> NoTask]
NoObject == [o \in Objects |-> NoJob]

Phases == {"idle", "mark", "analyze", "stage", "mark_annotation", "begin", "annotate",
           "emitting", "returned", "raised"}

(* _persist writes an object to its row.                                   *)
Change(j, o, job) == object' = [object EXCEPT ![j][o] = job]
Persist(j, job) == row' = [row EXCEPT ![j] = job]
Unused(j) == {o \in Objects : object[j][o] = NoJob}

(* What a status request answers, and whether it offers to resume.         *)
Shown(j) == IF cached[j] # 0 THEN object[j][cached[j]] ELSE row[j]
CanResume(j) ==
  /\ Shown(j).stage = "annotate"
  /\ ~Active(Shown(j))
  /\ run[j] = "checkpoint"

(* Handlers run while an annotate request is between its steps.            *)
LookingUp(r) == request[r].phase \in {"missed", "loaded", "found"}
MayPass == Overlap \/ \A r \in Requests : ~LookingUp(r)

-----------------------------------------------------------------------------
(* MvpJobManager and the store as a process starts.                        *)

Init ==
  /\ row = [j \in Jobs |-> NoJob] /\ events = [j \in Jobs |-> 0]
  /\ run = [j \in Jobs |-> "none"] /\ log = [j \in Jobs |-> 0]
  /\ issued = {}
  /\ object = [j \in Jobs |-> NoObject] /\ cached = [j \in Jobs |-> 0]
  /\ request = [r \in Requests |-> Free]
  /\ queue = <<>> /\ worker = [w \in Workers |-> Idle]
  /\ servers = 1

(* _initialize of the store: what an earlier process left active failed.   *)
(* Mutant of Recovered: only running jobs are.                             *)
RecoveredRunning(job) == IF job.state = "running" THEN [job EXCEPT !.state = "failed"] ELSE job
Recovered(job) == IF Active(job) THEN [job EXCEPT !.state = "failed"] ELSE job

(* The process dies and the next one starts.                               *)
Restart ==
  /\ servers < MaxServers
  /\ servers' = servers + 1
  /\ row' = [j \in Jobs |-> Recovered(row[j])]
  /\ object' = [j \in Jobs |-> NoObject] /\ cached' = [j \in Jobs |-> 0]
  /\ request' = [r \in Requests |-> Free]
  /\ queue' = <<>> /\ worker' = [w \in Workers |-> Idle]
  /\ UNCHANGED <<issued, events, run, log>>

-----------------------------------------------------------------------------
(* Handlers under the lock.                                                *)

(* _get of a locked handler: the first lookup reads the row.               *)
Load(j) ==
  /\ MayPass
  /\ cached[j] = 0 /\ row[j] # NoJob
  /\ \E o \in Unused(j) : Change(j, o, row[j]) /\ cached' = [cached EXCEPT ![j] = o]
  /\ UNCHANGED <<disk, request, queue, worker, servers>>

Enqueue(j, o, kind) ==
  queue' = Append(queue, [job |-> j, object |-> o, kind |-> kind])

(* submit_analysis and restart: a new job, at once in memory, in the store *)
(* and in the queue (restart) or on its way there (submit_analysis, whose  *)
(* request has left the lock).                                             *)
Create(j, kind) ==
  /\ j \notin issued /\ issued' = issued \cup {j}
  /\ Change(j, 1, NewJob) /\ Persist(j, NewJob)
  /\ cached' = [cached EXCEPT ![j] = 1]

SubmitAnalysis(j, r) ==
  /\ MayPass
  /\ request[r] = Free
  /\ Create(j, "analysis")
  /\ request' = [request EXCEPT ![r] = [phase |-> "submit", job |-> j, object |-> 1,
                                        kind |-> "analysis"]]
  /\ UNCHANGED <<events, run, log, queue, worker, servers>>

RestartJob(j, new) ==
  /\ MayPass
  /\ cached[j] # 0 /\ ~Active(object[j][cached[j]])
  /\ Create(new, "full")
  /\ Enqueue(new, 1, "full")
  /\ UNCHANGED <<events, run, log, request, worker, servers>>

(* resume: the run on record has a checkpoint (of unchanged sources).      *)
Resumable(j) ==
  /\ cached[j] # 0
  /\ ~Active(object[j][cached[j]])
  /\ run[j] = "checkpoint"

Resume(j) ==
  /\ MayPass
  /\ Resumable(j)
  /\ LET o == cached[j]
         job == [object[j][o] EXCEPT !.state = "queued", !.stage = "annotate",
                                     !.semantics = FALSE]
     IN Change(j, o, job) /\ Persist(j, job) /\ Enqueue(j, o, "resume")
  /\ UNCHANGED <<issued, events, run, log, cached, request, worker, servers>>

(* Mutant of Delete: active jobs too.                                      *)
DeleteActive(j) ==
  /\ MayPass
  /\ cached[j] # 0 /\ row[j] # NoJob
  /\ row' = [row EXCEPT ![j] = NoJob] /\ events' = [events EXCEPT ![j] = 0]
  /\ object' = [object EXCEPT ![j][cached[j]] = NoJob]
  /\ cached' = [cached EXCEPT ![j] = 0]
  /\ UNCHANGED <<issued, run, log, request, queue, worker, servers>>
(* delete_project: the row and its events go; what others hold stays.      *)
Delete(j) ==
  /\ MayPass
  /\ cached[j] # 0 /\ ~Active(object[j][cached[j]]) /\ row[j] # NoJob
  /\ row' = [row EXCEPT ![j] = NoJob] /\ events' = [events EXCEPT ![j] = 0]
  /\ object' = [object EXCEPT ![j][cached[j]] =
                  IF \E r \in Requests : request[r].phase = "found" /\ request[r].job = j
                  THEN @ ELSE NoJob]
  /\ cached' = [cached EXCEPT ![j] = 0]
  /\ UNCHANGED <<issued, run, log, request, queue, worker, servers>>

-----------------------------------------------------------------------------
(* submit_annotation: a lookup without the lock, a change under it, and    *)
(* the hand-over to the executor after it.                                 *)

AskAnnotation(j, r) ==
  /\ request[r] = Free
  /\ MayPass
  /\ \/ /\ cached[j] # 0
        /\ request' = [request EXCEPT ![r] = [phase |-> "found", job |-> j,
                                              object |-> cached[j], kind |-> "annotation"]]
     \/ /\ cached[j] = 0 /\ j \in issued
        /\ request' = [request EXCEPT ![r] = [phase |-> "missed", job |-> j, object |-> 0,
                                              kind |-> "annotation"]]
  /\ UNCHANGED <<disk, object, cached, queue, worker, servers>>

(* The row is read into a new object.                                      *)
ReadRow(r) ==
  LET j == request[r].job
  IN /\ request[r].phase = "missed"
     /\ row[j] # NoJob
     /\ \E o \in Unused(j) :
          /\ Change(j, o, row[j])
          /\ request' = [request EXCEPT ![r].phase = "loaded", ![r].object = o]
     /\ UNCHANGED <<disk, cached, queue, worker, servers>>

NotFound(r) ==
  /\ request[r].phase = "missed" /\ row[request[r].job] = NoJob
  /\ request' = [request EXCEPT ![r] = Free]
  /\ UNCHANGED <<disk, object, cached, queue, worker, servers>>

StoreObject(r) ==
  /\ request[r].phase = "loaded"
  /\ cached' = [cached EXCEPT ![request[r].job] = request[r].object]
  /\ request' = [request EXCEPT ![r].phase = "found"]
  /\ UNCHANGED <<disk, object, queue, worker, servers>>

(* Mutant of Annotatable: the state is not looked at.                      *)
AnnotatableActive(job) == job.graph /\ job.stage = "analyze"
Annotatable(job) == ~Active(job) /\ job.graph /\ job.stage = "analyze"

AcceptAnnotation(r) ==
  LET j == request[r].job
      o == request[r].object
      job == [object[j][o] EXCEPT !.state = "queued", !.stage = "annotate"]
  IN /\ request[r].phase = "found"
     /\ Annotatable(object[j][o])
     /\ Change(j, o, job) /\ Persist(j, job)
     /\ events' = [events EXCEPT ![j] = 0]
     /\ request' = [request EXCEPT ![r].phase = "submit"]
     /\ UNCHANGED <<issued, run, log, cached, queue, worker, servers>>

RefuseAnnotation(r) ==
  /\ request[r].phase = "found"
  /\ ~Annotatable(object[request[r].job][request[r].object])
  /\ request' = [request EXCEPT ![r] = Free]
  /\ UNCHANGED <<disk, object, cached, queue, worker, servers>>

(* _submit, outside the lock.                                              *)
HandOver(r) ==
  /\ request[r].phase = "submit"
  /\ Enqueue(request[r].job, request[r].object, request[r].kind)
  /\ request' = [request EXCEPT ![r] = Free]
  /\ UNCHANGED <<disk, object, cached, worker, servers>>

-----------------------------------------------------------------------------
(* The executor.                                                           *)

At(w, phase) == worker[w].phase = phase
Move(w, phase) == worker' = [worker EXCEPT ![w].phase = phase]
TaskOf(w) == worker[w].task
ObjectOf(w) == object[TaskOf(w).job][TaskOf(w).object]
(* A change that a thread makes to its object under the lock, written back.*)
Write(w, job) ==
  Change(TaskOf(w).job, TaskOf(w).object, job) /\ Persist(TaskOf(w).job, job)

Take(w) ==
  /\ At(w, "idle") /\ queue # <<>>
  /\ worker' = [worker EXCEPT ![w] =
                  [task |-> Head(queue),
                   phase |-> IF Head(queue).kind \in {"analysis", "full"}
                             THEN "mark" ELSE "mark_annotation"]]
  /\ queue' = Tail(queue)
  /\ UNCHANGED <<disk, object, cached, request, servers>>

(* _mark_running, of _run_analysis and of _run_annotation.                 *)
MarkRunning(w) ==
  /\ worker[w].phase \in {"mark", "mark_annotation"}
  /\ Write(w, [ObjectOf(w) EXCEPT !.state = "running"])
  /\ Move(w, IF At(w, "mark") THEN "analyze" ELSE "begin")
  /\ UNCHANGED <<issued, events, run, log, cached, request, queue, servers>>

(* _run_analysis sets the graph in memory; what follows writes it back.    *)
Analyzed(w) ==
  /\ At(w, "analyze")
  /\ Change(TaskOf(w).job, TaskOf(w).object, [ObjectOf(w) EXCEPT !.graph = TRUE])
  /\ Move(w, IF TaskOf(w).kind = "full" THEN "stage" ELSE "returned")
  /\ UNCHANGED <<disk, cached, request, queue, servers>>

(* _run_full_annotation, between its halves.  Mutant: the stage stays.     *)
EnterNoStage(w) ==
  /\ At(w, "stage")
  /\ Move(w, "mark_annotation")
  /\ UNCHANGED <<disk, object, cached, request, queue, servers>>
EnterStage(w) ==
  /\ At(w, "stage")
  /\ Write(w, [ObjectOf(w) EXCEPT !.stage = "annotate"])
  /\ Move(w, "mark_annotation")
  /\ UNCHANGED <<issued, events, run, log, cached, request, queue, servers>>

(* _run_annotation gives a new run its id; a resumed one keeps it.         *)
(* Mutant of BeginRun: the progress log of a resumed run starts again.     *)
BeginRunAnew(w) ==
  LET j == TaskOf(w).job
  IN /\ At(w, "begin")
     /\ run' = [run EXCEPT ![j] = IF TaskOf(w).kind = "resume" THEN @ ELSE "started"]
     /\ log' = [log EXCEPT ![j] = 0]
     /\ Move(w, "annotate")
     /\ UNCHANGED <<issued, row, events, object, cached, request, queue, servers>>
BeginRun(w) ==
  LET j == TaskOf(w).job
      resumed == TaskOf(w).kind = "resume"
  IN /\ At(w, "begin")
     /\ run' = [run EXCEPT ![j] = IF resumed THEN @ ELSE "started"]
     /\ log' = [log EXCEPT ![j] = IF resumed THEN @ ELSE 0]
     /\ Move(w, "annotate")
     /\ UNCHANGED <<issued, row, events, object, cached, request, queue, servers>>

(* The run scans, analyses and prepares, then writes its checkpoint.       *)
ReachCheckpoint(w) ==
  /\ At(w, "annotate") /\ run[TaskOf(w).job] = "started"
  /\ run' = [run EXCEPT ![TaskOf(w).job] = "checkpoint"]
  /\ UNCHANGED <<issued, row, events, log, memory, servers>>

(* The graph writes its log, then calls _record_progress, which stores the *)
(* event and writes the object back.                                       *)
Emit(w) ==
  LET j == TaskOf(w).job
  IN /\ At(w, "annotate") /\ run[j] = "checkpoint" /\ log[j] < MaxEvents
     /\ log' = [log EXCEPT ![j] = @ + 1]
     /\ Move(w, "emitting")
     /\ UNCHANGED <<issued, row, events, run, object, cached, request, queue, servers>>
RecordProgress(w) ==
  LET j == TaskOf(w).job
  IN /\ At(w, "emitting")
     /\ events' = [events EXCEPT ![j] = log[j]]
     /\ Persist(j, ObjectOf(w))
     /\ Move(w, "annotate")
     /\ UNCHANGED <<issued, run, log, object, cached, request, queue, servers>>

Annotated(w) ==
  /\ At(w, "annotate") /\ run[TaskOf(w).job] = "checkpoint"
  /\ Change(TaskOf(w).job, TaskOf(w).object,
            [ObjectOf(w) EXCEPT !.semantics = TRUE, !.graph = TRUE])
  /\ Move(w, "returned")
  /\ UNCHANGED <<disk, cached, request, queue, servers>>

TaskRaises(w) ==
  /\ worker[w].phase \in {"analyze", "annotate"}
  /\ Move(w, "raised")
  /\ UNCHANGED <<disk, object, cached, request, queue, servers>>

(* _finish, the callback of the future.                                    *)
(* Mutants: an error is not looked at; an error changes nothing.           *)
FinishCompleted(w) ==
  /\ worker[w].phase \in {"returned", "raised"}
  /\ Write(w, [ObjectOf(w) EXCEPT !.state = "completed"])
  /\ worker' = [worker EXCEPT ![w] = Idle]
  /\ UNCHANGED <<issued, events, run, log, cached, request, queue, servers>>
FinishUnwritten(w) ==
  /\ worker[w].phase \in {"returned", "raised"}
  /\ IF At(w, "returned") THEN Write(w, [ObjectOf(w) EXCEPT !.state = "completed"])
     ELSE UNCHANGED <<issued, row, object>>
  /\ worker' = [worker EXCEPT ![w] = Idle]
  /\ UNCHANGED <<issued, events, run, log, cached, request, queue, servers>>
Finish(w) ==
  /\ worker[w].phase \in {"returned", "raised"}
  /\ Write(w, [ObjectOf(w) EXCEPT !.state =
                 IF At(w, "returned") THEN "completed" ELSE "failed"])
  /\ worker' = [worker EXCEPT ![w] = Idle]
  /\ UNCHANGED <<issued, events, run, log, cached, request, queue, servers>>

WorkerStep(w) ==
  \/ Take(w) \/ MarkRunning(w) \/ Analyzed(w) \/ EnterStage(w) \/ BeginRun(w)
  \/ ReachCheckpoint(w) \/ Emit(w) \/ RecordProgress(w) \/ Annotated(w)
  \/ TaskRaises(w) \/ Finish(w)

RequestStep(r) ==
  \/ ReadRow(r) \/ NotFound(r) \/ StoreObject(r)
  \/ AcceptAnnotation(r) \/ RefuseAnnotation(r) \/ HandOver(r)

Next ==
  \/ \E j \in Jobs, r \in Requests : SubmitAnalysis(j, r) \/ AskAnnotation(j, r)
  \/ \E j \in Jobs : Load(j) \/ Resume(j) \/ Delete(j)
  \/ \E j \in Jobs, new \in Jobs : RestartJob(j, new)
  \/ \E r \in Requests : RequestStep(r)
  \/ \E w \in Workers : WorkerStep(w)
  \/ Restart

Spec == Init /\ [][Next]_vars

(* Threads and handlers go on; every model call ends by its deadline, and  *)
(* the events of a run are bounded.                                        *)
FairSpec ==
  /\ Spec
  /\ \A w \in Workers : WF_vars(WorkerStep(w))
  /\ \A r \in Requests : WF_vars(RequestStep(r))

-----------------------------------------------------------------------------
(* Properties.                                                             *)

(* Tasks of a job: queued, with a thread, or on their way to the queue.    *)
Waiting(j) == {i \in 1..Len(queue) : queue[i].job = j}
Working(j) == {w \in Workers : TaskOf(w) # NoTask /\ TaskOf(w).job = j}
Submitting(j) == {r \in Requests : request[r].phase = "submit" /\ request[r].job = j}
TaskCount(j) == Cardinality(Waiting(j)) + Cardinality(Working(j)) + Cardinality(Submitting(j))

(* The state is well typed, and a thread at work has the object of its     *)
(* task.                                                                   *)
TypeOK ==
  /\ row \in [Jobs -> Job \cup {NoJob}]
  /\ events \in [Jobs -> 0..MaxEvents] /\ log \in [Jobs -> 0..MaxEvents]
  /\ run \in [Jobs -> {"none", "started", "checkpoint"}]
  /\ object \in [Jobs -> [Objects -> Job \cup {NoJob}]]
  /\ cached \in [Jobs -> Objects \cup {0}]
  /\ \A r \in Requests : request[r].phase \in {"free", "missed", "loaded", "found", "submit"}
  /\ queue \in Seq(Task)
  /\ \A w \in Workers : /\ worker[w].phase \in Phases
                        /\ At(w, "idle") <=> TaskOf(w) = NoTask
                        /\ ~At(w, "idle") => ObjectOf(w) # NoJob
  /\ issued \subseteq Jobs /\ servers \in 1..MaxServers

(* A job never has two tasks: no two runs annotate it at a time and write  *)
(* one progress log (the answer 409 of submit_annotation, resume and       *)
(* restart).                                                               *)
OneRunPerJob == \A j \in Jobs : TaskCount(j) <= 1

(* A job shown as queued or running has a task in this process, so that it *)
(* will be settled; one shown as settled has none, so that it may be       *)
(* resumed, restarted and deleted (_finish, and recover_interrupted).      *)
ShownIsScheduled == \A j \in Jobs : Active(Shown(j)) <=> TaskCount(j) > 0

(* The state is well typed, and what a user is shown of a job is what the  *)
(* threads are doing.                                                      *)
StatusIsTrue == TypeOK /\ ShownIsScheduled

(* What a row claims to be completed can be served: the graph of an        *)
(* analysis, and the semantics of an annotation, through re-annotation,    *)
(* failed resumes and restarts.                                            *)
CompletedIsServed ==
  \A j \in Jobs : row[j] # NoJob /\ row[j].state = "completed" =>
     row[j].graph /\ (row[j].stage = "annotate" => row[j].semantics)

(* An annotation that got as far as its checkpoint is offered for resume   *)
(* whenever it does not run, also after it failed, its process died or it  *)
(* was started by restart.                                                 *)
CheckpointIsOffered ==
  \A j \in Jobs : row[j] # NoJob /\ run[j] = "checkpoint" =>
     Active(Shown(j)) \/ CanResume(j)

(* No work is lost to the user: what was completed can be read and what    *)
(* was begun can be resumed.                                               *)
ResultsAreOffered == CompletedIsServed /\ CheckpointIsOffered

(* A reader of the event stream, which asks for what follows the sequence  *)
(* it saw last, misses nothing: events are appended at the end, also by a  *)
(* resumed run, unless the job is annotated or deleted anew.               *)
EventsAppended ==
  [][\A j \in Jobs : events'[j] \in {events[j], 0} \/ events'[j] > events[j]]_events

(* A queued or running job is settled, unless its process dies.            *)
EveryRunSettles ==
  \A j \in Jobs : Active(Shown(j)) ~> ~Active(Shown(j))
=============================================================================
