----------------------------- MODULE MigrationWeb -----------------------------
(***************************************************************************)
(* MigrationJobManager: the web backend that submits, resumes and runs     *)
(* migration jobs on one executor thread, and forgets everything but its   *)
(* files when its process ends.                                            *)
(*                                                                         *)
(* A request handler runs under the manager's lock and is one step.  The   *)
(* executor thread interleaves with the handlers.  What a run does to the  *)
(* job's checkpoint (module MigrationLoop) is reduced to the order in      *)
(* which it is written: "running" when the session opens, a final status   *)
(* when it ends.                                                           *)
(***************************************************************************)
EXTENDS Integers, Sequences, FiniteSets

CONSTANTS
  Jobs,          \* job ids
  MaxServers,    \* bound: backend processes, one after another
  Unwritable     \* jobs whose record may fail to be written

ASSUME JobsAreFinite == IsFiniteSet(Jobs)
ASSUME MaxServersIsNat == MaxServers \in Nat
ASSUME UnwritableAreJobs == Unwritable \subseteq Jobs

VARIABLES
  \* ---- on disk -------------------------------------------------------
  record,      \* migration-web.json of every job
  checkpoint,  \* the status in migration-checkpoint.json of every job
  \* ---- in the backend process ----------------------------------------
  server,      \* "down", "up" or "closing"
  owner,       \* number of the running process (uuid4 in the code)
  active,      \* _active
  queue,       \* what the executor has not started
  run          \* what its thread is doing

vars == <<record, checkpoint, server, owner, active, queue, run>>

JobState == {"queued", "running", "completed", "failed", "manual_review", "interrupted"}
Record == [state : JobState \cup {"absent"}, owner : Nat]
CheckpointStatus == {"absent", "running", "interrupted", "manual_review", "completed"}
Task == [job : Jobs, resume : BOOLEAN]

(* The steps of _run: "started" has saved the record, "session" has an     *)
(* open checkpoint, "returned" and "raised" have left the service,         *)
(* "settled" has set the new state of the job in memory.                   *)
RunPhase == {"started", "session", "returned", "raised", "settled"}
Idle == [phase |-> "idle"]
Run == [phase : RunPhase, job : Jobs, resume : BOOLEAN, state : JobState]
Scheduled == {queue[i].job : i \in DOMAIN queue}
             \cup (IF run = Idle THEN {} ELSE {run.job})

-----------------------------------------------------------------------------
(* _get: a job an earlier process left queued or running is interrupted.   *)
(* Mutant of View: the owner of the record is not looked at.               *)
ViewRecorded(j) == record[j].state
View(j) ==
  IF record[j].state \in {"queued", "running"} /\ record[j].owner # owner
  THEN "interrupted" ELSE record[j].state

(* status: can_resume.                                                     *)
CanResume(j) ==
  checkpoint[j] # "absent" /\ View(j) \notin {"running", "queued", "completed"}

(* resume: when it does not answer 409, for sources that are as they were  *)
(* when the job was created (it also refuses edited sources).  Mutants of  *)
(* Accepts: an active job may be resumed; only a checkpoint that was       *)
(* closed may.                                                             *)
AcceptsActive(j) == checkpoint[j] \notin {"absent", "completed"}
AcceptsClosed(j) == j \notin active /\ checkpoint[j] \notin {"absent", "running", "completed"}
Accepts(j) == j \notin active /\ checkpoint[j] \notin {"absent", "completed"}

Save(j, state) == record' = [record EXCEPT ![j] = [state |-> state, owner |-> owner]]

Init ==
  /\ record = [j \in Jobs |-> [state |-> "absent", owner |-> 0]]
  /\ checkpoint = [j \in Jobs |-> "absent"]
  /\ server = "down"
  /\ owner = 0
  /\ active = {}
  /\ queue = <<>>
  /\ run = Idle

-----------------------------------------------------------------------------
(* The request handlers.                                                   *)

(* _submit: the job becomes active, its record is saved, its run queued;   *)
(* an executor that shuts down refuses, and the job has failed.  When the  *)
(* record cannot be saved the handler is left, and the job is active.      *)
Enqueue(j, resume) ==
  \/ /\ server = "up"
     /\ active' = active \cup {j}
     /\ Save(j, "queued")
     /\ queue' = Append(queue, [job |-> j, resume |-> resume])
     /\ UNCHANGED <<checkpoint, server, owner, run>>
  \/ /\ server = "closing"
     /\ active' = active \ {j}
     /\ Save(j, "failed")
     /\ UNCHANGED <<checkpoint, server, owner, queue, run>>
  \/ /\ j \in Unwritable /\ server # "down"
     /\ active' = active \cup {j}
     /\ UNCHANGED <<record, checkpoint, server, owner, queue, run>>

(* submit, and restart, which submits the project of a job under a new id. *)
Submit(j) == record[j].state = "absent" /\ j \notin active /\ Enqueue(j, FALSE)

Resume(j) == record[j].state # "absent" /\ Accepts(j) /\ Enqueue(j, TRUE)

-----------------------------------------------------------------------------
(* _run, on the executor's thread.                                         *)

Begin(phase) ==
  /\ run = Idle /\ queue # <<>>
  /\ run' = [phase |-> phase, job |-> Head(queue).job,
             resume |-> Head(queue).resume, state |-> "running"]
  /\ queue' = Tail(queue)

StartRun ==
  /\ \/ Begin("started") /\ Save(Head(queue).job, "running")
     \/ Begin("raised") /\ run'.job \in Unwritable /\ UNCHANGED record
  /\ UNCHANGED <<checkpoint, server, owner, active>>

Proceed(from, to) ==
  /\ run.phase = from
  /\ run' = [run EXCEPT !.phase = to]
  /\ UNCHANGED <<record, server, owner, active, queue>>

(* The session opens: the checkpoint says "running".                       *)
OpenSession ==
  /\ Proceed("started", "session")
  /\ checkpoint' = [checkpoint EXCEPT ![run.job] = "running"]

(* The agent returns with a final status, or it raises: inside the graph   *)
(* the checkpoint is marked interrupted, outside of it stays as it is.     *)
AgentReturns ==
  /\ Proceed("session", "returned")
  /\ \E status \in {"completed", "manual_review", "interrupted"} :
       checkpoint' = [checkpoint EXCEPT ![run.job] = status]

AgentRaises ==
  /\ Proceed("session", "raised")
  /\ checkpoint' \in {checkpoint, [checkpoint EXCEPT ![run.job] = "interrupted"]}

(* The service cannot be built, the scan fails, a resume is refused; or    *)
(* the job database cannot be updated after the agent has returned.        *)
ServiceRaises ==
  /\ Proceed("started", "raised") \/ Proceed("returned", "raised")
  /\ UNCHANGED checkpoint

Settle(state) ==
  /\ run' = [run EXCEPT !.phase = "settled", !.state = state]
  /\ UNCHANGED <<record, checkpoint, server, owner, active, queue>>

(* Mutant of SettleReturned: a run that returned has completed.            *)
SettleCompleted == run.phase = "returned" /\ Settle("completed")
SettleReturned ==
  /\ run.phase = "returned"
  /\ Settle(IF checkpoint[run.job] = "running" THEN "interrupted" ELSE checkpoint[run.job])

SettleRaised == run.phase = "raised" /\ Settle("failed")

(* The last block: save the record, then the job is no longer active.      *)
(* Mutant of Finish: the job stays active.                                 *)
FinishActive ==
  /\ run.phase = "settled"
  /\ Save(run.job, run.state)
  /\ run' = Idle
  /\ UNCHANGED <<checkpoint, server, owner, active, queue>>
Finish ==
  /\ run.phase = "settled"
  /\ run' = Idle
  /\ \/ Save(run.job, run.state) /\ active' = active \ {run.job}
     \/ run.job \in Unwritable /\ UNCHANGED <<record, active>>
  /\ UNCHANGED <<checkpoint, server, owner, queue>>

Executor ==
  \/ StartRun
  \/ /\ run # Idle
     /\ \/ OpenSession \/ AgentReturns \/ AgentRaises \/ ServiceRaises
        \/ SettleReturned \/ SettleRaised \/ Finish

-----------------------------------------------------------------------------
(* The backend process.                                                    *)

Start ==
  /\ server = "down" /\ owner < MaxServers
  /\ server' = "up"
  /\ owner' = owner + 1
  /\ UNCHANGED <<record, checkpoint, active, queue, run>>

(* close waits until the executor has run what is queued.                  *)
Close ==
  /\ server = "up"
  /\ server' = "closing"
  /\ UNCHANGED <<record, checkpoint, owner, active, queue, run>>

Stop ==
  /\ server' = "down"
  /\ active' = {}
  /\ queue' = <<>>
  /\ run' = Idle
  /\ UNCHANGED <<record, checkpoint, owner>>

Closed == server = "closing" /\ queue = <<>> /\ run = Idle /\ Stop

Crash == server # "down" /\ Stop

Next ==
  \/ \E j \in Jobs : Submit(j) \/ Resume(j)
  \/ Executor \/ Start \/ Close \/ Closed \/ Crash

Spec == Init /\ [][Next]_vars

(* The executor's thread is never parked for good: a run ends (the model   *)
(* calls time out, see SessionEnds of MigrationLoop).                      *)
FairSpec == Spec /\ WF_vars(Executor)

-----------------------------------------------------------------------------
(* Properties.                                                             *)

TypeOK ==
  /\ record \in [Jobs -> Record]
  /\ checkpoint \in [Jobs -> CheckpointStatus]
  /\ server \in {"down", "up", "closing"}
  /\ owner \in Nat
  /\ active \subseteq Jobs
  /\ queue \in Seq(Task)
  /\ run \in Run \cup {Idle}

(* No job is run twice at the same time or queued while it runs, however   *)
(* requests to resume and restart interleave with the thread (_active).    *)
OneRunPerJob ==
  /\ \A i, k \in DOMAIN queue : queue[i].job = queue[k].job => i = k
  /\ run # Idle => \A i \in DOMAIN queue : queue[i].job # run.job

(* A job shown as queued or running is one this process really has: no     *)
(* job stays "running" for ever because its process died (_get, owner).    *)
(* A job whose record could not be written may be shown as it was before.  *)
ShownIsScheduled ==
  server # "down" =>
    \A j \in Jobs \ Unwritable : View(j) \in {"queued", "running"} => j \in Scheduled

(* The record never claims more than the checkpoint: a job recorded as     *)
(* completed or in review has a checkpoint that says so, until it is       *)
(* resumed (_run).                                                         *)
RecordBacked ==
  \A j \in Jobs : record[j].state \in {"completed", "manual_review"} =>
                    checkpoint[j] = record[j].state

(* What is written about a job is well typed and never more than what was  *)
(* done.                                                                   *)
RecordsHold == TypeOK /\ RecordBacked

(* Whatever happened to earlier processes, a job with unfinished units is  *)
(* offered for resume and the offer is accepted (status, resume).          *)
UnfinishedIsResumable ==
  server # "down" =>
    \A j \in Jobs \ Unwritable :
      checkpoint[j] \in {"running", "interrupted", "manual_review"} /\ j \notin Scheduled =>
        CanResume(j) /\ Accepts(j)

(* What a user is shown of a job is what the process can do about it:      *)
(* active jobs are scheduled and unfinished ones can be resumed.           *)
StatusIsTrue == ShownIsScheduled /\ UnfinishedIsResumable

(* Every submitted or resumed job is settled, or its process ends, and a   *)
(* job whose record cannot be written does not stop the jobs behind it.    *)
EveryRunSettles ==
  \A j \in Jobs \ Unwritable : j \in active ~> (j \notin active \/ server = "down")

=============================================================================
