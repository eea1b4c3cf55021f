-------------------------- MODULE MigrationWebProofs --------------------------
(***************************************************************************)
(* Proofs about MigrationWeb for every number of jobs, of processes and of *)
(* jobs whose record may fail to be written.                               *)
(*                                                                         *)
(* The queue, the thread and the set of active jobs describe the same runs *)
(* (ScheduleInv); the phases of a run tell what its record and checkpoint  *)
(* say (RunInv); and a record of this process that says queued or running  *)
(* belongs to one of those runs (RecordInv).                               *)
(***************************************************************************)
EXTENDS MigrationWeb, TLAPS

-----------------------------------------------------------------------------
(* The queue.                                                              *)

Queued == {queue[i].job : i \in DOMAIN queue}
Distinct(q) == \A i, k \in DOMAIN q : q[i].job = q[k].job => i = k

(* A run joins the queue behind the others.                                *)
LEMMA QueueGrows ==
  ASSUME queue \in Seq(Task), NEW t \in Task, queue' = Append(queue, t)
  PROVE  /\ queue' \in Seq(Task)
         /\ Queued' = Queued \cup {t.job}
         /\ Distinct(queue) /\ t.job \notin Queued => Distinct(queue')
PROOF
<1>1. /\ queue' \in Seq(Task) /\ Len(queue') = Len(queue) + 1
      /\ \A i \in 1 .. Len(queue) : queue'[i] = queue[i]
      /\ queue'[Len(queue) + 1] = t
  OBVIOUS
<1>2. DOMAIN queue = 1 .. Len(queue) /\ DOMAIN queue' = 1 .. Len(queue) + 1 /\ Len(queue) \in Nat
  BY <1>1
<1>3. Queued' = Queued \cup {t.job}
  BY <1>1, <1>2 DEF Queued
<1>4. ASSUME Distinct(queue), t.job \notin Queued PROVE Distinct(queue')
  BY <1>1, <1>2, <1>4 DEF Distinct, Queued
<1>5. QED
  BY <1>1, <1>3, <1>4

(* The thread takes the first run; the others stay.                        *)
LEMMA QueueShrinks ==
  ASSUME queue \in Seq(Task), queue # <<>>, queue' = Tail(queue)
  PROVE  /\ queue' \in Seq(Task) /\ Head(queue) \in Task
         /\ Queued = Queued' \cup {Head(queue).job}
         /\ Distinct(queue) => Distinct(queue') /\ Head(queue).job \notin Queued'
PROOF
<1>1. /\ queue' \in Seq(Task) /\ Len(queue) \in Nat \ {0} /\ Len(queue') = Len(queue) - 1
      /\ \A i \in 1 .. Len(queue) - 1 : queue'[i] = queue[i + 1]
      /\ Head(queue) = queue[1] /\ queue[1] \in Task
  OBVIOUS
<1>2. DOMAIN queue = 1 .. Len(queue) /\ DOMAIN queue' = 1 .. Len(queue) - 1
  BY <1>1
<1>3. Queued' \cup {Head(queue).job} \subseteq Queued
  BY <1>1, <1>2 DEF Queued
<1>4. Queued \subseteq Queued' \cup {Head(queue).job}
  <2> SUFFICES ASSUME NEW i \in 1 .. Len(queue), i # 1 PROVE queue[i].job \in Queued'
    BY <1>1, <1>2 DEF Queued
  <2>1. i - 1 \in 1 .. Len(queue) - 1 /\ queue'[i - 1] = queue[i]
    BY <1>1
  <2>2. QED
    BY <1>2, <2>1 DEF Queued
<1>5. ASSUME Distinct(queue) PROVE Distinct(queue') /\ Head(queue).job \notin Queued'
  <2>1. \A i \in DOMAIN queue' : i + 1 \in DOMAIN queue /\ i + 1 # 1 /\ queue'[i] = queue[i + 1]
    BY <1>1, <1>2
  <2>2. Distinct(queue')
    BY <1>2, <1>5, <2>1 DEF Distinct
  <2>3. Head(queue).job \notin Queued'
    BY <1>1, <1>2, <1>5, <2>1 DEF Distinct, Queued
  <2>4. QED
    BY <2>2, <2>3
<1>6. QED
  BY <1>1, <1>3, <1>4, <1>5

-----------------------------------------------------------------------------
(* The invariant.                                                          *)

ScheduleInv ==
  /\ server = "down" => active = {} /\ queue = <<>> /\ run = Idle
  /\ Distinct(queue)
  /\ run # Idle => run.job \notin Queued
  /\ Scheduled \subseteq active
  /\ active \ Unwritable \subseteq Scheduled

RunInv ==
  run # Idle =>
    /\ run.phase \in {"started", "session", "returned"} => record[run.job].state = "running"
    /\ run.phase \in {"session", "returned"} => checkpoint[run.job] # "absent"
    /\ run.phase = "settled" =>
         /\ run.state \notin {"queued", "running"}
         /\ run.state \in {"completed", "manual_review"} => checkpoint[run.job] = run.state

RecordInv ==
  /\ RecordBacked
  /\ \A j \in Jobs : record[j].owner <= owner
  /\ server # "down" =>
       \A j \in Jobs \ Unwritable :
         record[j].state \in {"queued", "running"} /\ record[j].owner = owner => j \in Scheduled

WebInv == TypeOK /\ ScheduleInv /\ RunInv /\ RecordInv

(* The thread is idle or runs a job.                                       *)
LEMMA IdleIsNoRun == Idle \notin Run
  BY DEF Idle, Run, RunPhase

(* Nothing is recorded or scheduled at first.                              *)
LEMMA WebBegins == Init => WebInv
PROOF
<1> SUFFICES ASSUME Init PROVE WebInv
  OBVIOUS
<1>1. TypeOK
  BY DEF Init, TypeOK, Record, JobState, CheckpointStatus, Task
<1>2. Queued = {} /\ Scheduled = {}
  BY DEF Init, Queued, Scheduled
<1>3. ScheduleInv /\ RunInv
  BY <1>2 DEF Init, ScheduleInv, RunInv, Distinct
<1>4. RecordInv
  BY DEF Init, RecordInv, RecordBacked
<1>5. QED
  BY <1>1, <1>3, <1>4 DEF WebInv

-----------------------------------------------------------------------------
(* The steps.                                                              *)

(* A request queues a job that is not active, or changes nothing but its   *)
(* record or its place among the active jobs.                              *)
LEMMA EnqueueKeeps ==
  ASSUME WebInv, NEW j \in Jobs, j \notin active, NEW resume \in BOOLEAN, Enqueue(j, resume)
  PROVE  WebInv'
PROOF
<1> DEFINE task == [job |-> j, resume |-> resume]
<1>0. task \in Task /\ task.job = j
  BY DEF Task
<1>1. j \notin Scheduled /\ j \notin Queued /\ (run # Idle => run.job # j)
  BY DEF WebInv, ScheduleInv, Scheduled, Queued
<1>2. CASE /\ server = "up" /\ active' = active \cup {j} /\ Save(j, "queued")
           /\ queue' = Append(queue, task)
           /\ UNCHANGED <<checkpoint, server, owner, run>>
  <2>1. /\ queue' \in Seq(Task) /\ Queued' = Queued \cup {j} /\ Distinct(queue')
    BY <1>0, <1>1, <1>2, QueueGrows DEF WebInv, TypeOK, ScheduleInv
  <2>2. Scheduled' = Scheduled \cup {j}
    BY <1>2, <2>1 DEF Scheduled, Queued
  <2>3. TypeOK'
    BY <1>2, <2>1 DEF WebInv, TypeOK, Save, Record, JobState
  <2>4. ScheduleInv'
    BY <1>1, <1>2, <2>1, <2>2 DEF WebInv, ScheduleInv
  <2>5. RunInv'
    BY <1>1, <1>2 DEF WebInv, TypeOK, RunInv, Save, Run
  <2>6. RecordInv'
    BY <1>2, <2>2 DEF WebInv, TypeOK, RecordInv, RecordBacked, Save, Record
  <2>7. QED
    BY <2>3, <2>4, <2>5, <2>6 DEF WebInv
<1>3. CASE /\ server = "closing" /\ active' = active \ {j} /\ Save(j, "failed")
           /\ UNCHANGED <<checkpoint, server, owner, queue, run>>
  <2>1. Scheduled' = Scheduled /\ Queued' = Queued
    BY <1>3 DEF Scheduled, Queued
  <2>2. TypeOK'
    BY <1>3 DEF WebInv, TypeOK, Save, Record, JobState
  <2>3. ScheduleInv'
    BY <1>1, <1>3, <2>1 DEF WebInv, ScheduleInv
  <2>4. RunInv'
    BY <1>1, <1>3 DEF WebInv, TypeOK, RunInv, Save, Run
  <2>5. RecordInv'
    BY <1>3, <2>1 DEF WebInv, TypeOK, RecordInv, RecordBacked, Save, Record
  <2>6. QED
    BY <2>2, <2>3, <2>4, <2>5 DEF WebInv
<1>4. CASE /\ j \in Unwritable /\ server # "down" /\ active' = active \cup {j}
           /\ UNCHANGED <<record, checkpoint, server, owner, queue, run>>
  <2>1. Scheduled' = Scheduled /\ Queued' = Queued
    BY <1>4 DEF Scheduled, Queued
  <2>2. TypeOK' /\ RunInv'
    BY <1>4 DEF WebInv, TypeOK, RunInv
  <2>3. ScheduleInv'
    BY <1>4, <2>1 DEF WebInv, ScheduleInv
  <2>4. RecordInv'
    BY <1>4, <2>1 DEF WebInv, RecordInv, RecordBacked
  <2>5. QED
    BY <2>2, <2>3, <2>4 DEF WebInv
<1>5. QED
  BY <1>2, <1>3, <1>4 DEF Enqueue

(* The thread takes a job from the queue: it stays scheduled.              *)
LEMMA StartRunKeeps == ASSUME WebInv, StartRun PROVE WebInv'
PROOF
<1> DEFINE j == Head(queue).job
<1>1. /\ run = Idle /\ queue # <<>> /\ queue' = Tail(queue)
      /\ run'.job = j /\ run'.state = "running" /\ run'.phase \in {"started", "raised"}
      /\ run' = [phase |-> run'.phase, job |-> j, resume |-> Head(queue).resume,
                 state |-> "running"]
      /\ UNCHANGED <<checkpoint, server, owner, active>>
  BY DEF StartRun, Begin
<1>2. /\ queue' \in Seq(Task) /\ Head(queue) \in Task /\ j \in Jobs
      /\ Queued = Queued' \cup {j} /\ Distinct(queue') /\ j \notin Queued'
  BY <1>1, QueueShrinks DEF WebInv, TypeOK, ScheduleInv, Task
<1>3. run' \in Run /\ run' # Idle
  BY <1>1, <1>2, IdleIsNoRun DEF Run, RunPhase, Task, JobState
<1>4. Scheduled' = Scheduled
  BY <1>1, <1>2, <1>3 DEF Scheduled, Queued
<1>5. ScheduleInv'
  BY <1>1, <1>2, <1>3, <1>4 DEF WebInv, ScheduleInv
<1>6. CASE Begin("started") /\ Save(j, "running")
  <2>1. TypeOK'
    BY <1>1, <1>2, <1>3, <1>6 DEF WebInv, TypeOK, Save, Record, JobState
  <2>2. run'.phase = "started" /\ record' = [record EXCEPT ![j] = [state |-> "running", owner |-> owner]]
    BY <1>6 DEF Begin, Save
  <2>3. RunInv'
    BY <1>1, <1>2, <2>2 DEF WebInv, TypeOK, RunInv
  <2>4. j \in Scheduled'
    BY <1>1, <1>3 DEF Scheduled
  <2>5. RecordInv'
    BY <1>1, <1>2, <1>4, <2>2, <2>4 DEF WebInv, TypeOK, RecordInv, RecordBacked, Record
  <2>6. QED
    BY <1>5, <2>1, <2>3, <2>5 DEF WebInv
<1>7. CASE Begin("raised") /\ UNCHANGED record
  <2>1. TypeOK'
    BY <1>1, <1>2, <1>3, <1>7 DEF WebInv, TypeOK
  <2>2. RunInv'
    BY <1>7 DEF Begin, RunInv
  <2>3. RecordInv'
    BY <1>1, <1>4, <1>7 DEF WebInv, RecordInv, RecordBacked
  <2>4. QED
    BY <1>5, <2>1, <2>2, <2>3 DEF WebInv
<1>8. QED
  BY <1>6, <1>7 DEF StartRun

(* A run goes on: the job stays scheduled and its record as it is.         *)
LEMMA RunGoesOn ==
  ASSUME WebInv, run # Idle, run' \in Run, run'.job = run.job,
         UNCHANGED <<record, server, owner, active, queue>>,
         checkpoint' \in [Jobs -> CheckpointStatus],
         \A j \in Jobs \ {run.job} : checkpoint'[j] = checkpoint[j],
         checkpoint' = checkpoint \/ record[run.job].state = "running",
         RunInv'
  PROVE  WebInv'
PROOF
<1>1. run' # Idle
  BY IdleIsNoRun
<1>2. Scheduled' = Scheduled /\ Queued' = Queued
  BY <1>1 DEF Scheduled, Queued
<1>3. TypeOK'
  BY DEF WebInv, TypeOK
<1>4. ScheduleInv'
  BY <1>1, <1>2 DEF WebInv, ScheduleInv
<1>5. RecordInv'
  BY <1>2 DEF WebInv, RecordInv, RecordBacked
<1>6. QED
  BY <1>3, <1>4, <1>5 DEF WebInv

(* The session of a run opens and ends, or the service around it raises.   *)
LEMMA SessionKeeps ==
  ASSUME WebInv, run # Idle, OpenSession \/ AgentReturns \/ AgentRaises \/ ServiceRaises
  PROVE  WebInv'
PROOF
<1>1. run \in Run /\ run.job \in Jobs /\ checkpoint \in [Jobs -> CheckpointStatus]
  BY DEF WebInv, TypeOK, Run
<1>2. ASSUME NEW from \in RunPhase, NEW to \in RunPhase, Proceed(from, to)
      PROVE  /\ run' \in Run /\ run'.job = run.job /\ run'.phase = to
             /\ run.phase = from
             /\ UNCHANGED <<record, server, owner, active, queue>>
  BY <1>1, <1>2 DEF Proceed, Run
<1>3. CASE OpenSession
  <2>1. /\ run' \in Run /\ run'.job = run.job /\ run'.phase = "session"
        /\ run.phase = "started" /\ UNCHANGED <<record, server, owner, active, queue>>
    BY <1>2, <1>3 DEF OpenSession, RunPhase
  <2>2. checkpoint' = [checkpoint EXCEPT ![run.job] = "running"]
    BY <1>3 DEF OpenSession
  <2>3. record[run.job].state = "running"
    BY <2>1 DEF WebInv, RunInv
  <2>4. RunInv'
    BY <1>1, <2>1, <2>2, <2>3 DEF RunInv
  <2>5. checkpoint' \in [Jobs -> CheckpointStatus]
    BY <1>1, <2>2 DEF CheckpointStatus
  <2>6. QED
    BY <1>1, <2>1, <2>2, <2>3, <2>4, <2>5, RunGoesOn
<1>4. CASE AgentReturns
  <2>1. /\ run' \in Run /\ run'.job = run.job /\ run'.phase = "returned"
        /\ run.phase = "session" /\ UNCHANGED <<record, server, owner, active, queue>>
    BY <1>2, <1>4 DEF AgentReturns, RunPhase
  <2>2. PICK status \in {"completed", "manual_review", "interrupted"} :
          checkpoint' = [checkpoint EXCEPT ![run.job] = status]
    BY <1>4 DEF AgentReturns
  <2>3. record[run.job].state = "running"
    BY <2>1 DEF WebInv, RunInv
  <2>4. RunInv'
    BY <1>1, <2>1, <2>2, <2>3 DEF RunInv
  <2>5. checkpoint' \in [Jobs -> CheckpointStatus]
    BY <1>1, <2>2 DEF CheckpointStatus
  <2>6. QED
    BY <1>1, <2>1, <2>2, <2>3, <2>4, <2>5, RunGoesOn
<1>5. CASE AgentRaises
  <2>1. /\ run' \in Run /\ run'.job = run.job /\ run'.phase = "raised"
        /\ run.phase = "session" /\ UNCHANGED <<record, server, owner, active, queue>>
    BY <1>2, <1>5 DEF AgentRaises, RunPhase
  <2>2. checkpoint' \in {checkpoint, [checkpoint EXCEPT ![run.job] = "interrupted"]}
    BY <1>5 DEF AgentRaises
  <2>3. record[run.job].state = "running"
    BY <2>1 DEF WebInv, RunInv
  <2>4. RunInv'
    BY <2>1 DEF RunInv
  <2>5. checkpoint' \in [Jobs -> CheckpointStatus]
    BY <1>1, <2>2 DEF CheckpointStatus
  <2>6. QED
    BY <1>1, <2>1, <2>2, <2>3, <2>4, <2>5, RunGoesOn
<1>6. CASE ServiceRaises
  <2>1. /\ run' \in Run /\ run'.job = run.job /\ run'.phase = "raised"
        /\ UNCHANGED <<record, checkpoint, server, owner, active, queue>>
    BY <1>2, <1>6 DEF ServiceRaises, RunPhase
  <2>2. RunInv'
    BY <2>1 DEF RunInv
  <2>3. QED
    BY <1>1, <2>1, <2>2, RunGoesOn
<1>7. QED
  BY <1>3, <1>4, <1>5, <1>6

(* The state a run is settled with is what its checkpoint says.            *)
LEMMA SettleKeeps ==
  ASSUME WebInv, run # Idle, SettleReturned \/ SettleRaised
  PROVE  WebInv'
PROOF
<1>1. run \in Run /\ run.job \in Jobs /\ checkpoint[run.job] \in CheckpointStatus
  BY DEF WebInv, TypeOK, Run
<1>2. ASSUME NEW state \in JobState \ {"queued", "running"}, Settle(state),
             state \in {"completed", "manual_review"} => checkpoint[run.job] = state
      PROVE  WebInv'
  <2>1. /\ run' \in Run /\ run'.job = run.job /\ run'.phase = "settled" /\ run'.state = state
        /\ UNCHANGED <<record, checkpoint, server, owner, active, queue>>
    BY <1>1, <1>2 DEF Settle, Run, RunPhase
  <2>2. RunInv'
    BY <1>2, <2>1 DEF RunInv
  <2>3. checkpoint' \in [Jobs -> CheckpointStatus]
    BY <2>1 DEF WebInv, TypeOK
  <2>4. QED
    BY <2>1, <2>2, <2>3, RunGoesOn
<1>3. CASE SettleReturned
  <2> DEFINE state == IF checkpoint[run.job] = "running" THEN "interrupted"
                      ELSE checkpoint[run.job]
  <2>1. checkpoint[run.job] # "absent"
    BY <1>3 DEF SettleReturned, WebInv, RunInv
  <2>2. /\ state \in JobState \ {"queued", "running"}
        /\ state \in {"completed", "manual_review"} => checkpoint[run.job] = state
    BY <1>1, <2>1 DEF CheckpointStatus, JobState
  <2>3. Settle(state)
    BY <1>3 DEF SettleReturned
  <2> HIDE DEF state
  <2>4. QED
    BY <1>2, <2>2, <2>3
<1>4. CASE SettleRaised
  BY <1>2, <1>4 DEF SettleRaised, JobState
<1>5. QED
  BY <1>3, <1>4

(* The last block of a run: its job is no longer active.                   *)
LEMMA FinishKeeps == ASSUME WebInv, run # Idle, Finish PROVE WebInv'
PROOF
<1>1. run \in Run /\ run.job \in Jobs /\ run.state \in JobState \ {"queued", "running"}
      /\ run.job \notin Queued
  BY DEF WebInv, TypeOK, Run, RunInv, ScheduleInv, Finish
<1>2. run' = Idle /\ UNCHANGED <<checkpoint, server, owner, queue>>
  BY DEF Finish
<1>3. Queued' = Queued /\ Scheduled = Queued \cup {run.job} /\ Scheduled' = Queued
  BY <1>2 DEF Queued, Scheduled
<1>4. RunInv'
  BY <1>2 DEF RunInv
<1>5. CASE Save(run.job, run.state) /\ active' = active \ {run.job}
  <2>1. TypeOK'
    BY <1>1, <1>2, <1>5 DEF WebInv, TypeOK, Save, Record
  <2>2. ScheduleInv'
    BY <1>1, <1>2, <1>3, <1>5 DEF WebInv, ScheduleInv
  <2>3. run.state \in {"completed", "manual_review"} => checkpoint[run.job] = run.state
    BY DEF WebInv, RunInv, Finish
  <2>4. RecordInv'
    BY <1>1, <1>2, <1>3, <1>5, <2>3 DEF WebInv, TypeOK, RecordInv, RecordBacked, Save, Record
  <2>5. QED
    BY <1>4, <2>1, <2>2, <2>4 DEF WebInv
<1>6. CASE run.job \in Unwritable /\ UNCHANGED <<record, active>>
  <2>1. TypeOK'
    BY <1>2, <1>6 DEF WebInv, TypeOK
  <2>2. ScheduleInv'
    BY <1>2, <1>3, <1>6 DEF WebInv, ScheduleInv
  <2>3. RecordInv'
    BY <1>2, <1>3, <1>6 DEF WebInv, RecordInv, RecordBacked
  <2>4. QED
    BY <1>4, <2>1, <2>2, <2>3 DEF WebInv
<1>7. QED
  BY <1>5, <1>6 DEF Finish

(* A process starts under a number no record has, is told to close, or     *)
(* ends and forgets.                                                       *)
LEMMA ServerKeeps ==
  ASSUME WebInv, Start \/ Close \/ Closed \/ Crash
  PROVE  WebInv'
PROOF
<1>1. CASE Start
  <2>1. Scheduled' = Scheduled /\ Queued' = Queued
    BY <1>1 DEF Start, Scheduled, Queued
  <2>2. TypeOK' /\ RunInv'
    BY <1>1 DEF Start, WebInv, TypeOK, RunInv
  <2>3. ScheduleInv'
    BY <1>1, <2>1 DEF Start, WebInv, ScheduleInv
  <2>4. RecordInv'
    BY <1>1, <2>1 DEF Start, WebInv, TypeOK, RecordInv, RecordBacked, Record
  <2>5. QED
    BY <2>2, <2>3, <2>4 DEF WebInv
<1>2. CASE Close
  <2>1. Scheduled' = Scheduled /\ Queued' = Queued
    BY <1>2 DEF Close, Scheduled, Queued
  <2>2. TypeOK' /\ RunInv'
    BY <1>2 DEF Close, WebInv, TypeOK, RunInv
  <2>3. ScheduleInv' /\ RecordInv'
    BY <1>2, <2>1 DEF Close, WebInv, ScheduleInv, RecordInv, RecordBacked
  <2>4. QED
    BY <2>2, <2>3 DEF WebInv
<1>3. CASE Stop
  <2>1. Scheduled' = {} /\ queue' = <<>>
    BY <1>3 DEF Stop, Scheduled
  <2>2. TypeOK' /\ RunInv'
    BY <1>3 DEF Stop, WebInv, TypeOK, RunInv
  <2>3. ScheduleInv'
    BY <1>3, <2>1 DEF Stop, ScheduleInv, Distinct
  <2>4. RecordInv'
    BY <1>3 DEF Stop, WebInv, RecordInv, RecordBacked
  <2>5. QED
    BY <2>2, <2>3, <2>4 DEF WebInv
<1>4. QED
  BY <1>1, <1>2, <1>3 DEF Closed, Crash

(* Requests, the thread and the process keep the invariant between them.   *)
LEMMA WebKept == Spec => []WebInv
PROOF
<1>1. WebInv /\ [Next]_vars => WebInv'
  <2> SUFFICES ASSUME WebInv, [Next]_vars PROVE WebInv'
    OBVIOUS
  <2>1. ASSUME NEW j \in Jobs, Submit(j) \/ Resume(j) PROVE WebInv'
    BY <2>1, EnqueueKeeps DEF Submit, Resume, Accepts
  <2>2. CASE Executor
    BY <2>2, StartRunKeeps, SessionKeeps, SettleKeeps, FinishKeeps DEF Executor
  <2>3. CASE Start \/ Close \/ Closed \/ Crash
    BY <2>3, ServerKeeps
  <2>4. CASE UNCHANGED vars
    <3>1. Scheduled' = Scheduled /\ Queued' = Queued
      BY <2>4 DEF vars, Scheduled, Queued
    <3>2. QED
      BY <2>4, <3>1 DEF vars, WebInv, TypeOK, ScheduleInv, RunInv, RecordInv, RecordBacked
  <2>5. QED
    BY <2>1, <2>2, <2>3, <2>4 DEF Next
<1>2. QED
  BY <1>1, WebBegins, PTL DEF Spec

-----------------------------------------------------------------------------
(* The theorems.                                                           *)

(* However requests to submit, resume and restart interleave with the      *)
(* thread, no job is queued twice or queued while it runs (_active).       *)
THEOREM JobsRunOnce == Spec => []OneRunPerJob
PROOF
<1>1. WebInv => OneRunPerJob
  BY DEF WebInv, ScheduleInv, Distinct, Queued, OneRunPerJob
<1>2. QED
  BY <1>1, WebKept, PTL

(* No record claims more than the checkpoint of its job says, whichever    *)
(* step of a run a process died at (_run).                                 *)
THEOREM RecordsAreBacked == Spec => []RecordsHold
PROOF
<1>1. WebInv => RecordsHold
  BY DEF WebInv, RecordInv, RecordsHold
<1>2. QED
  BY <1>1, WebKept, PTL

(* A job shown as queued or running is scheduled, and an unfinished one    *)
(* that is not is offered for resume and accepted, for every job whose     *)
(* record can be written (_get, status, resume).                           *)
THEOREM StatusStaysTrue == Spec => []StatusIsTrue
PROOF
<1>1. WebInv => StatusIsTrue
  <2> SUFFICES ASSUME WebInv PROVE StatusIsTrue
    OBVIOUS
  <2>1. ShownIsScheduled
    BY DEF WebInv, RecordInv, ShownIsScheduled, View
  <2>2. UnfinishedIsResumable
    <3> SUFFICES ASSUME server # "down", NEW j \in Jobs \ Unwritable,
                        checkpoint[j] \in {"running", "interrupted", "manual_review"},
                        j \notin Scheduled
                 PROVE  CanResume(j) /\ Accepts(j)
      BY DEF UnfinishedIsResumable
    <3>1. j \notin active
      BY DEF WebInv, ScheduleInv
    <3>2. View(j) \notin {"queued", "running"}
      BY <2>1 DEF ShownIsScheduled
    <3>3. View(j) # "completed"
      BY DEF WebInv, RecordInv, RecordBacked, View
    <3>4. QED
      BY <3>1, <3>2, <3>3 DEF CanResume, Accepts
  <2>3. QED
    BY <2>1, <2>2 DEF StatusIsTrue
<1>2. QED
  BY <1>1, WebKept, PTL
=============================================================================
