---------------------------- MODULE WorkflowProofs ----------------------------
(***************************************************************************)
(* Proofs about Workflow for every number of files, of jobs, of threads    *)
(* and of faults, and every size of a chunk.                               *)
(*                                                                         *)
(* StageInv says what the threads may be at by the place of the main       *)
(* thread, DoneInv what a finished step left behind, RowInv what the       *)
(* database says meanwhile, and WholeInv what a job is when it is handed   *)
(* on.  The fairness of Spec is not used.                                  *)
(***************************************************************************)
EXTENDS Workflow, FiniteSetTheorems, TLAPS

-----------------------------------------------------------------------------
(* The invariant.                                                          *)

Open == {"pending", "running"}
Statuses == {"none", "pending", "running", "completed", "failed"}
TaskStatuses == {"none", "pending", "running", "completed", "failed"}
Steps == Active \cup {"none", "queued", "ok", "failed", "lost", "cancelled", "dropped"}
Reasons == {"none", "worker", "database", "agent", "interrupted", "unwritten", "died"}
Places == {"idle", "run", "convert", "scan", "parse", "draining", "aggregate", "analyze",
           "agent", "completing", "raising"}
Pipeline == {"scan", "parse", "draining", "aggregate", "analyze"}

ShapeInv ==
  /\ row \in [Jobs -> [status : Statuses, error : Reasons]]
  /\ tasks \in [Jobs -> [Tasks -> TaskStatuses]]
  /\ target \in [Jobs -> Targets \cup {"snapshot"}]
  /\ manifest \in [Jobs -> SUBSET (1 .. Files)]
  /\ DOMAIN scan = Jobs /\ \A j \in Jobs : scan[j] \in {Absent, manifest[j]}
  /\ analysed \subseteq Jobs /\ tree \subseteq Jobs /\ checkpoint \subseteq Jobs
  /\ job \in Jobs /\ pc \in Places /\ collected \in Nat /\ reason \in Reasons
  /\ step \in [Tasks -> Steps] /\ faults \in Nat

(* What the threads may be at, by the place of the main thread.            *)
StageInv ==
  /\ \A c \in Chunks : step[c] # "none" => c \in ChunksOf(job)
  /\ Queued # {} => pc = "parse"
  /\ pc \in {"run", "convert"} => \A t \in Tasks : step[t] = "none"
  /\ pc = "scan" => \A t \in Tasks \ {MainTask.scan} : step[t] = "none"
  /\ pc \in {"run", "scan"} => collected = 0
  /\ pc \in Pipeline \ {"scan"} => step[MainTask.scan] = "ok"
  /\ pc \in {"parse", "draining"} => step[MainTask.aggregate] = "none"
  /\ pc \in {"parse", "draining", "aggregate"} => step[MainTask.analyze] = "none"
  /\ pc = "parse" => collected <= Cardinality(ChunksOf(job))
                     /\ \A c \in 1 .. collected : step[c] = "ok"
  /\ pc \in {"aggregate", "analyze"} => \A c \in ChunksOf(job) : step[c] = "ok"
  /\ pc = "analyze" => step[MainTask.aggregate] = "ok"
  /\ pc \in {"agent", "completing"} => \A t \in Tasks : step[t] \in {"none", "ok"}
  /\ pc \in {"raising", "idle"} => \A t \in MainTasks : step[t] \notin Active
  /\ pc = "raising" /\ reason # "interrupted" =>
       \A t \in Tasks : step[t] \notin Active \cup {"dropped"}
  /\ \A c \in Chunks : step[c] # "dropped"
  /\ Cardinality(Busy) <= MaxWorkers

(* What a step of a thread leaves behind when it is done.                  *)
DoneInv ==
  /\ \A t \in Tasks : step[t] = "ok" => tasks[job][t] = "completed"
  /\ step[MainTask.aggregate] \in {"finish", "ok"} => scan[job] = manifest[job]
  /\ step[MainTask.analyze] \in {"finish", "ok"} => job \in analysed
  /\ pc # "idle" /\ faults = 0 =>
       \A t \in Tasks : tasks[job][t] \in Open =>
                          step[t] \in {"start", "work", "finish", "failing", "dropped"}

(* The row says where the main thread is; a job of its own has no tasks.   *)
RowInv ==
  /\ pc \in {"run", "convert"} => row[job].status = "pending"
  /\ pc \notin {"idle", "run", "convert"} => row[job].status = "running"
  /\ pc = "idle" /\ Busy # {} =>
       row[job].status = "running" \/ row[job] = [status |-> "failed", error |-> "interrupted"]
  /\ pc \in Pipeline \cup {"run"} => target[job] # "snapshot" /\ job \notin checkpoint
  /\ pc = "convert" => target[job] = "snapshot" /\ job \notin checkpoint
  /\ pc \in {"run", "scan"} => /\ scan[job] = Absent
                               /\ \A c \in Chunks : tasks[job][c] = "none"
  /\ pc \in {"analyze", "agent"} => target[job] # "scan"
  /\ job \in checkpoint => Busy = {}
  /\ target[job] = "snapshot" => \A t \in Tasks : step[t] = "none"
  /\ \A j \in Jobs : target[j] = "snapshot" => \A t \in Tasks : tasks[j][t] = "none"
  /\ \A j \in Jobs : \A c \in Chunks \ ChunksOf(j) : tasks[j][c] = "none"
  /\ \A j \in Jobs : row[j].status = "none" =>
       /\ scan[j] = Absent /\ j \notin analysed \cup tree \cup checkpoint
       /\ \A t \in Tasks : tasks[j][t] = "none"

(* What is completed, or handed to an agent, is whole.                     *)
Whole(j) ==
  target[j] # "snapshot" =>
    /\ scan[j] = manifest[j]
    /\ \A t \in {MainTask.scan, MainTask.aggregate} \cup ChunksOf(j) : tasks[j][t] = "completed"
    /\ target[j] # "scan" => /\ j \in analysed \cap tree
                              /\ tasks[j][MainTask.analyze] = "completed"
WholeInv ==
  \A j \in Jobs :
    /\ row[j].status = "completed" => Whole(j)
    /\ j \in checkpoint => Whole(j) /\ target[j] # "scan"
    /\ j = job /\ pc \in {"agent", "completing"} => Whole(j)

WorkflowInv == ShapeInv /\ StageInv /\ DoneInv /\ RowInv /\ WholeInv /\ FailedLeavesNoTask

-----------------------------------------------------------------------------
(* Tasks and chunks.                                                       *)

(* The tasks of the main thread are none of the chunks.                    *)
LEMMA TasksAre ==
  /\ MainTask.scan = 0 /\ MainTask.aggregate = -1 /\ MainTask.analyze = -2
  /\ DOMAIN MainTask = {"scan", "aggregate", "analyze"}
  /\ MainTasks = {0, -1, -2}
  /\ Chunks \subseteq Nat \ {0} /\ IsFiniteSet(Chunks)
  /\ Tasks = {0, -1, -2} \cup Chunks /\ IsFiniteSet(Tasks)
PROOF
<1>1. /\ MainTask.scan = 0 /\ MainTask.aggregate = -1 /\ MainTask.analyze = -2
      /\ DOMAIN MainTask = {"scan", "aggregate", "analyze"}
  BY DEF MainTask
<1>2. MainTasks = {0, -1, -2}
  BY <1>1 DEF MainTasks
<1>3. (Files + ChunkSize - 1) \div ChunkSize \in Int
  BY BoundsAssumption
<1>4. Chunks \subseteq Nat \ {0} /\ IsFiniteSet(Chunks)
  BY <1>3, FS_Interval DEF Chunks
<1>5. Tasks = {0, -1, -2} \cup Chunks
  BY <1>2 DEF Tasks
<1>6. IsFiniteSet({0, -1, -2})
  <2>1. IsFiniteSet({-2})
    BY FS_Singleton
  <2>2. IsFiniteSet({-2} \cup {-1})
    BY <2>1, FS_AddElement
  <2>3. IsFiniteSet(({-2} \cup {-1}) \cup {0})
    BY <2>2, FS_AddElement
  <2>4. {0, -1, -2} = ({-2} \cup {-1}) \cup {0}
    OBVIOUS
  <2>5. QED
    BY <2>3, <2>4
<1>7. IsFiniteSet(Tasks)
  BY <1>4, <1>5, <1>6, FS_Union
<1>8. QED
  BY <1>1, <1>2, <1>4, <1>5, <1>7

(* The chunks of a job are numbered from 1.                                *)
LEMMA ChunksAreNumbered ==
  ASSUME ShapeInv, NEW j \in Jobs
  PROVE  /\ ChunksOf(j) \subseteq Chunks
         /\ Cardinality(ChunksOf(j)) \in Nat
         /\ ChunksOf(j) = 1 .. Cardinality(ChunksOf(j))
PROOF
<1> DEFINE S == ChunksOf(j)
           n == Cardinality(S)
           m == Cardinality(manifest[j])
<1>1. m \in Nat
  <2>1. IsFiniteSet(1 .. Files)
    BY BoundsAssumption, FS_Interval
  <2>2. QED
    BY <2>1, FS_Subset, FS_CardinalityType DEF ShapeInv
<1> HIDE DEF m
<1>2. S \subseteq Chunks /\ \A c \in Chunks : c \in S <=> (c - 1) * ChunkSize < m
  BY DEF ChunksOf, m
<1>3. ASSUME NEW c \in S, NEW d \in 1 .. c PROVE d \in S
  <2>0. c \in Nat \ {0}
    BY <1>2, TasksAre
  <2>1. c \in Nat /\ d \in Nat /\ d >= 1 /\ d <= c /\ ChunkSize \in Nat /\ ChunkSize > 0
    BY <2>0, BoundsAssumption
  <2>2. d \in Chunks
    BY <1>2, <2>1, BoundsAssumption DEF Chunks
  <2>3. (d - 1) * ChunkSize <= (c - 1) * ChunkSize
    BY <2>1
  <2>4. (d - 1) * ChunkSize \in Int /\ (c - 1) * ChunkSize \in Int
    BY <2>1
  <2>5. (c - 1) * ChunkSize < m
    BY <1>2
  <2> DEFINE x == (d - 1) * ChunkSize
             y == (c - 1) * ChunkSize
  <2>6. x \in Int /\ y \in Int /\ x <= y /\ y < m
    BY <2>3, <2>4, <2>5
  <2> HIDE DEF x, y
  <2>7. x < m
    BY <1>1, <2>6
  <2>8. QED
    BY <1>2, <2>2, <2>7 DEF x
<1>4. IsFiniteSet(S) /\ n \in Nat
  BY <1>2, TasksAre, FS_Subset, FS_CardinalityType
<1> HIDE DEF S
<1>5. S \subseteq 1 .. n
  <2> SUFFICES ASSUME NEW c \in S PROVE c \in 1 .. n
    OBVIOUS
  <2>1. c \in Nat \ {0}
    BY <1>2, TasksAre
  <2>2. 1 .. c \in SUBSET S
    BY <1>3
  <2>3. Cardinality(1 .. c) = c
    BY <2>1, FS_Interval
  <2>4. c <= n
    BY <1>4, <2>2, <2>3, FS_Subset
  <2>5. QED
    BY <1>4, <2>1, <2>4
<1>6. IsFiniteSet(1 .. n) /\ Cardinality(1 .. n) = n
  BY <1>4, FS_Interval
<1> HIDE DEF n
<1>7. S = 1 .. n
  <2>1. S \in SUBSET (1 .. n) /\ Cardinality(S) = Cardinality(1 .. n)
    BY <1>5, <1>6 DEF n
  <2>2. QED
    BY <1>6, <2>1, FS_Subset
<1>8. QED
  BY <1>2, <1>4, <1>7 DEF S, n

-----------------------------------------------------------------------------
(* The threads.                                                            *)

(* Where a job is whose thread is at work.                                 *)
LEMMA BusyMeans ==
  ASSUME WorkflowInv, NEW t \in Tasks, step[t] \in Active
  PROVE  /\ pc \in Pipeline \cup {"raising", "idle"}
         /\ row[job].status # "completed" /\ row[job].status # "none"
         /\ row[job].status = "failed" => pc = "idle" /\ row[job].error = "interrupted"
         /\ target[job] # "snapshot" /\ job \notin checkpoint
         /\ t \in MainTasks => pc \in DOMAIN MainTask /\ t = MainTask[pc]
         /\ t \in Chunks => pc \in {"parse", "draining", "raising", "idle"} /\ t \in ChunksOf(job)
PROOF
<1>1. ShapeInv /\ StageInv /\ RowInv /\ t \in Busy
  BY DEF WorkflowInv, Busy
<1>2. /\ step[t] # "none" /\ step[t] # "ok"
      /\ pc \in Pipeline \cup {"raising", "idle"}
  BY <1>1 DEF StageInv, ShapeInv, Active, Places, Pipeline
<1>3. pc = "idle" => row[job].status \in {"running", "failed"}
                     /\ (row[job].status = "failed" => row[job].error = "interrupted")
  BY <1>1 DEF RowInv
<1>4. pc # "idle" => row[job].status = "running"
  BY <1>1, <1>2 DEF RowInv, Pipeline
<1>5. target[job] # "snapshot" /\ job \notin checkpoint
  BY <1>1, <1>2 DEF RowInv
<1>6. ASSUME t \in MainTasks PROVE pc \in DOMAIN MainTask /\ t = MainTask[pc]
  BY <1>1, <1>2, <1>6, TasksAre DEF StageInv, Pipeline, Active
<1>7. ASSUME t \in Chunks
      PROVE  pc \in {"parse", "draining", "raising", "idle"} /\ t \in ChunksOf(job)
  BY <1>1, <1>2, <1>7, TasksAre DEF StageInv, Pipeline, Active
<1>8. QED
  BY <1>2, <1>3, <1>4, <1>5, <1>6, <1>7

(* What jobs are is read from rows and artifacts.                          *)
LEMMA WholeStays ==
  ASSUME UNCHANGED <<tasks, target, manifest, scan, analysed, tree>>, NEW j \in Jobs
  PROVE  (Whole(j)' <=> Whole(j)) /\ ChunksOf(j)' = ChunksOf(j)
PROOF
  BY DEF Whole, ChunksOf

(* A thread goes from one point of its task to the next: what it writes is *)
(* the row of the task, and the files of its chunk.                        *)
LEMMA ThreadMoves ==
  ASSUME WorkflowInv, NEW t \in Tasks, step[t] \in Active,
         NEW to \in Active \cup {"ok", "failed", "lost"}, NEW status \in TaskStatuses,
         step' = [step EXCEPT ![t] = to], tasks' = [tasks EXCEPT ![job][t] = status],
         to = "ok" => step[t] = "finish" /\ status = "completed",
         to = "finish" => t \in Chunks,
         faults' \in Nat, faults' = 0 => faults = 0,
         faults' = 0 /\ status \in Open => to \in {"start", "work", "finish", "failing"},
         UNCHANGED <<row, target, manifest, scan, analysed, tree, checkpoint, thread>>
  PROVE  WorkflowInv'
PROOF
<1>1. UNCHANGED <<job, pc, collected, reason>>
  BY DEF thread
<1>2. ShapeInv /\ StageInv /\ DoneInv /\ RowInv /\ WholeInv /\ FailedLeavesNoTask
  BY DEF WorkflowInv
<1>3. /\ job \in Jobs /\ step \in [Tasks -> Steps] /\ tasks \in [Jobs -> [Tasks -> TaskStatuses]]
      /\ to \in Steps /\ to # "none" /\ to # "queued" /\ to # "dropped"
  BY <1>2 DEF ShapeInv, Steps, Active
<1>4. \A s \in Tasks : step'[s] = IF s = t THEN to ELSE step[s]
  BY <1>3
<1>5. \A j \in Jobs : \A s \in Tasks :
        tasks'[j][s] = IF j = job /\ s = t THEN status ELSE tasks[j][s]
  BY <1>3
<1>6. \A j \in Jobs : ChunksOf(j)' = ChunksOf(j)
  BY DEF ChunksOf
<1>7. /\ pc \in Pipeline \cup {"raising", "idle"}
      /\ row[job].status # "completed" /\ row[job].status # "none"
      /\ row[job].status = "failed" => pc = "idle" /\ row[job].error = "interrupted"
      /\ target[job] # "snapshot" /\ job \notin checkpoint
      /\ t \in MainTasks => pc \in DOMAIN MainTask /\ t = MainTask[pc]
      /\ t \in Chunks => pc \in {"parse", "draining", "raising", "idle"} /\ t \in ChunksOf(job)
  BY BusyMeans
<1>8. ShapeInv'
  BY <1>1, <1>2, <1>3 DEF ShapeInv
<1>9. Busy' \subseteq Busy /\ Queued' = Queued /\ t \in Busy
  BY <1>3, <1>4 DEF Busy, Queued, Active
<1>10. StageInv'
  <2>1. /\ \A c \in Chunks : step'[c] # "none" => c \in ChunksOf(job)
        /\ \A c \in Chunks : step'[c] # "dropped"
        /\ Queued' # {} => pc = "parse"
    BY <1>2, <1>3, <1>4, <1>7, <1>9, TasksAre DEF StageInv
  <2>2. /\ pc = "scan" => \A s \in Tasks \ {MainTask.scan} : step'[s] = "none"
        /\ pc \in Pipeline \ {"scan"} => step'[MainTask.scan] = "ok"
        /\ pc \in {"parse", "draining"} => step'[MainTask.aggregate] = "none"
        /\ pc \in {"parse", "draining", "aggregate"} => step'[MainTask.analyze] = "none"
        /\ pc \in {"aggregate", "analyze"} => \A c \in ChunksOf(job) : step'[c] = "ok"
        /\ pc = "analyze" => step'[MainTask.aggregate] = "ok"
    <3>1. /\ t = 0 => pc = "scan"
          /\ t = -1 => pc = "aggregate"
          /\ t = -2 => pc = "analyze"
      BY <1>7, TasksAre
    <3>2. ChunksOf(job) \subseteq Chunks
      BY DEF ChunksOf
    <3>3. QED
      BY <1>2, <1>4, <1>7, <3>1, <3>2, TasksAre DEF StageInv, Pipeline
  <2>3. pc = "parse" => collected <= Cardinality(ChunksOf(job))
                        /\ \A c \in 1 .. collected : step'[c] = "ok"
    <3> SUFFICES ASSUME pc = "parse" PROVE \A c \in 1 .. collected : step'[c] = "ok"
      BY <1>2 DEF StageInv
    <3>1. collected \in Nat /\ collected <= Cardinality(ChunksOf(job))
      BY <1>2 DEF StageInv, ShapeInv
    <3>2. 1 .. collected \subseteq Chunks
      BY <1>2, <1>3, <3>1, ChunksAreNumbered
    <3>3. \A c \in 1 .. collected : step[c] = "ok" /\ c \in Tasks
      BY <1>2, <3>2, TasksAre DEF StageInv
    <3>4. t \notin 1 .. collected
      BY <3>3 DEF Active
    <3>5. QED
      BY <1>4, <3>3, <3>4
  <2>4. /\ pc \in {"raising", "idle"} => \A s \in MainTasks : step'[s] \notin Active
        /\ pc = "raising" /\ reason # "interrupted" =>
             \A s \in Tasks : step'[s] \notin Active \cup {"dropped"}
    BY <1>2, <1>3, <1>4, <1>7, TasksAre DEF StageInv
  <2>5. Cardinality(Busy') <= MaxWorkers
    <3>1. IsFiniteSet(Busy)
      BY TasksAre, FS_Subset DEF Busy
    <3>2. Cardinality(Busy') <= Cardinality(Busy) /\ Cardinality(Busy') \in Nat
          /\ Cardinality(Busy) \in Nat
      BY <1>9, <3>1, FS_Subset, FS_CardinalityType
    <3>3. QED
      BY <1>2, <3>2, BoundsAssumption DEF StageInv
  <2>6. pc \notin {"run", "convert", "agent", "completing"}
    BY <1>7 DEF Pipeline
  <2>7. pc = "scan" => collected = 0
    BY <1>2 DEF StageInv
  <2>8. QED
    BY <1>1, <1>3, <1>6, <2>1, <2>2, <2>3, <2>4, <2>5, <2>6, <2>7 DEF StageInv
<1>11. DoneInv'
  <2>1. \A s \in Tasks : step'[s] = "ok" => tasks'[job][s] = "completed"
    BY <1>2, <1>3, <1>4, <1>5 DEF DoneInv
  <2>2. /\ step'[MainTask.aggregate] \in {"finish", "ok"} => scan[job] = manifest[job]
        /\ step'[MainTask.analyze] \in {"finish", "ok"} => job \in analysed
    BY <1>2, <1>4, TasksAre DEF DoneInv
  <2>3. pc # "idle" /\ faults' = 0 =>
          \A s \in Tasks : tasks'[job][s] \in Open =>
                             step'[s] \in {"start", "work", "finish", "failing", "dropped"}
    BY <1>2, <1>3, <1>4, <1>5 DEF DoneInv
  <2>4. QED
    BY <1>1, <2>1, <2>2, <2>3 DEF DoneInv
<1>12. RowInv'
  <2>1. /\ \A j \in Jobs : target[j] = "snapshot" => \A s \in Tasks : tasks'[j][s] = "none"
        /\ \A j \in Jobs : row[j].status = "none" => \A s \in Tasks : tasks'[j][s] = "none"
    BY <1>2, <1>5, <1>7 DEF RowInv
  <2>2. \A j \in Jobs : \A c \in Chunks \ ChunksOf(j) : tasks'[j][c] = "none"
    BY <1>2, <1>5, <1>7, TasksAre DEF RowInv
  <2>3. pc \in {"run", "scan"} => \A c \in Chunks : tasks'[job][c] = "none"
    BY <1>2, <1>3, <1>5, <1>7, TasksAre DEF RowInv
  <2>4. pc = "idle" /\ Busy' # {} =>
          row[job].status = "running" \/ row[job] = [status |-> "failed", error |-> "interrupted"]
    BY <1>2, <1>9 DEF RowInv
  <2>5. QED
    BY <1>1, <1>2, <1>6, <1>7, <2>1, <2>2, <2>3, <2>4 DEF RowInv
<1>13. WholeInv'
  <2>1. \A j \in Jobs \ {job} : Whole(j) => Whole(j)'
    <3> SUFFICES ASSUME NEW j \in Jobs \ {job}, Whole(j) PROVE Whole(j)'
      OBVIOUS
    <3>1. \A s \in Tasks : tasks'[j][s] = tasks[j][s]
      BY <1>5
    <3>2. ChunksOf(j) \subseteq Tasks
      BY TasksAre DEF ChunksOf
    <3>3. QED
      BY <1>6, <3>1, <3>2, TasksAre DEF Whole
  <2>2. pc \notin {"agent", "completing"}
    BY <1>7 DEF Pipeline
  <2>3. QED
    BY <1>1, <1>2, <1>7, <2>1, <2>2 DEF WholeInv
<1>14. FailedLeavesNoTask'
  BY <1>2, <1>5, <1>7 DEF FailedLeavesNoTask
<1>15. QED
  BY <1>8, <1>10, <1>11, <1>12, <1>13, <1>14 DEF WorkflowInv

(* The steps that every task takes, and the parsing of a chunk.            *)
LEMMA TaskKeeps ==
  ASSUME WorkflowInv, NEW t \in Tasks,
         TaskStep(t) \/ TaskWriteFails(t) \/ (t \in Chunks /\ ParseChunk(t))
  PROVE  WorkflowInv'
PROOF
<1>1. /\ job \in Jobs /\ tasks \in [Jobs -> [Tasks -> TaskStatuses]] /\ faults \in Nat
      /\ tasks[job][t] \in TaskStatuses
  BY DEF WorkflowInv, ShapeInv
<1>2. tasks = [tasks EXCEPT ![job][t] = tasks[job][t]]
  BY <1>1
<1>3. CASE SaveTask(t)
  <2>1. step[t] \in Active /\ "start" \in Active /\ "pending" \in TaskStatuses
    BY <1>3 DEF SaveTask, Active, TaskStatuses
  <2>2. QED
    BY <1>1, <1>3, <2>1, ThreadMoves DEF SaveTask, Mark, Move, artifacts, counters
<1>4. CASE StartTask(t)
  <2>1. step[t] \in Active /\ "work" \in Active /\ "running" \in TaskStatuses
    BY <1>4 DEF StartTask, Active, TaskStatuses
  <2>2. QED
    BY <1>1, <1>4, <2>1, ThreadMoves DEF StartTask, Mark, Move, artifacts, counters
<1>5. CASE FinishTask(t)
  <2>1. step[t] \in Active /\ "completed" \in TaskStatuses /\ "completed" \notin Open
    BY <1>5 DEF FinishTask, Active, TaskStatuses, Open
  <2>2. QED
    BY <1>1, <1>5, <2>1, ThreadMoves DEF FinishTask, Mark, Move, artifacts, counters
<1>6. CASE FailTask(t)
  <2>1. step[t] \in Active /\ "failed" \in TaskStatuses /\ "failed" \notin Open
    BY <1>6 DEF FailTask, Active, TaskStatuses, Open
  <2>2. QED
    BY <1>1, <1>6, <2>1, ThreadMoves DEF FailTask, Mark, Move, artifacts, counters
<1>7. CASE t \in Chunks /\ ParseChunk(t)
  <2>1. PICK to \in {"finish", "failing"} :
          step[t] = "work" /\ step' = [step EXCEPT ![t] = to]
    BY <1>7 DEF ParseChunk, Written, Move
  <2>2. step[t] \in Active /\ to \in Active /\ to # "ok"
    BY <2>1 DEF Active
  <2>3. QED
    BY <1>1, <1>2, <1>7, <2>1, <2>2, ThreadMoves DEF ParseChunk, rows, counters
<1>8. CASE WorkRaises(t)
  <2>1. step[t] \in Active /\ "failing" \in Active
    BY <1>8 DEF WorkRaises, Active
  <2>2. QED
    BY <1>1, <1>2, <1>8, <2>1, ThreadMoves DEF WorkRaises, Move, rows, artifacts, counters
<1>9. CASE TaskWriteFails(t)
  <2>1. PICK to \in {"lost", "failing"} : step[t] \in Active /\ step' = [step EXCEPT ![t] = to]
    BY <1>9 DEF TaskWriteFails, Move, Active
  <2>2. /\ faults' \in Nat /\ faults' # 0 /\ to \in Active \cup {"ok", "failed", "lost"}
        /\ to # "ok" /\ to # "finish"
        /\ UNCHANGED <<row, tasks, target, manifest, scan, analysed, tree, checkpoint, thread>>
    BY <1>1, <1>9, <2>1 DEF TaskWriteFails, rows, artifacts, Active
  <2>3. QED
    BY <1>1, <1>2, <2>1, <2>2, ThreadMoves
<1>10. QED
  BY <1>3, <1>4, <1>5, <1>6, <1>7, <1>8, <1>9 DEF TaskStep

(* The work of a main task is done: its artifact is there, whatever the    *)
(* gate says of it.                                                        *)
LEMMA WorkKeeps == ASSUME WorkflowInv, Scan \/ Aggregate \/ Analyze PROVE WorkflowInv'
PROOF
<1>1. PICK at \in {"scan", "aggregate", "analyze"} :
        /\ Written(MainTask[at])
        /\ at = "scan" => Scan
        /\ at = "aggregate" => Aggregate
        /\ at = "analyze" => Analyze
  BY DEF Scan, Aggregate, Analyze
<1>0. PICK to \in {"finish", "failing"} :
        step[MainTask[at]] = "work" /\ step' = [step EXCEPT ![MainTask[at]] = to]
  BY <1>1 DEF Written, Move
<1> DEFINE t == MainTask[at]
<1>2. t \in Tasks /\ step[t] \in Active /\ t \in MainTasks
  BY <1>0, TasksAre DEF Active
<1>3. UNCHANGED <<row, tasks, target, tree, checkpoint, job, pc, collected, reason, faults>>
  BY <1>1 DEF Scan, Aggregate, Analyze, rows, thread, counters
<1>4. ShapeInv /\ StageInv /\ DoneInv /\ RowInv /\ WholeInv /\ FailedLeavesNoTask
  BY DEF WorkflowInv
<1>5. /\ pc = at
      /\ row[job].status # "completed" /\ row[job].status # "none"
      /\ target[job] # "snapshot" /\ job \notin checkpoint
  BY <1>1, <1>2, BusyMeans, TasksAre
<1>6. /\ job \in Jobs /\ step \in [Tasks -> Steps]
      /\ \A s \in Tasks : step'[s] = IF s = t THEN to ELSE step[s]
      /\ \A s \in Tasks : s # t => step[s] \notin {"finish"} \/ s \notin MainTasks
  BY <1>0, <1>2, <1>4, BusyMeans, TasksAre DEF ShapeInv, Active
<1>7. /\ \A j \in Jobs \ {job} : manifest'[j] = manifest[j] /\ scan'[j] = scan[j]
                                 /\ (j \in analysed' <=> j \in analysed)
      /\ manifest' \in [Jobs -> SUBSET (1 .. Files)] /\ DOMAIN scan' = Jobs
      /\ analysed \subseteq analysed' /\ analysed' \subseteq Jobs
  BY <1>1, <1>4, <1>6 DEF Scan, Aggregate, Analyze, ShapeInv, Listed
<1>8. /\ scan'[job] \in {Absent, manifest'[job]}
      /\ at = "scan" => scan'[job] = Absent
      /\ at = "aggregate" => scan'[job] = manifest'[job]
      /\ at = "analyze" => scan'[job] = scan[job] /\ manifest'[job] = manifest[job]
                           /\ job \in analysed'
      /\ at # "scan" => manifest' = manifest
  BY <1>1, <1>4, <1>5, <1>6 DEF Scan, Aggregate, Analyze, ShapeInv, RowInv
<1>9. /\ \A j \in Jobs \ {job} : ChunksOf(j)' = ChunksOf(j)
      /\ at # "scan" => ChunksOf(job)' = ChunksOf(job)
      /\ ChunksOf(job) \subseteq Chunks
  BY <1>3, <1>7, <1>8 DEF ChunksOf
<1> HIDE DEF t
<1>10. ShapeInv'
  <2>1. step' \in [Tasks -> Steps]
    BY <1>0, <1>6 DEF Steps, Active
  <2>2. \A j \in Jobs : scan'[j] \in {Absent, manifest'[j]}
    BY <1>4, <1>7, <1>8 DEF ShapeInv
  <2>3. QED
    BY <1>3, <1>4, <1>7, <2>1, <2>2 DEF ShapeInv
<1>11. Busy' = Busy /\ Queued' = Queued
  BY <1>0, <1>2, <1>6 DEF Busy, Queued, Active
<1>12. StageInv'
  <2>1. /\ \A c \in Chunks : step'[c] = step[c] /\ step[c] # "dropped"
        /\ \A c \in Chunks : step[c] # "none" => c \in ChunksOf(job) /\ at # "scan"
    <3>1. \A c \in Chunks : c \in Tasks /\ c # MainTask.scan /\ c # t
      BY <1>2, TasksAre
    <3>2. QED
      BY <1>4, <1>5, <1>6, <3>1 DEF StageInv
  <2>2. \A c \in Chunks : step'[c] # "none" => c \in ChunksOf(job)'
    BY <1>9, <2>1
  <2>3. /\ at = "scan" => \A s \in Tasks \ {MainTask.scan} : step'[s] = "none"
        /\ at # "scan" => step'[MainTask.scan] = "ok"
        /\ at = "aggregate" => step'[MainTask.analyze] = "none"
        /\ at # "scan" => \A c \in ChunksOf(job) : step'[c] = "ok"
        /\ at = "analyze" => step'[MainTask.aggregate] = "ok"
    <3>1. /\ \A u \in MainTasks : u # t => step'[u] = step[u]
          /\ t \in MainTasks /\ MainTasks \subseteq Tasks
      BY <1>2, <1>6, TasksAre
    <3>2. CASE at = "scan"
      <4>1. t = MainTask.scan
        BY <3>2 DEF t
      <4>2. QED
        BY <1>4, <1>5, <1>6, <3>2, <4>1 DEF StageInv
    <3>3. CASE at # "scan"
      <4>1. step'[MainTask.scan] = "ok"
        BY <1>4, <1>5, <1>6, <3>1, <3>3, TasksAre DEF StageInv, Pipeline, t
      <4>2. \A c \in ChunksOf(job) : step'[c] = "ok"
        BY <1>4, <1>5, <1>9, <2>1, <3>3 DEF StageInv
      <4>3. at = "aggregate" => step'[MainTask.analyze] = "none"
        BY <1>4, <1>5, <3>1, TasksAre DEF StageInv, t
      <4>4. at = "analyze" => step'[MainTask.aggregate] = "ok"
        BY <1>4, <1>5, <3>1, TasksAre DEF StageInv, t
      <4>5. QED
        BY <3>3, <4>1, <4>2, <4>3, <4>4
    <3>4. QED
      BY <3>2, <3>3
  <2>4. Cardinality(Busy') <= MaxWorkers /\ Queued' = {}
    BY <1>1, <1>4, <1>5, <1>11 DEF StageInv
  <2>5. at = "scan" => collected = 0
    BY <1>4, <1>5 DEF StageInv
  <2>6. QED
    BY <1>1, <1>3, <1>5, <1>9, <2>1, <2>2, <2>3, <2>4, <2>5 DEF StageInv, Pipeline
<1>13. DoneInv'
  <2>1. \A s \in Tasks : step'[s] = "ok" => tasks[job][s] = "completed"
    BY <1>0, <1>4, <1>6 DEF DoneInv
  <2>2. /\ step'[MainTask.aggregate] \in {"finish", "ok"} => scan'[job] = manifest'[job]
        /\ step'[MainTask.analyze] \in {"finish", "ok"} => job \in analysed'
    BY <1>1, <1>2, <1>4, <1>5, <1>6, <1>7, <1>8, TasksAre DEF DoneInv, StageInv, t
  <2>3. faults = 0 => \A s \in Tasks : tasks[job][s] \in Open =>
          step'[s] \in {"start", "work", "finish", "failing", "dropped"}
    BY <1>0, <1>4, <1>5, <1>6 DEF DoneInv
  <2>4. QED
    BY <1>3, <2>1, <2>2, <2>3 DEF DoneInv
<1>14. RowInv'
  <2>1. \A j \in Jobs : \A c \in Chunks \ ChunksOf(j)' : tasks[j][c] = "none"
    <3> SUFFICES ASSUME NEW j \in Jobs, NEW c \in Chunks \ ChunksOf(j)' PROVE tasks[j][c] = "none"
      OBVIOUS
    <3>1. CASE j = job /\ at = "scan"
      BY <1>4, <1>5, <3>1 DEF RowInv
    <3>2. CASE ~(j = job /\ at = "scan")
      <4>1. ChunksOf(j)' = ChunksOf(j)
        BY <1>3, <1>9, <3>2
      <4>2. QED
        BY <1>4, <4>1 DEF RowInv
    <3>3. QED
      BY <3>1, <3>2
  <2>2. \A j \in Jobs : row[j].status = "none" =>
          /\ scan'[j] = Absent /\ j \notin analysed' \cup tree \cup checkpoint
          /\ \A s \in Tasks : tasks[j][s] = "none"
    BY <1>4, <1>5, <1>7 DEF RowInv
  <2>3. QED
    BY <1>1, <1>3, <1>4, <1>5, <1>8, <1>11, <2>1, <2>2 DEF RowInv
<1>15. WholeInv'
  <2>1. \A j \in Jobs \ {job} : Whole(j) => Whole(j)'
    BY <1>3, <1>7, <1>9 DEF Whole
  <2>2. QED
    BY <1>1, <1>3, <1>4, <1>5, <2>1 DEF WholeInv
<1>16. FailedLeavesNoTask'
  BY <1>3, <1>4 DEF FailedLeavesNoTask
<1>17. QED
  BY <1>10, <1>12, <1>13, <1>14, <1>15, <1>16 DEF WorkflowInv

-----------------------------------------------------------------------------
(* The main thread.                                                        *)

(* The main thread goes on, and what it does to the steps of the others is *)
(* to queue, to take, to cancel or to drop them; it may write the tree.    *)
LEMMA MainWrites ==
  ASSUME WorkflowInv, UNCHANGED <<row, tasks, target, job, faults>>,
         UNCHANGED <<manifest, scan, analysed, checkpoint>>, tree' \in {tree, tree \cup {job}},
         pc \notin {"idle", "run", "convert"}, pc' \in Places \ {"idle", "run", "convert", "scan"},
         collected' \in Nat, reason' \in Reasons, step' \in [Tasks -> Steps],
         \A t \in Tasks :
           \/ step'[t] = step[t]
           \/ step[t] \in {"none", "queued"} /\ step'[t] \in {"save", "queued", "cancelled"}
           \/ step'[t] = "dropped",
         pc \in Pipeline \/ step' = step,
         pc' \in Pipeline => pc \in Pipeline,
         target[job] = "scan" => pc' \notin {"analyze", "agent"},
         pc' \in {"agent", "completing"} => Whole(job)',
         StageInv'
  PROVE  WorkflowInv'
PROOF
<1>1. tree \subseteq tree' /\ \A j \in Jobs \ {job} : j \in tree' => j \in tree
  OBVIOUS
<1>2. ShapeInv /\ StageInv /\ DoneInv /\ RowInv /\ WholeInv /\ FailedLeavesNoTask
  BY DEF WorkflowInv
<1>3. \A j \in Jobs : ChunksOf(j)' = ChunksOf(j) /\ (Whole(j) => Whole(j)')
  BY <1>1 DEF ChunksOf, Whole
<1>4. ShapeInv'
  BY <1>1, <1>2 DEF ShapeInv
<1>5. DoneInv'
  <2>1. \A t \in Tasks : /\ step'[t] = "ok" => step[t] = "ok"
                         /\ step'[t] = "finish" => step[t] = "finish"
    OBVIOUS
  <2>2. pc # "idle"
    OBVIOUS
  <2>3. \A t \in Tasks : step[t] \in {"start", "work", "finish", "failing", "dropped"} =>
                         step'[t] \in {"start", "work", "finish", "failing", "dropped"}
    OBVIOUS
  <2>4. /\ \A t \in Tasks : step'[t] = "ok" => tasks[job][t] = "completed"
        /\ step'[MainTask.aggregate] \in {"finish", "ok"} => scan[job] = manifest[job]
        /\ step'[MainTask.analyze] \in {"finish", "ok"} => job \in analysed
    BY <1>2, <2>1, TasksAre DEF DoneInv
  <2>5. faults = 0 => \A t \in Tasks : tasks[job][t] \in Open =>
                         step'[t] \in {"start", "work", "finish", "failing", "dropped"}
    BY <1>2, <2>2, <2>3 DEF DoneInv
  <2>6. QED
    BY <1>1, <2>4, <2>5 DEF DoneInv
<1>6. RowInv'
  <2>1. row[job].status = "running" /\ job \in Jobs
    BY <1>2 DEF RowInv, ShapeInv
  <2>2. pc \in Pipeline => target[job] # "snapshot" /\ job \notin checkpoint
    BY <1>2 DEF RowInv
  <2>3. pc \notin Pipeline => Busy' = Busy
    BY DEF Busy
  <2>4. /\ job \in checkpoint => Busy' = {}
        /\ target[job] = "snapshot" => \A t \in Tasks : step'[t] = "none"
    BY <1>2, <2>2, <2>3 DEF RowInv
  <2>5. pc' \notin {"run", "convert", "idle", "scan"}
    OBVIOUS
  <2>6. pc' \in Pipeline \cup {"run"} => target[job] # "snapshot" /\ job \notin checkpoint
    BY <2>2, <2>5
  <2>7. pc' \in {"analyze", "agent"} => target[job] # "scan"
    OBVIOUS
  <2>8. /\ \A j \in Jobs : target[j] = "snapshot" => \A t \in Tasks : tasks[j][t] = "none"
        /\ \A j \in Jobs : \A c \in Chunks \ ChunksOf(j)' : tasks[j][c] = "none"
        /\ \A j \in Jobs : row[j].status = "none" =>
             /\ scan[j] = Absent /\ j \notin analysed \cup tree' \cup checkpoint
             /\ \A t \in Tasks : tasks[j][t] = "none"
    BY <1>1, <1>2, <1>3, <2>1 DEF RowInv
  <2>9. QED
    BY <1>1, <2>1, <2>4, <2>5, <2>6, <2>7, <2>8 DEF RowInv
<1>7. WholeInv'
  BY <1>1, <1>2, <1>3 DEF WholeInv
<1>8. FailedLeavesNoTask'
  BY <1>2 DEF FailedLeavesNoTask
<1>9. QED
  BY <1>4, <1>5, <1>6, <1>7, <1>8 DEF WorkflowInv

(* The same, when it writes nothing.                                       *)
LEMMA MainMoves ==
  ASSUME WorkflowInv, UNCHANGED <<row, tasks, target, artifacts, job, faults>>,
         pc \notin {"idle", "run", "convert"}, pc' \in Places \ {"idle", "run", "convert", "scan"},
         collected' \in Nat, reason' \in Reasons, step' \in [Tasks -> Steps],
         \A t \in Tasks :
           \/ step'[t] = step[t]
           \/ step[t] \in {"none", "queued"} /\ step'[t] \in {"save", "queued", "cancelled"}
           \/ step'[t] = "dropped",
         pc \in Pipeline \/ step' = step,
         pc' \in Pipeline => pc \in Pipeline,
         target[job] = "scan" => pc' \notin {"analyze", "agent"},
         pc' \in {"agent", "completing"} => Whole(job),
         StageInv'
  PROVE  WorkflowInv'
PROOF
<1>1. UNCHANGED <<manifest, scan, analysed, tree, checkpoint>> /\ job \in Jobs
  BY DEF artifacts, WorkflowInv, ShapeInv
<1>2. Whole(job) => Whole(job)'
  BY <1>1 DEF Whole, ChunksOf
<1>3. QED
  BY <1>1, <1>2, MainWrites

(* The chunks are queued when the scan is done.                            *)
LEMMA AfterScanKeeps == ASSUME WorkflowInv, AfterScan PROVE WorkflowInv'
PROOF
<1>1. /\ pc = "scan" /\ pc' = "parse" /\ step[MainTask.scan] = "ok"
      /\ step' = [t \in Tasks |-> IF t \in ChunksOf(job) THEN "queued" ELSE step[t]]
      /\ UNCHANGED <<row, tasks, target, artifacts, manifest, job, collected, reason, faults>>
  BY DEF AfterScan, rows, counters, artifacts
<1>2. ShapeInv /\ StageInv /\ RowInv
  BY DEF WorkflowInv
<1>3. /\ collected = 0 /\ \A t \in Tasks \ {MainTask.scan} : step[t] = "none"
      /\ target[job] # "snapshot" /\ job \in Jobs
  BY <1>1, <1>2 DEF StageInv, RowInv, ShapeInv, Pipeline
<1>4. ChunksOf(job)' = ChunksOf(job) /\ ChunksOf(job) \subseteq Chunks
      /\ Cardinality(ChunksOf(job)) \in Nat
  BY <1>1, <1>2, <1>3, ChunksAreNumbered DEF ChunksOf
<1>5. \A t \in Tasks : step'[t] = IF t \in ChunksOf(job) THEN "queued"
                                  ELSE IF t = MainTask.scan THEN "ok" ELSE "none"
  BY <1>1, <1>3
<1>6. \A t \in Tasks : step'[t] \notin Active \cup {"dropped"}
  BY <1>5 DEF Active
<1>7. Busy' = {}
  BY <1>6 DEF Busy
<1>8. StageInv'
  <2>1. Cardinality(Busy') <= MaxWorkers
    BY <1>7, FS_EmptySet, BoundsAssumption
  <2>2. /\ step'[MainTask.scan] = "ok" /\ step'[MainTask.aggregate] = "none"
        /\ step'[MainTask.analyze] = "none"
    BY <1>4, <1>5, TasksAre
  <2>3. \A c \in Chunks : /\ step'[c] # "dropped"
                          /\ step'[c] # "none" => c \in ChunksOf(job)
    BY <1>5, TasksAre
  <2>4. QED
    BY <1>1, <1>3, <1>4, <2>1, <2>2, <2>3 DEF StageInv
<1>9. step' \in [Tasks -> Steps]
  BY <1>1, <1>2 DEF Steps, ShapeInv
<1>10. \A t \in Tasks : step'[t] = step[t] \/ (step[t] = "none" /\ step'[t] = "queued")
  BY <1>1, <1>3, <1>4, TasksAre
<1>11. pc \in Pipeline /\ pc' \in Places /\ collected' \in Nat /\ reason' \in Reasons
  BY <1>1, <1>2 DEF Pipeline, Places, ShapeInv
<1>12. QED
  BY <1>1, <1>8, <1>9, <1>10, <1>11, MainMoves

(* A thread of the pool takes a chunk when one is free.                    *)
LEMMA TakeChunkKeeps == ASSUME WorkflowInv, NEW c \in Chunks, TakeChunk(c) PROVE WorkflowInv'
PROOF
<1>1. /\ step[c] = "queued" /\ Cardinality(Busy) < MaxWorkers
      /\ step' = [step EXCEPT ![c] = "save"]
      /\ UNCHANGED <<row, tasks, target, artifacts, manifest, job, pc, collected, reason, faults>>
  BY DEF TakeChunk, Move, rows, thread, counters, artifacts
<1>2. ShapeInv /\ StageInv /\ c \in Tasks
  BY TasksAre DEF WorkflowInv
<1>3. pc = "parse"
  BY <1>1, <1>2 DEF StageInv, Queued
<1>4. \A t \in Tasks : step'[t] = IF t = c THEN "save" ELSE step[t]
  BY <1>1, <1>2 DEF ShapeInv
<1>5. ChunksOf(job)' = ChunksOf(job)
  BY <1>1 DEF ChunksOf
<1>6. Cardinality(Busy') <= MaxWorkers
  <2>1. Busy' = Busy \cup {c} /\ c \notin Busy
    BY <1>1, <1>2, <1>4 DEF Busy, Active
  <2>2. IsFiniteSet(Busy) /\ Cardinality(Busy) \in Nat
    BY TasksAre, FS_Subset, FS_CardinalityType DEF Busy
  <2>3. Cardinality(Busy') = Cardinality(Busy) + 1
    BY <2>1, <2>2, FS_AddElement
  <2>4. QED
    BY <1>1, <2>2, <2>3, BoundsAssumption
<1>7. StageInv'
  <2>1. /\ \A d \in Chunks : /\ step'[d] # "dropped"
                             /\ step'[d] # "none" => d \in ChunksOf(job)
        /\ step'[MainTask.scan] = "ok" /\ step'[MainTask.aggregate] = "none"
        /\ step'[MainTask.analyze] = "none"
    BY <1>1, <1>2, <1>3, <1>4, TasksAre DEF StageInv, Pipeline
  <2>2. collected <= Cardinality(ChunksOf(job)) /\ \A d \in 1 .. collected : step'[d] = "ok"
    <3>1. /\ collected \in Nat /\ collected <= Cardinality(ChunksOf(job)) /\ job \in Jobs
          /\ \A d \in 1 .. collected : step[d] = "ok"
      BY <1>2, <1>3 DEF StageInv, ShapeInv
    <3>2. 1 .. collected \subseteq Tasks
      BY <1>2, <3>1, ChunksAreNumbered, TasksAre
    <3>3. QED
      BY <1>1, <1>4, <3>1, <3>2
  <2>3. QED
    BY <1>1, <1>3, <1>5, <1>6, <2>1, <2>2 DEF StageInv
<1>8. step' \in [Tasks -> Steps] /\ pc \in Pipeline /\ pc \in Places
      /\ collected \in Nat /\ reason \in Reasons
  BY <1>1, <1>2, <1>3 DEF Steps, Active, ShapeInv, Pipeline, Places
<1>9. \A t \in Tasks : step'[t] = step[t] \/ (step[t] = "queued" /\ step'[t] = "save")
  BY <1>1, <1>4
<1>10. QED
  BY <1>1, <1>3, <1>7, <1>8, <1>9, MainMoves

(* A main task is handed in when the threads of the pool are done.         *)
LEMMA SubmitKeeps ==
  ASSUME WorkflowInv, NEW at \in {"aggregate", "analyze"}, pc' = at,
         step' = [step EXCEPT ![MainTask[at]] = "save"],
         \A c \in ChunksOf(job) : step[c] = "ok",
         at = "aggregate" => pc = "parse",
         at = "analyze" =>
           pc = "aggregate" /\ step[MainTask.aggregate] = "ok" /\ target[job] # "scan",
         UNCHANGED <<row, tasks, target, artifacts, job, collected, reason, faults>>
  PROVE  WorkflowInv'
PROOF
<1> DEFINE t == MainTask[at]
<1>1. ShapeInv /\ StageInv /\ pc \in {"parse", "aggregate"} /\ pc \in Pipeline /\ t \in Tasks
      /\ t \in MainTasks
  BY TasksAre DEF WorkflowInv, Pipeline
<1>2. \A s \in Tasks : step'[s] = IF s = t THEN "save" ELSE step[s]
  BY <1>1 DEF ShapeInv
<1>3. /\ \A c \in Chunks : step[c] \in {"none", "ok"} /\ (step[c] # "none" => c \in ChunksOf(job))
      /\ step[MainTask.scan] = "ok" /\ step[MainTask.analyze] = "none"
      /\ at = "aggregate" => step[MainTask.aggregate] = "none"
      /\ ChunksOf(job) \subseteq Chunks
  BY <1>1 DEF StageInv, Pipeline, ChunksOf
<1>4. \A s \in Tasks : step[s] \in {"none", "ok"} /\ step[t] = "none"
  BY <1>1, <1>3, TasksAre
<1>5. Busy' = {t} /\ Queued' = {}
  BY <1>1, <1>2, <1>4 DEF Busy, Queued, Active
<1>6. ChunksOf(job)' = ChunksOf(job)
  BY DEF ChunksOf, artifacts
<1>7. StageInv'
  <2>1. Cardinality(Busy') <= MaxWorkers
    BY <1>5, FS_Singleton, BoundsAssumption
  <2>2. \A c \in Chunks : step'[c] = step[c]
    BY <1>1, <1>2, TasksAre
  <2>3. /\ step'[MainTask.scan] = "ok"
        /\ at = "aggregate" => step'[MainTask.analyze] = "none"
        /\ at = "analyze" => step'[MainTask.aggregate] = "ok"
    BY <1>2, <1>3, TasksAre
  <2>4. QED
    BY <1>3, <1>5, <1>6, <2>1, <2>2, <2>3 DEF StageInv
<1>8. step' \in [Tasks -> Steps] /\ pc' \in Places /\ collected' \in Nat /\ reason' \in Reasons
  BY <1>1 DEF Steps, Active, ShapeInv, Pipeline, Places
<1>9. \A s \in Tasks : step'[s] = step[s] \/ (step[s] = "none" /\ step'[s] = "save")
  BY <1>2, <1>4
<1> HIDE DEF t
<1>10. QED
  BY <1>1, <1>7, <1>8, <1>9, MainMoves

(* Every result is collected before the aggregation, and every file is     *)
(* aggregated before the analysis, or the end of a job that only scans.    *)
LEMMA AfterKeeps ==
  ASSUME WorkflowInv, AfterParse \/ AfterAggregate \/ AfterAnalyze PROVE WorkflowInv'
PROOF
<1>1. ShapeInv /\ StageInv /\ DoneInv /\ RowInv /\ job \in Jobs
  BY DEF WorkflowInv, ShapeInv
<1>2. /\ UNCHANGED <<row, tasks, target, manifest, scan, analysed, checkpoint, job, collected,
                     reason, faults>>
      /\ ChunksOf(job)' = ChunksOf(job)
      /\ AfterParse \/ AfterAggregate => UNCHANGED artifacts
      /\ tree' = IF AfterAnalyze THEN tree \cup {job} ELSE tree
  BY DEF AfterParse, AfterAggregate, AfterAnalyze, rows, counters, artifacts, ChunksOf
<1>3. CASE AfterParse
  <2>1. pc = "parse" /\ collected = Cardinality(ChunksOf(job)) /\ pc' = "aggregate"
        /\ step' = [step EXCEPT ![MainTask["aggregate"]] = "save"]
    BY <1>3 DEF AfterParse, Submit, Move
  <2>2. \A c \in ChunksOf(job) : step[c] = "ok"
    BY <1>1, <2>1, ChunksAreNumbered DEF StageInv
  <2>3. QED
    BY <1>2, <1>3, <2>1, <2>2, SubmitKeeps
<1>4. CASE AfterAggregate /\ target[job] # "scan"
  <2>1. pc = "aggregate" /\ step[MainTask.aggregate] = "ok" /\ pc' = "analyze"
        /\ step' = [step EXCEPT ![MainTask["analyze"]] = "save"]
    BY <1>4 DEF AfterAggregate, Submit, Move
  <2>2. \A c \in ChunksOf(job) : step[c] = "ok"
    BY <1>1, <2>1 DEF StageInv
  <2>3. QED
    BY <1>2, <1>4, <2>1, <2>2, SubmitKeeps
<1>5. CASE AfterAnalyze \/ (AfterAggregate /\ target[job] = "scan")
  <2>1. /\ step' = step /\ pc \in {"aggregate", "analyze"} /\ pc' \in {"agent", "completing"}
        /\ step[MainTask[pc]] = "ok"
        /\ pc = "aggregate" => target[job] = "scan" /\ pc' = "completing"
        /\ pc' = "agent" => pc = "analyze"
        /\ pc = "analyze" => job \in tree'
    BY <1>5 DEF AfterAnalyze, AfterAggregate
  <2>2. /\ step[MainTask.scan] = "ok" /\ step[MainTask.aggregate] = "ok"
        /\ pc = "analyze" => step[MainTask.analyze] = "ok" /\ target[job] # "scan"
        /\ pc = "aggregate" => step[MainTask.analyze] = "none"
        /\ \A c \in ChunksOf(job) : step[c] = "ok"
        /\ \A c \in Chunks : step[c] # "none" => c \in ChunksOf(job)
    BY <1>1, <2>1, TasksAre DEF StageInv, RowInv, Pipeline
  <2>3. \A t \in Tasks : step[t] \in {"none", "ok"}
    BY <2>1, <2>2, TasksAre
  <2>4. Whole(job)'
    <3>1. ChunksOf(job) \subseteq Tasks /\ {MainTask.scan, MainTask.aggregate, MainTask.analyze}
                                             \subseteq Tasks
      BY TasksAre DEF ChunksOf
    <3>2. \A t \in Tasks : step[t] = "ok" => tasks[job][t] = "completed"
      BY <1>1 DEF DoneInv
    <3>3. scan[job] = manifest[job] /\ (pc = "analyze" => job \in analysed)
      BY <1>1, <2>2 DEF DoneInv
    <3>4. QED
      BY <1>2, <2>1, <2>2, <3>1, <3>2, <3>3 DEF Whole
  <2>5. Busy' = {} /\ Queued' = {}
    BY <2>1, <2>3 DEF Busy, Queued, Active
  <2>6. StageInv'
    <3>1. Cardinality(Busy') <= MaxWorkers
      BY <2>5, FS_EmptySet, BoundsAssumption
    <3>2. \A c \in Chunks : step[c] # "dropped"
      BY <1>1 DEF StageInv
    <3>3. QED
      BY <1>2, <2>1, <2>2, <2>3, <2>5, <3>1, <3>2 DEF StageInv, Pipeline
  <2>7. step' \in [Tasks -> Steps] /\ pc' \in Places /\ collected' \in Nat /\ reason' \in Reasons
        /\ pc \in Pipeline /\ pc' \notin Pipeline
    BY <1>1, <1>2, <2>1 DEF ShapeInv, Pipeline, Places
  <2>8. target[job] = "scan" => pc' \notin {"analyze", "agent"}
    BY <2>1, <2>2
  <2>9. QED
    BY <1>2, <2>1, <2>4, <2>6, <2>7, <2>8, MainWrites
<1>6. QED
  BY <1>3, <1>4, <1>5

(* A result is taken, or the first exception cancels what no thread took.  *)
LEMMA CollectKeeps == ASSUME WorkflowInv, Collect PROVE WorkflowInv'
PROOF
<1>1. ShapeInv /\ StageInv /\ job \in Jobs /\ collected \in Nat
  BY DEF WorkflowInv, ShapeInv
<1>2. /\ pc = "parse" /\ collected < Cardinality(ChunksOf(job))
      /\ UNCHANGED <<row, tasks, target, artifacts, job, faults>>
      /\ ChunksOf(job)' = ChunksOf(job)
  BY DEF Collect, rows, counters, artifacts, ChunksOf
<1>3. /\ step[MainTask.scan] = "ok" /\ step[MainTask.aggregate] = "none"
      /\ step[MainTask.analyze] = "none" /\ Cardinality(Busy) <= MaxWorkers
      /\ \A c \in Chunks : /\ step[c] # "dropped"
                           /\ step[c] # "none" => c \in ChunksOf(job)
      /\ pc \in Pipeline /\ step \in [Tasks -> Steps] /\ reason \in Reasons
      /\ \A c \in 1 .. collected : step[c] = "ok"
  BY <1>1, <1>2 DEF StageInv, ShapeInv, Pipeline
<1>4. CASE step[collected + 1] = "ok" /\ collected' = collected + 1 /\ UNCHANGED <<pc, reason, step>>
  <2>1. Cardinality(ChunksOf(job)) \in Nat
    BY <1>1, ChunksAreNumbered
  <2>2. /\ collected' \in Nat /\ collected' <= Cardinality(ChunksOf(job))
        /\ \A c \in 1 .. collected' : step[c] = "ok"
    BY <1>1, <1>2, <1>3, <1>4, <2>1
  <2>3. Busy' = Busy
    BY <1>4 DEF Busy
  <2>4. StageInv'
    BY <1>2, <1>3, <1>4, <2>2, <2>3 DEF StageInv
  <2>5. pc' \in Places
    BY <1>2, <1>4 DEF Places
  <2>6. QED
    BY <1>2, <1>3, <1>4, <2>2, <2>4, <2>5, MainMoves
<1>5. CASE /\ pc' = "draining" /\ reason' \in {"database", "worker"} /\ UNCHANGED collected
           /\ step' = [t \in Tasks |-> IF t \in Queued THEN "cancelled" ELSE step[t]]
  <2>1. /\ \A t \in Tasks : step'[t] = IF step[t] = "queued" THEN "cancelled" ELSE step[t]
        /\ step' \in [Tasks -> Steps]
    BY <1>3, <1>5 DEF Queued, Steps
  <2>2. Busy' = Busy /\ Queued' = {}
    BY <2>1 DEF Busy, Queued, Active
  <2>3. StageInv'
    <3>1. /\ step'[MainTask.scan] = "ok" /\ step'[MainTask.aggregate] = "none"
          /\ step'[MainTask.analyze] = "none"
          /\ \A c \in Chunks : /\ step'[c] # "dropped"
                               /\ step'[c] # "none" => c \in ChunksOf(job)
      BY <1>3, <2>1, TasksAre
    <3>2. QED
      BY <1>2, <1>3, <1>5, <2>2, <3>1 DEF StageInv, Pipeline
  <2>4. pc' \in Places /\ reason' \in Reasons
    BY <1>5 DEF Places, Reasons
  <2>5. QED
    BY <1>1, <1>2, <1>3, <1>5, <2>1, <2>3, <2>4, MainMoves
<1>6. QED
  BY <1>4, <1>5 DEF Collect

(* An exception is on its way to the row of the job.                       *)
LEMMA RaisingKeeps ==
  ASSUME WorkflowInv, pc \in Pipeline \cup {"agent", "completing"}, pc' = "raising",
         reason' \in Reasons, step' = step,
         reason' # "interrupted" => \A t \in Tasks : step[t] \notin Active \cup {"dropped"},
         \A t \in MainTasks : step[t] \notin Active,
         Queued = {},
         UNCHANGED <<row, tasks, target, artifacts, job, collected, faults>>
  PROVE  WorkflowInv'
PROOF
<1>1. ShapeInv /\ StageInv
  BY DEF WorkflowInv
<1>2. ChunksOf(job)' = ChunksOf(job) /\ Busy' = Busy /\ Queued' = {}
  BY DEF ChunksOf, Busy, Queued, artifacts
<1>3. StageInv'
  <2>1. /\ \A c \in Chunks : /\ step[c] # "dropped"
                             /\ step[c] # "none" => c \in ChunksOf(job)
        /\ Cardinality(Busy) <= MaxWorkers
    BY <1>1 DEF StageInv
  <2>2. QED
    BY <1>2, <2>1 DEF StageInv, Pipeline
<1>4. /\ pc' \in Places /\ collected' \in Nat /\ step' \in [Tasks -> Steps]
      /\ pc' \notin Pipeline /\ pc \notin {"idle", "run", "convert"}
  BY <1>1 DEF ShapeInv, Places, Pipeline
<1>5. QED
  BY <1>3, <1>4, MainMoves

(* The pool is empty, a task of the main thread failed, or the pipeline    *)
(* after one that did not, or the agent did.                               *)
LEMMA FailureKeeps ==
  ASSUME WorkflowInv, Drained \/ TaskRaised \/ PipelineRaises \/ EndAgent PROVE WorkflowInv'
PROOF
<1>1. ShapeInv /\ StageInv /\ WholeInv
  BY DEF WorkflowInv
<1>2. /\ UNCHANGED <<row, tasks, target, artifacts, job, collected, step, faults>>
      /\ reason \in Reasons
  BY <1>1 DEF Drained, TaskRaised, PipelineRaises, EndAgent, rows, counters, ShapeInv
<1>3. CASE Drained
  <2>1. pc = "draining" /\ Busy = {} /\ pc' = "raising" /\ reason' = reason
    BY <1>3 DEF Drained
  <2>2. \A t \in Tasks : step[t] \notin Active \cup {"dropped"}
    <3>1. \A t \in Tasks : step[t] \notin Active
      BY <2>1 DEF Busy
    <3>2. /\ step[MainTask.scan] = "ok" /\ step[MainTask.aggregate] = "none"
          /\ step[MainTask.analyze] = "none" /\ \A c \in Chunks : step[c] # "dropped"
      BY <1>1, <2>1 DEF StageInv, Pipeline
    <3>3. QED
      BY <3>1, <3>2, TasksAre
  <2>3. Queued = {} /\ pc \in Pipeline /\ MainTasks \subseteq Tasks
    BY <1>1, <2>1, TasksAre DEF StageInv, Pipeline
  <2>4. QED
    BY <1>2, <2>1, <2>2, <2>3, RaisingKeeps
<1>4. CASE TaskRaised \/ PipelineRaises
  <2>1. /\ pc \in {"scan", "aggregate", "analyze"} /\ step[MainTask[pc]] \in {"ok", "failed", "lost"}
        /\ pc' = "raising" /\ reason' \in {"database", "worker"}
    BY <1>4, TasksAre DEF TaskRaised, PipelineRaises
  <2>2. \A t \in Tasks : step[t] \in {"none", "ok", "failed", "lost"}
    <3>1. \A c \in Chunks : step[c] \in {"none", "ok"}
      BY <1>1, <2>1, TasksAre DEF StageInv
    <3>2. \A t \in MainTasks : step[t] \in {"none", "ok", "failed", "lost"}
      BY <1>1, <2>1, TasksAre DEF StageInv, Pipeline
    <3>3. QED
      BY <3>1, <3>2, TasksAre
  <2>3. /\ \A t \in Tasks : step[t] \notin Active \cup {"dropped"}
        /\ Queued = {} /\ MainTasks \subseteq Tasks /\ pc \in Pipeline /\ reason' \in Reasons
    BY <2>1, <2>2, TasksAre DEF Active, Queued, Pipeline, Reasons
  <2>4. QED
    BY <1>2, <2>1, <2>3, RaisingKeeps
<1>5. CASE EndAgent
  <2>1. pc = "agent" /\ \A t \in Tasks : step[t] \in {"none", "ok"}
    BY <1>1, <1>5 DEF EndAgent, StageInv
  <2>2. /\ \A t \in Tasks : step[t] \notin Active \cup {"dropped"}
        /\ Queued = {} /\ MainTasks \subseteq Tasks /\ Busy = {}
    BY <2>1, TasksAre DEF Active, Queued, Busy
  <2>3. CASE pc' = "raising" /\ reason' = "agent"
    <3>1. reason' \in Reasons
      BY <2>3 DEF Reasons
    <3>2. QED
      BY <1>2, <2>1, <2>2, <2>3, <3>1, RaisingKeeps
  <2>4. CASE pc' = "completing" /\ UNCHANGED reason
    <3>1. Whole(job)
      BY <1>1, <2>1 DEF WholeInv, ShapeInv
    <3>2. StageInv'
      <4>1. ChunksOf(job)' = ChunksOf(job) /\ Busy' = Busy /\ Queued' = Queued
        BY <1>2 DEF ChunksOf, Busy, Queued, artifacts
      <4>2. Cardinality(Busy) <= MaxWorkers
            /\ \A c \in Chunks : /\ step[c] # "dropped"
                                 /\ step[c] # "none" => c \in ChunksOf(job)
        BY <1>1 DEF StageInv
      <4>3. QED
        BY <1>2, <2>1, <2>2, <2>4, <4>1, <4>2 DEF StageInv, Pipeline
    <3>3. pc' \in Places /\ collected' \in Nat /\ reason' \in Reasons /\ step' \in [Tasks -> Steps]
          /\ pc' \notin Pipeline
      BY <1>1, <1>2, <2>4 DEF ShapeInv, Places, Pipeline
    <3>4. QED
      BY <1>2, <2>1, <2>4, <3>1, <3>2, <3>3, MainMoves
  <2>5. QED
    BY <1>5, <2>3, <2>4 DEF EndAgent
<1>6. QED
  BY <1>3, <1>4, <1>5

(* Ctrl-C: the main thread drops its task, the pool what it has queued.    *)
LEMMA InterruptKeeps == ASSUME WorkflowInv, Interrupt PROVE WorkflowInv'
PROOF
<1>1. ShapeInv /\ StageInv /\ WholeInv
  BY DEF WorkflowInv
<1>2. /\ pc \in Pipeline \cup {"agent", "completing"} /\ reason' = "interrupted"
      /\ pc' = IF pc = "parse" THEN "draining" ELSE "raising"
      /\ UNCHANGED <<row, tasks, target, artifacts, job, collected, faults>>
  BY DEF Interrupt, Pipeline, rows, artifacts
<1>3. \A t \in Tasks : step'[t] = IF step[t] = "queued" THEN "cancelled"
                                  ELSE IF step[t] \in Active /\ t \notin Chunks THEN "dropped"
                                  ELSE step[t]
  BY DEF Interrupt, Queued, Busy
<1>4. step' \in [Tasks -> Steps]
  <2>1. \A t \in Tasks : step'[t] \in Steps
    BY <1>1, <1>3 DEF ShapeInv, Steps
  <2>2. QED
    BY <2>1 DEF Interrupt
<1>5. /\ \A t \in Tasks : step'[t] \in Active \cup {"queued"} => t \in Busy
      /\ Busy' \subseteq Busy /\ Queued' = {}
  BY <1>3 DEF Busy, Queued, Active
<1>6. Cardinality(Busy') <= MaxWorkers
  <2>1. IsFiniteSet(Busy)
    BY TasksAre, FS_Subset DEF Busy
  <2>2. Cardinality(Busy') <= Cardinality(Busy) /\ Cardinality(Busy') \in Nat
        /\ Cardinality(Busy) \in Nat
    BY <1>5, <2>1, FS_Subset, FS_CardinalityType
  <2>3. QED
    BY <1>1, <2>2, BoundsAssumption DEF StageInv
<1>7. ChunksOf(job)' = ChunksOf(job)
  BY <1>2 DEF ChunksOf, artifacts
<1>8. \A c \in Chunks : /\ step'[c] # "dropped"
                        /\ step'[c] # "none" => c \in ChunksOf(job)
  <2>1. \A c \in Chunks : /\ step[c] # "dropped" /\ c \in Tasks
                          /\ step[c] # "none" => c \in ChunksOf(job)
    BY <1>1, TasksAre DEF StageInv
  <2>2. QED
    BY <1>3, <2>1
<1>9. pc \notin Pipeline => step' = step
  <2>1. ASSUME pc \notin Pipeline PROVE step' = step
    <3>1. \A t \in Tasks : step[t] \in {"none", "ok"}
      BY <1>1, <1>2, <2>1 DEF StageInv
    <3>2. \A t \in Tasks : step'[t] = step[t]
      BY <1>3, <3>1 DEF Active
    <3>3. QED
      BY <1>1, <1>4, <3>2 DEF ShapeInv
  <2>2. QED
    BY <2>1
<1>10. StageInv'
  <2>1. CASE pc = "parse"
    <3>1. /\ step[MainTask.scan] = "ok" /\ step[MainTask.aggregate] = "none"
          /\ step[MainTask.analyze] = "none"
      BY <1>1, <2>1 DEF StageInv, Pipeline
    <3>2. /\ step'[MainTask.scan] = "ok" /\ step'[MainTask.aggregate] = "none"
          /\ step'[MainTask.analyze] = "none"
      BY <1>3, <3>1, TasksAre DEF Active
    <3>3. QED
      BY <1>2, <1>5, <1>6, <1>7, <1>8, <2>1, <3>2 DEF StageInv
  <2>2. CASE pc # "parse"
    <3>1. \A t \in MainTasks : step'[t] \notin Active
      BY <1>3, TasksAre DEF Active
    <3>2. QED
      BY <1>2, <1>5, <1>6, <1>7, <1>8, <2>2, <3>1 DEF StageInv, Pipeline
  <2>3. QED
    BY <2>1, <2>2
<1>11. /\ pc' \in Places /\ collected' \in Nat /\ reason' \in Reasons
       /\ pc' \in Pipeline => pc \in Pipeline
       /\ pc' \in {"draining", "raising"} /\ pc \notin {"idle", "run", "convert"}
  BY <1>1, <1>2 DEF ShapeInv, Places, Pipeline, Reasons
<1>12. \A t \in Tasks : \/ step'[t] = step[t]
                        \/ step[t] \in {"none", "queued"} /\ step'[t] \in {"save", "queued", "cancelled"}
                        \/ step'[t] = "dropped"
  BY <1>3
<1>13. QED
  BY <1>2, <1>4, <1>9, <1>10, <1>11, <1>12, MainMoves

-----------------------------------------------------------------------------
(* The rows of the jobs.                                                   *)

(* A call ends, or its process: at most the threads of the pool go on.     *)
LEMMA EndKeeps ==
  ASSUME WorkflowInv, UNCHANGED <<tasks, target, artifacts, job>>,
         pc' = "idle", collected' = 0, reason' \in Reasons,
         step' \in [Tasks -> Steps],
         \A t \in Tasks : step'[t] = "none" \/ (step'[t] = step[t] /\ t \in Busy),
         \A t \in MainTasks : step'[t] \notin Active,
         row' \in [Jobs -> [status : Statuses, error : Reasons]],
         \A j \in Jobs \ {job} : row'[j] = row[j],
         row'[job].status # "none", row'[job].status = "completed" => Whole(job),
         Busy' # {} => row'[job].status = "running"
                       \/ row'[job] = [status |-> "failed", error |-> "interrupted"],
         row'[job].status = "failed" /\ row'[job].error # "interrupted" /\ faults' = 0 =>
           \A t \in Tasks : tasks[job][t] \notin Open,
         faults' \in Nat, faults' = 0 => faults = 0
  PROVE  WorkflowInv'
PROOF
<1>1. ShapeInv /\ StageInv /\ DoneInv /\ RowInv /\ WholeInv /\ FailedLeavesNoTask
  BY DEF WorkflowInv
<1>2. UNCHANGED <<manifest, scan, analysed, tree, checkpoint>>
  BY DEF artifacts
<1>3. \A j \in Jobs : ChunksOf(j)' = ChunksOf(j) /\ (Whole(j)' <=> Whole(j))
  BY <1>2, WholeStays
<1>4. job \in Jobs
  BY <1>1 DEF ShapeInv
<1>5. ShapeInv'
  BY <1>1, <1>2 DEF ShapeInv, Places
<1>6. Busy' \subseteq Busy /\ Queued' = {}
  BY DEF Busy, Queued, Active
<1>7. StageInv'
  <2>1. Cardinality(Busy') <= MaxWorkers
    <3>1. IsFiniteSet(Busy)
      BY TasksAre, FS_Subset DEF Busy
    <3>2. Cardinality(Busy') <= Cardinality(Busy) /\ Cardinality(Busy') \in Nat
          /\ Cardinality(Busy) \in Nat
      BY <1>6, <3>1, FS_Subset, FS_CardinalityType
    <3>3. QED
      BY <1>1, <3>2, BoundsAssumption DEF StageInv
  <2>2. \A c \in Chunks : /\ step'[c] # "dropped"
                          /\ step'[c] # "none" => c \in ChunksOf(job)
    BY <1>1, TasksAre DEF StageInv
  <2>3. QED
    BY <1>3, <1>4, <1>6, <2>1, <2>2 DEF StageInv, Pipeline
<1>8. DoneInv'
  <2>1. /\ \A t \in Tasks : step'[t] # "ok"
        /\ \A t \in MainTasks : step'[t] # "finish"
    BY DEF Busy, Active
  <2>2. QED
    BY <2>1, TasksAre DEF DoneInv
<1>9. RowInv'
  <2>1. /\ job \in checkpoint => Busy' = {}
        /\ target[job] = "snapshot" => \A t \in Tasks : step'[t] = "none"
    BY <1>1, <1>6 DEF RowInv, Busy, Active
  <2>2. \A j \in Jobs : row'[j].status = "none" => row[j].status = "none"
    OBVIOUS
  <2>3. QED
    BY <1>1, <1>2, <1>3, <2>1, <2>2 DEF RowInv, Pipeline
<1>10. WholeInv'
  BY <1>1, <1>2, <1>3 DEF WholeInv
<1>11. FailedLeavesNoTask'
  <2> SUFFICES ASSUME NEW j \in Jobs, faults' = 0, row'[j].status = "failed",
                      row'[j].error # "interrupted", NEW t \in Tasks
      PROVE  tasks[j][t] \notin {"pending", "running"}
    BY DEF FailedLeavesNoTask
  <2>1. CASE j = job
    BY <2>1 DEF Open
  <2>2. CASE j # job
    BY <1>1, <2>2 DEF FailedLeavesNoTask
  <2>3. QED
    BY <2>1, <2>2
<1>12. QED
  BY <1>5, <1>7, <1>8, <1>9, <1>10, <1>11 DEF WorkflowInv

(* The end of a call is written to the row of its job, if the write does   *)
(* not fail; a death writes nothing.                                       *)
LEMMA SettleKeeps ==
  ASSUME WorkflowInv, Completed \/ Raised \/ JobWriteFails \/ Die PROVE WorkflowInv'
PROOF
<1>1. ShapeInv /\ StageInv /\ DoneInv /\ RowInv /\ WholeInv
  BY DEF WorkflowInv
<1>2. /\ job \in Jobs /\ reason \in Reasons /\ faults \in Nat /\ step \in [Tasks -> Steps]
      /\ row \in [Jobs -> [status : Statuses, error : Reasons]] /\ MainTasks \subseteq Tasks
  BY <1>1, TasksAre DEF ShapeInv
<1>3. ASSUME \E why \in Reasons : Return(why),
             pc \in {"run", "convert", "completing", "raising"}
      PROVE  /\ pc' = "idle" /\ collected' = 0 /\ reason' \in Reasons /\ UNCHANGED job
             /\ step' \in [Tasks -> Steps]
             /\ \A t \in Tasks : step'[t] = "none" \/ (step'[t] = step[t] /\ t \in Busy)
             /\ \A t \in MainTasks : step'[t] \notin Active
             /\ Busy' = Busy
             /\ Busy # {} => pc = "raising" /\ reason = "interrupted"
  <2>1. /\ pc' = "idle" /\ collected' = 0 /\ reason' \in Reasons /\ UNCHANGED job
        /\ step' = [t \in Tasks |-> IF t \in Busy THEN step[t] ELSE "none"]
    BY <1>3 DEF Return
  <2>2. Busy' = Busy
    BY <2>1 DEF Busy, Active
  <2>3. \A t \in MainTasks : step[t] \notin Active
    BY <1>1, <1>2, <1>3 DEF StageInv, Active
  <2>4. \A t \in MainTasks : step'[t] \notin Active
    BY <1>2, <2>1, <2>3 DEF Active
  <2>5. Busy # {} => pc = "raising" /\ reason = "interrupted"
    BY <1>1, <1>3 DEF StageInv, Busy, Active
  <2>6. step' \in [Tasks -> Steps]
    BY <1>2, <2>1 DEF Steps
  <2>7. QED
    BY <2>1, <2>2, <2>4, <2>5, <2>6
<1>4. CASE Completed
  <2>1. /\ pc = "completing" /\ Return("none") /\ "none" \in Reasons
        /\ row' = [row EXCEPT ![job] = [status |-> "completed", error |-> "none"]]
        /\ UNCHANGED <<tasks, target, artifacts, faults>>
    BY <1>4 DEF Completed, SetJob, artifacts, counters, Reasons
  <2>2. Whole(job)
    BY <1>1, <1>2, <2>1 DEF WholeInv
  <2>3. /\ row' \in [Jobs -> [status : Statuses, error : Reasons]]
        /\ \A j \in Jobs \ {job} : row'[j] = row[j]
        /\ row'[job].status = "completed"
    BY <1>2, <2>1 DEF Statuses
  <2>4. QED
    BY <1>2, <1>3, <2>1, <2>2, <2>3, EndKeeps
<1>5. CASE Raised
  <2>1. /\ pc = "raising" /\ Return("none") /\ "none" \in Reasons
        /\ row' = [row EXCEPT ![job] = [status |-> "failed", error |-> reason]]
        /\ UNCHANGED <<tasks, target, artifacts, faults>>
    BY <1>5 DEF Raised, SetJob, artifacts, counters, Reasons
  <2>2. /\ row' \in [Jobs -> [status : Statuses, error : Reasons]]
        /\ \A j \in Jobs \ {job} : row'[j] = row[j]
        /\ row'[job] = [status |-> "failed", error |-> reason]
    BY <1>2, <2>1 DEF Statuses
  <2>3. reason # "interrupted" /\ faults = 0 => \A t \in Tasks : tasks[job][t] \notin Open
    BY <1>1, <2>1 DEF StageInv, DoneInv, Active
  <2>4. QED
    BY <1>2, <1>3, <2>1, <2>2, <2>3, EndKeeps
<1>6. CASE JobWriteFails /\ pc = "completing"
  <2>1. /\ pc' = "raising" /\ reason' = "database" /\ step' = step
        /\ faults' = faults + 1 /\ UNCHANGED <<row, tasks, target, artifacts, job, collected>>
    BY <1>6 DEF JobWriteFails, rows, artifacts
  <2>2. \A t \in Tasks : step[t] \in {"none", "ok"}
    BY <1>1, <1>6 DEF StageInv
  <2>3. /\ ChunksOf(job)' = ChunksOf(job) /\ Queued' = {} /\ Busy' = Busy
        /\ \A t \in Tasks : step[t] \notin Active \cup {"dropped"}
    BY <2>1, <2>2 DEF ChunksOf, Queued, Busy, Active, artifacts
  <2>4. StageInv'
    <3>1. /\ \A c \in Chunks : /\ step[c] # "dropped"
                               /\ step[c] # "none" => c \in ChunksOf(job)
          /\ Cardinality(Busy) <= MaxWorkers
      BY <1>1 DEF StageInv
    <3>2. QED
      BY <1>2, <2>1, <2>3, <3>1 DEF StageInv, Pipeline
  <2>5. ShapeInv' /\ DoneInv'
    BY <1>1, <1>2, <1>6, <2>1, <2>2 DEF ShapeInv, DoneInv, Places, Reasons, artifacts
  <2>6. RowInv' /\ WholeInv' /\ FailedLeavesNoTask'
    <3>1. UNCHANGED <<manifest, scan, analysed, tree, checkpoint>>
      BY <2>1 DEF artifacts
    <3>2. \A j \in Jobs : ChunksOf(j)' = ChunksOf(j) /\ (Whole(j)' <=> Whole(j))
      BY <2>1, <3>1, WholeStays
    <3>3. RowInv'
      BY <1>1, <1>6, <2>1, <2>3, <3>1, <3>2 DEF RowInv, Pipeline
    <3>4. WholeInv'
      BY <1>1, <2>1, <3>1, <3>2 DEF WholeInv
    <3>5. FailedLeavesNoTask'
      BY <1>2, <2>1 DEF FailedLeavesNoTask
    <3>6. QED
      BY <3>3, <3>4, <3>5
  <2>7. QED
    BY <2>4, <2>5, <2>6 DEF WorkflowInv
<1>7. CASE JobWriteFails /\ pc # "completing"
  <2>1. /\ pc \in {"run", "convert", "raising"} /\ Return("unwritten") /\ "unwritten" \in Reasons
        /\ faults' = faults + 1 /\ UNCHANGED <<row, tasks, target, artifacts>>
    BY <1>7 DEF JobWriteFails, rows, artifacts, Reasons
  <2>2. /\ row[job].status \in {"pending", "running"}
        /\ pc = "raising" => row[job].status = "running"
    BY <1>1, <2>1 DEF RowInv
  <2>3. QED
    BY <1>2, <1>3, <2>1, <2>2, EndKeeps
<1>8. CASE Die
  <2>1. /\ pc # "idle" /\ pc' = "idle" /\ collected' = 0 /\ reason' = "died"
        /\ step' = [t \in Tasks |-> "none"]
        /\ UNCHANGED <<row, tasks, target, artifacts, job, faults>>
    BY <1>8 DEF Die, rows, artifacts
  <2>2. row[job].status \in {"pending", "running"}
    BY <1>1, <2>1 DEF RowInv
  <2>3. /\ step' \in [Tasks -> Steps] /\ reason' \in Reasons /\ Busy' = {}
        /\ \A t \in Tasks : step'[t] = "none"
        /\ \A t \in MainTasks : step'[t] \notin Active
    BY <1>2, <2>1 DEF Steps, Reasons, Busy, Active
  <2>4. QED
    BY <1>2, <2>1, <2>2, <2>3, EndKeeps
<1>9. QED
  BY <1>4, <1>5, <1>6, <1>7, <1>8

(* A call begins: for a new job, or for one that an agent had in hand,     *)
(* whose pipeline is whole.                                                *)
LEMMA BeginKeeps ==
  ASSUME WorkflowInv,
         NEW j \in Jobs, Run(j) \/ Resume(j) \/ \E from \in Jobs : RunFromAnalysis(j, from)
  PROVE  WorkflowInv'
PROOF
<1>1. ShapeInv /\ StageInv /\ DoneInv /\ RowInv /\ WholeInv /\ FailedLeavesNoTask
  BY DEF WorkflowInv
<1>2. /\ job' = j /\ collected' = 0 /\ reason' = "none"
      /\ step' = [t \in Tasks |-> "none"]
      /\ UNCHANGED <<tasks, parsed, analysed, tree, checkpoint, faults>>
  BY DEF Run, Resume, RunFromAnalysis, Restart, artifacts, counters
<1>3. /\ row \in [Jobs -> [status : Statuses, error : Reasons]]
      /\ target \in [Jobs -> Targets \cup {"snapshot"}]
      /\ manifest \in [Jobs -> SUBSET (1 .. Files)] /\ faults \in Nat
  BY <1>1 DEF ShapeInv
<1>4. /\ pc' \in {"run", "convert", "agent"}
      /\ row' = [row EXCEPT ![j] = [status |-> IF pc' = "agent" THEN "running" ELSE "pending",
                                    error |-> "none"]]
      /\ pc' = "agent" <=> Resume(j)
      /\ pc' # "agent" => row[j].status = "none"
      /\ pc' = "agent" => j \in checkpoint /\ target' = target
      /\ pc' # "convert" => manifest' = manifest /\ scan' = scan
      /\ pc' = "run" => \E wanted \in Targets : target' = [target EXCEPT ![j] = wanted]
      /\ pc' = "convert" =>
           /\ target' = [target EXCEPT ![j] = "snapshot"]
           /\ \E from \in Jobs : /\ manifest' = [manifest EXCEPT ![j] = manifest[from]]
                                 /\ scan' = [scan EXCEPT ![j] = scan[from]]
  BY DEF Run, Resume, RunFromAnalysis, Restart, SetJob, Fresh, artifacts
<1>5. pc' # "agent" => /\ j \notin analysed \cup tree \cup checkpoint /\ scan[j] = Absent
                       /\ \A t \in Tasks : tasks[j][t] = "none"
  BY <1>1, <1>4 DEF RowInv
<1>6. /\ row' \in [Jobs -> [status : Statuses, error : Reasons]]
      /\ \A i \in Jobs \ {j} : row'[i] = row[i]
      /\ row'[j].status = (IF pc' = "agent" THEN "running" ELSE "pending")
  BY <1>3, <1>4 DEF Statuses, Reasons
<1>7. /\ target' \in [Jobs -> Targets \cup {"snapshot"}]
      /\ \A i \in Jobs \ {j} : target'[i] = target[i]
      /\ pc' = "run" => target'[j] \in Targets
      /\ pc' = "convert" => target'[j] = "snapshot"
  BY <1>3, <1>4
<1>8. /\ manifest' \in [Jobs -> SUBSET (1 .. Files)]
      /\ DOMAIN scan' = Jobs /\ \A i \in Jobs : scan'[i] \in {Absent, manifest'[i]}
      /\ \A i \in Jobs \ {j} : manifest'[i] = manifest[i] /\ scan'[i] = scan[i]
  <2>1. CASE pc' # "convert"
    BY <1>1, <1>4, <2>1 DEF ShapeInv
  <2>2. CASE pc' = "convert"
    <3>1. PICK from \in Jobs : /\ manifest' = [manifest EXCEPT ![j] = manifest[from]]
                               /\ scan' = [scan EXCEPT ![j] = scan[from]]
      BY <1>4, <2>2
    <3>2. QED
      BY <1>1, <1>3, <3>1 DEF ShapeInv
  <2>3. QED
    BY <2>1, <2>2
<1>9. \A i \in Jobs \ {j} : ChunksOf(i)' = ChunksOf(i) /\ (Whole(i)' <=> Whole(i))
  BY <1>2, <1>7, <1>8 DEF ChunksOf, Whole
<1>10. pc' = "agent" => ChunksOf(j)' = ChunksOf(j) /\ Whole(j) /\ Whole(j)' /\ target[j] # "scan"
  BY <1>1, <1>2, <1>4, WholeStays DEF WholeInv
<1>11. \A t \in Tasks : step'[t] = "none"
  BY <1>2
<1>12. Busy' = {} /\ Queued' = {}
  BY <1>11 DEF Busy, Queued, Active
<1>13. ShapeInv'
  <2>1. step' \in [Tasks -> Steps] /\ pc' \in Places /\ reason' \in Reasons
    BY <1>2, <1>4 DEF Steps, Places, Reasons
  <2>2. QED
    BY <1>1, <1>2, <1>6, <1>7, <1>8, <2>1 DEF ShapeInv
<1>14. StageInv'
  <2>1. Cardinality(Busy') <= MaxWorkers
    BY <1>12, FS_EmptySet, BoundsAssumption
  <2>2. Chunks \subseteq Tasks /\ MainTasks \subseteq Tasks
    BY TasksAre
  <2>3. QED
    BY <1>2, <1>4, <1>11, <1>12, <2>1, <2>2 DEF StageInv, Pipeline, Active
<1>15. DoneInv'
  <2>1. \A t \in Tasks : tasks[j][t] \notin Open
    <3>1. CASE pc' # "agent"
      BY <1>5, <3>1 DEF Open
    <3>2. CASE pc' = "agent"
      <4>1. CASE target[j] = "snapshot"
        BY <1>1, <4>1 DEF RowInv, Open
      <4>2. CASE target[j] # "snapshot"
        <5>1. \A t \in {MainTask.scan, MainTask.aggregate, MainTask.analyze} \cup ChunksOf(j) :
                tasks[j][t] = "completed"
          BY <1>10, <3>2, <4>2 DEF Whole
        <5>2. \A c \in Chunks \ ChunksOf(j) : tasks[j][c] = "none"
          BY <1>1 DEF RowInv
        <5>3. QED
          BY <5>1, <5>2, TasksAre DEF Open
      <4>3. QED
        BY <4>1, <4>2
    <3>3. QED
      BY <3>1, <3>2
  <2>2. {MainTask.aggregate, MainTask.analyze} \subseteq Tasks
    BY TasksAre
  <2>3. QED
    BY <1>2, <1>11, <2>1, <2>2 DEF DoneInv
<1>16. RowInv'
  <2>1. \A i \in Jobs : target'[i] = "snapshot" => \A t \in Tasks : tasks[i][t] = "none"
    BY <1>1, <1>4, <1>5, <1>7 DEF RowInv
  <2>2. \A i \in Jobs : \A c \in Chunks \ ChunksOf(i)' : tasks[i][c] = "none"
    BY <1>1, <1>5, <1>9, <1>10, TasksAre DEF RowInv
  <2>3. \A i \in Jobs : row'[i].status = "none" =>
          /\ scan'[i] = Absent /\ i \notin analysed \cup tree \cup checkpoint
          /\ \A t \in Tasks : tasks[i][t] = "none"
    <3> SUFFICES ASSUME NEW i \in Jobs, row'[i].status = "none"
        PROVE  /\ scan'[i] = Absent /\ i \notin analysed \cup tree \cup checkpoint
               /\ \A t \in Tasks : tasks[i][t] = "none"
      OBVIOUS
    <3>1. i # j
      BY <1>6
    <3>2. QED
      BY <1>1, <1>6, <1>8, <3>1 DEF RowInv
  <2>4. pc' = "run" => /\ target'[j] # "snapshot" /\ scan'[j] = Absent
                       /\ \A c \in Chunks : tasks[j][c] = "none"
    BY <1>4, <1>5, <1>7, TasksAre DEF Targets
  <2>5. pc' = "agent" => target'[j] # "scan"
    BY <1>4, <1>10
  <2>6. QED
    BY <1>2, <1>4, <1>5, <1>6, <1>7, <1>11, <1>12, <2>1, <2>2, <2>3, <2>4, <2>5
       DEF RowInv, Pipeline
<1>17. WholeInv'
  <2> SUFFICES ASSUME NEW i \in Jobs
      PROVE  /\ row'[i].status = "completed" => Whole(i)'
             /\ i \in checkpoint => Whole(i)' /\ target'[i] # "scan"
             /\ i = j /\ pc' \in {"agent", "completing"} => Whole(i)'
    BY <1>2 DEF WholeInv
  <2>1. CASE i = j
    BY <1>4, <1>5, <1>6, <1>10, <2>1
  <2>2. CASE i # j
    BY <1>1, <1>6, <1>7, <1>9, <2>2 DEF WholeInv
  <2>3. QED
    BY <2>1, <2>2
<1>18. FailedLeavesNoTask'
  BY <1>1, <1>2, <1>6 DEF FailedLeavesNoTask
<1>19. QED
  BY <1>13, <1>14, <1>15, <1>16, <1>17, <1>18 DEF WorkflowInv

(* The row of a job is marked before its scan, or its agent, begins.       *)
LEMMA MarkRunningKeeps == ASSUME WorkflowInv, MarkRunning PROVE WorkflowInv'
PROOF
<1>1. ShapeInv /\ StageInv /\ DoneInv /\ RowInv /\ WholeInv /\ FailedLeavesNoTask
  BY DEF WorkflowInv
<1>2. /\ pc \in {"run", "convert"} /\ job \in Jobs
      /\ row' = [row EXCEPT ![job] = [status |-> "running", error |-> "none"]]
      /\ pc' = IF pc = "run" THEN "scan" ELSE "agent"
      /\ step' = IF pc = "run" THEN [step EXCEPT ![MainTask.scan] = "save"] ELSE step
      /\ UNCHANGED <<tasks, target, artifacts, manifest, scan, analysed, tree, checkpoint, job,
                     collected, reason, faults>>
  BY <1>1 DEF MarkRunning, SetJob, Move, artifacts, counters, ShapeInv
<1>3. \A j \in Jobs : ChunksOf(j)' = ChunksOf(j) /\ (Whole(j)' <=> Whole(j))
  BY <1>2, WholeStays
<1>4. /\ \A t \in Tasks : step[t] = "none"
      /\ \A t \in Tasks : step'[t] = IF pc = "run" /\ t = MainTask.scan THEN "save" ELSE "none"
  BY <1>1, <1>2 DEF StageInv, ShapeInv
<1>5. /\ row' \in [Jobs -> [status : Statuses, error : Reasons]]
      /\ \A j \in Jobs \ {job} : row'[j] = row[j]
      /\ row'[job].status = "running"
  BY <1>1, <1>2 DEF ShapeInv, Statuses, Reasons
<1>6. Busy' = (IF pc = "run" THEN {MainTask.scan} ELSE {}) /\ Queued' = {}
  BY <1>4, TasksAre DEF Busy, Queued, Active
<1>7. ShapeInv'
  <2>1. step' \in [Tasks -> Steps] /\ pc' \in Places
    BY <1>1, <1>2 DEF ShapeInv, Steps, Active, Places
  <2>2. QED
    BY <1>1, <1>2, <1>5, <2>1 DEF ShapeInv
<1>8. StageInv'
  <2>1. Cardinality(Busy') <= MaxWorkers
    <3>1. Cardinality(Busy') \in {0, 1}
      BY <1>6, FS_EmptySet, FS_Singleton
    <3>2. QED
      BY <3>1, BoundsAssumption
  <2>2. \A c \in Chunks : step'[c] = "none"
    BY <1>4, TasksAre
  <2>3. pc = "run" => collected = 0
    BY <1>1 DEF StageInv
  <2>4. QED
    BY <1>2, <1>4, <1>6, <2>1, <2>2, <2>3 DEF StageInv, Pipeline
<1>9. DoneInv'
  <2>1. \A t \in Tasks : tasks[job][t] \in Open => faults # 0
    BY <1>1, <1>2, <1>4 DEF DoneInv
  <2>2. {MainTask.aggregate, MainTask.analyze} \subseteq Tasks \ {MainTask.scan}
    BY TasksAre
  <2>3. QED
    BY <1>2, <1>4, <2>1, <2>2 DEF DoneInv
<1>10. RowInv'
  <2>1. /\ job \notin checkpoint
        /\ pc = "convert" => target[job] = "snapshot"
        /\ pc = "run" => /\ target[job] # "snapshot" /\ scan[job] = Absent
                         /\ \A c \in Chunks : tasks[job][c] = "none"
    BY <1>1, <1>2 DEF RowInv
  <2>2. /\ \A j \in Jobs : target[j] = "snapshot" => \A t \in Tasks : tasks[j][t] = "none"
        /\ \A j \in Jobs : \A c \in Chunks \ ChunksOf(j)' : tasks[j][c] = "none"
        /\ \A j \in Jobs : row'[j].status = "none" =>
             /\ scan[j] = Absent /\ j \notin analysed \cup tree \cup checkpoint
             /\ \A t \in Tasks : tasks[j][t] = "none"
    BY <1>1, <1>3, <1>5 DEF RowInv
  <2>3. QED
    BY <1>2, <1>4, <1>5, <1>6, <2>1, <2>2 DEF RowInv, Pipeline
<1>11. WholeInv'
  <2>1. pc = "convert" => Whole(job)
    BY <1>1 DEF RowInv, Whole
  <2>2. QED
    BY <1>1, <1>2, <1>3, <1>5, <2>1 DEF WholeInv
<1>12. FailedLeavesNoTask'
  BY <1>1, <1>2, <1>5 DEF FailedLeavesNoTask
<1>13. QED
  BY <1>7, <1>8, <1>9, <1>10, <1>11, <1>12 DEF WorkflowInv

(* The agent of a whole job leaves its checkpoint.                         *)
LEMMA BeginAgentKeeps == ASSUME WorkflowInv, BeginAgent PROVE WorkflowInv'
PROOF
<1>1. ShapeInv /\ StageInv /\ DoneInv /\ RowInv /\ WholeInv /\ FailedLeavesNoTask
  BY DEF WorkflowInv
<1>2. /\ pc = "agent" /\ job \in Jobs /\ checkpoint' = checkpoint \cup {job}
      /\ UNCHANGED <<row, tasks, target, manifest, scan, analysed, tree, job, pc, collected, reason,
                     step, faults>>
  BY <1>1 DEF BeginAgent, rows, thread, counters, ShapeInv
<1>3. \A j \in Jobs : ChunksOf(j)' = ChunksOf(j) /\ (Whole(j)' <=> Whole(j))
  BY <1>2, WholeStays
<1>4. Busy' = Busy /\ Queued' = Queued
  BY <1>2 DEF Busy, Queued
<1>5. Busy = {}
  BY <1>1, <1>2 DEF StageInv, Busy, Active
<1>6. row[job].status = "running" /\ target[job] # "scan" /\ Whole(job)
  BY <1>1, <1>2 DEF RowInv, WholeInv
<1>7. ShapeInv' /\ DoneInv'
  BY <1>1, <1>2 DEF ShapeInv, DoneInv
<1>8. StageInv'
  BY <1>1, <1>2, <1>3, <1>4 DEF StageInv
<1>9. RowInv'
  BY <1>1, <1>2, <1>3, <1>4, <1>5, <1>6 DEF RowInv, Pipeline
<1>10. WholeInv'
  BY <1>1, <1>2, <1>3, <1>6 DEF WholeInv
<1>11. FailedLeavesNoTask'
  BY <1>1, <1>2 DEF FailedLeavesNoTask
<1>12. QED
  BY <1>7, <1>8, <1>9, <1>10, <1>11 DEF WorkflowInv

-----------------------------------------------------------------------------
(* The theorems.                                                           *)

(* The invariant holds before the first job.                               *)
LEMMA InitWorkflow == Init => WorkflowInv
PROOF
<1> SUFFICES ASSUME Init PROVE WorkflowInv
  OBVIOUS
<1>1. /\ row = [j \in Jobs |-> [status |-> "none", error |-> "none"]]
      /\ tasks = [j \in Jobs |-> [t \in Tasks |-> "none"]] /\ target = [j \in Jobs |-> "scan"]
      /\ manifest = [j \in Jobs |-> {}] /\ scan = [j \in Jobs |-> Absent]
      /\ analysed = {} /\ tree = {} /\ checkpoint = {} /\ job = 1 /\ pc = "idle" /\ collected = 0
      /\ reason = "none" /\ step = [t \in Tasks |-> "none"] /\ faults = 0
  BY DEF Init
<1>2. 1 \in Jobs
  BY BoundsAssumption DEF Jobs
<1>3. ShapeInv
  BY <1>1, <1>2 DEF ShapeInv, Statuses, Reasons, TaskStatuses, Targets, Places, Steps
<1>4. \A t \in Tasks : step[t] = "none"
  BY <1>1
<1>5. Busy = {} /\ Queued = {}
  BY <1>4 DEF Busy, Queued, Active
<1>6. StageInv
  <2>1. Cardinality(Busy) <= MaxWorkers
    BY <1>5, FS_EmptySet, BoundsAssumption
  <2>2. QED
    BY <1>1, <1>4, <1>5, <2>1, TasksAre DEF StageInv, Pipeline, Active
<1>7. DoneInv /\ RowInv
  BY <1>1, <1>2, <1>4, <1>5, TasksAre DEF DoneInv, RowInv, Pipeline
<1>8. WholeInv /\ FailedLeavesNoTask
  BY <1>1 DEF WholeInv, FailedLeavesNoTask
<1>9. QED
  BY <1>3, <1>6, <1>7, <1>8 DEF WorkflowInv

(* Every step keeps the invariant.                                         *)
LEMMA NextKeeps == WorkflowInv /\ [Next]_vars => WorkflowInv'
PROOF
<1> SUFFICES ASSUME WorkflowInv, [Next]_vars PROVE WorkflowInv'
  OBVIOUS
<1>1. ASSUME NEW j \in Jobs, Run(j) \/ Resume(j) \/ \E from \in Jobs : RunFromAnalysis(j, from)
      PROVE  WorkflowInv'
  BY <1>1, BeginKeeps
<1>2. CASE MarkRunning
  BY <1>2, MarkRunningKeeps
<1>3. CASE Completed \/ Raised \/ JobWriteFails \/ Die
  BY <1>3, SettleKeeps
<1>4. ASSUME NEW t \in Tasks, TaskStep(t) \/ TaskWriteFails(t) PROVE WorkflowInv'
  BY <1>4, TaskKeeps
<1>5. CASE Scan \/ Aggregate \/ Analyze
  BY <1>5, WorkKeeps
<1>6. CASE AfterScan
  BY <1>6, AfterScanKeeps
<1>7. CASE Collect
  BY <1>7, CollectKeeps
<1>8. CASE Drained \/ TaskRaised \/ PipelineRaises \/ EndAgent
  BY <1>8, FailureKeeps
<1>9. CASE AfterParse \/ AfterAggregate \/ AfterAnalyze
  BY <1>9, AfterKeeps
<1>10. CASE BeginAgent
  BY <1>10, BeginAgentKeeps
<1>11. CASE Interrupt
  BY <1>11, InterruptKeeps
<1>12. ASSUME NEW c \in Chunks, PoolStep(c) PROVE WorkflowInv'
  <2>1. c \in Tasks
    BY TasksAre
  <2>2. CASE TakeChunk(c)
    BY <2>2, TakeChunkKeeps
  <2>3. CASE TaskStep(c) \/ ParseChunk(c)
    BY <2>1, <2>3, TaskKeeps
  <2>4. QED
    BY <1>12, <2>2, <2>3 DEF PoolStep
<1>13. CASE (\E f \in 1 .. Files : FileChanges(f)) \/ UNCHANGED vars
  <2>1. UNCHANGED <<row, tasks, target, manifest, scan, analysed, tree, checkpoint, job, pc, collected,
                    reason, step, faults>>
    BY <1>13 DEF FileChanges, vars, rows, artifacts, thread, counters
  <2>2. \A j \in Jobs : ChunksOf(j)' = ChunksOf(j) /\ (Whole(j)' <=> Whole(j))
    BY <2>1, WholeStays
  <2>3. ShapeInv' /\ DoneInv' /\ FailedLeavesNoTask'
    BY <2>1 DEF WorkflowInv, ShapeInv, DoneInv, FailedLeavesNoTask
  <2>4. Busy' = Busy /\ Queued' = Queued /\ job \in Jobs
    BY <2>1 DEF Busy, Queued, WorkflowInv, ShapeInv
  <2>5. StageInv' /\ RowInv' /\ WholeInv'
    BY <2>1, <2>2, <2>4 DEF WorkflowInv, StageInv, RowInv, WholeInv
  <2>6. QED
    BY <2>3, <2>5 DEF WorkflowInv
<1>14. MainTasks \subseteq Tasks
  BY TasksAre
<1>15. QED
  BY <1>1, <1>2, <1>3, <1>4, <1>5, <1>6, <1>7, <1>8, <1>9, <1>10, <1>11, <1>12, <1>13, <1>14
     DEF Next, MainStep

(* The invariant holds in every state the program can reach.               *)
THEOREM Invariant == Spec => []WorkflowInv
PROOF
<1>1. Init => WorkflowInv
  BY InitWorkflow
<1>2. WorkflowInv /\ [Next]_vars => WorkflowInv'
  BY NextKeeps
<1>3. QED
  BY <1>1, <1>2, PTL DEF Spec

(* _run_pipeline: a completed row stands for completed work, whatever      *)
(* writes failed and whenever the process was stopped.                     *)
THEOREM Rows == Spec => []RowsHold
PROOF
<1>1. ASSUME WorkflowInv PROVE RowsHold
  <2>1. TypeOK
    BY <1>1 DEF WorkflowInv, ShapeInv, StageInv, TypeOK, Statuses, TaskStatuses, Steps, Places
  <2>2. CompletedIsComplete
    BY <1>1 DEF WorkflowInv, WholeInv, Whole, CompletedIsComplete
  <2>3. QED
    BY <2>1, <2>2 DEF RowsHold
<1>2. QED
  BY <1>1, Invariant, PTL

(* _execute_job: a settled job has no thread at work and a failed one no   *)
(* open task, but for the interrupts and the writes that explain them.     *)
THEOREM Settled == Spec => []SettledIsOver
PROOF
<1>1. ASSUME WorkflowInv PROVE SettledIsOver
  <2>1. SettledIsQuiet
    <3> SUFFICES ASSUME row[job].status \in {"completed", "failed"}, (Busy \cup Queued) # {}
        PROVE  row[job].error = "interrupted"
      BY DEF SettledIsQuiet
    <3>1. pc = "idle"
      BY <1>1 DEF WorkflowInv, RowInv
    <3>2. Queued = {}
      BY <1>1, <3>1 DEF WorkflowInv, StageInv
    <3>3. QED
      BY <1>1, <3>1, <3>2 DEF WorkflowInv, RowInv
  <2>2. QED
    BY <1>1, <2>1 DEF SettledIsOver, WorkflowInv
<1>2. QED
  BY <1>1, Invariant, PTL
=============================================================================
