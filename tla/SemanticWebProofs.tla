-------------------------- MODULE SemanticWebProofs --------------------------
(***************************************************************************)
(* What holds of the web backend of the semantic application for any       *)
(* number of jobs, threads, requests, events and restarts, provided that   *)
(* no handler passes an annotate request between the steps of its lookup.  *)
(* With Overlap these invariants are false, as the run overlapping_lookups *)
(* shows of the first.                                                     *)
(***************************************************************************)
EXTENDS SemanticWeb, FiniteSetTheorems, TLAPS

-----------------------------------------------------------------------------
(* The invariant.                                                          *)

Elements(q) == {q[i] : i \in 1..Len(q)}
OnePerJob(q) == \A i, k \in 1..Len(q) : q[i].job = q[k].job => i = k

Pending == Elements(queue)
AtWork(w) == worker[w].phase # "idle"
On(w, j) == AtWork(w) /\ TaskOf(w).job = j
Of(r, j) == request[r] # Free /\ request[r].job = j
Asked(r, j) == request[r].phase = "submit" /\ request[r].job = j
HasTask(j) ==
  \/ \E t \in Pending : t.job = j
  \/ \E w \in Workers : On(w, j)
  \/ \E r \in Requests : Asked(r, j)

Current(j) == object[j][cached[j]]
Sound(job) == job.graph /\ (job.stage = "annotate" => job.semantics)

Asking ==
  [phase : {"missed", "loaded", "found", "submit"}, job : Jobs, object : Objects \cup {0},
   kind : Kind]

ShapeInv ==
  /\ row \in [Jobs -> Job \cup {NoJob}]
  /\ events \in [Jobs -> 0..MaxEvents] /\ log \in [Jobs -> 0..MaxEvents]
  /\ run \in [Jobs -> {"none", "started", "checkpoint"}]
  /\ issued \subseteq Jobs /\ servers \in 1..MaxServers
  /\ object \in [Jobs -> [Objects -> Job \cup {NoJob}]]
  /\ cached \in [Jobs -> Objects \cup {0}]
  /\ request \in [Requests -> Asking \cup {Free}]
  /\ queue \in Seq(Task)
  /\ worker \in [Workers -> [phase : Phases, task : Task \cup {NoTask}]]
  /\ \A w \in Workers : AtWork(w) <=> TaskOf(w) \in Task

(* One request at a time looks up a job.                                   *)
OneLookup == \A r, s \in Requests : LookingUp(r) /\ LookingUp(s) => r = s

(* A job has a task in one place only.                                     *)
OneTask(j) ==
  /\ \A v, w \in Workers : On(v, j) /\ On(w, j) => v = w
  /\ \A r, s \in Requests : Asked(r, j) /\ Asked(s, j) => r = s
  /\ \A t \in Pending : t.job = j =>
       (\A w \in Workers : ~On(w, j)) /\ (\A r \in Requests : ~Asked(r, j))
  /\ \A w \in Workers, r \in Requests : On(w, j) => ~Asked(r, j)

(* A task is of the object that a lookup finds, which is active and at the *)
(* stage that the task, as far as it has got, is about to work at.         *)
Fits(j, o, kind) ==
  /\ o # 0 /\ cached[j] = o /\ Active(object[j][o])
  /\ object[j][o].stage = IF kind \in {"analysis", "full"} THEN "analyze" ELSE "annotate"
  /\ kind \in {"annotation", "full"} => events[j] = 0

Doing(w, j) ==
  LET phase == worker[w].phase
      kind == TaskOf(w).kind
      job == object[j][TaskOf(w).object]
  IN /\ cached[j] = TaskOf(w).object /\ Active(job)
     /\ phase \in {"mark", "analyze", "stage"} => job.stage = "analyze"
     /\ phase \in {"mark_annotation", "begin", "annotate", "emitting"} =>
          job.stage = "annotate" /\ kind # "analysis"
     /\ phase = "stage" => kind # "analysis"
     /\ phase \in {"mark", "analyze", "stage", "mark_annotation", "begin"}
          /\ kind \in {"annotation", "full"} => events[j] = 0
     /\ phase = "returned" => Sound(job)

TasksFit(j) ==
  /\ \A t \in Pending : t.job = j => Fits(j, t.object, t.kind)
  /\ \A r \in Requests : Asked(r, j) => Fits(j, request[r].object, request[r].kind)
  /\ \A w \in Workers : On(w, j) => Doing(w, j)
  /\ cached[j] # 0 /\ Active(Current(j)) => HasTask(j)

(* What a lookup has read is still true, and only the object that it has   *)
(* not made known yet is an object that no lookup finds.                   *)
LookupFits(j) ==
  /\ \A r \in Requests : Of(r, j) =>
       LET o == request[r].object
       IN /\ request[r].phase # "submit" => request[r].kind = "annotation"
          /\ request[r].phase = "missed" => cached[j] = 0
          /\ request[r].phase = "loaded" =>
               cached[j] = 0 /\ o # 0 /\ row[j] # NoJob /\ object[j][o] = row[j]
          /\ request[r].phase = "found" => o # 0 /\ cached[j] = o
  /\ \A o \in Objects :
       object[j][o] = NoJob \/ o = cached[j]
         \/ \E r \in Requests :
              Of(r, j) /\ request[r].phase = "loaded" /\ request[r].object = o

(* The row is behind its object only in what a thread has not written yet. *)
RowFits(j) ==
  /\ cached[j] = 0 => ~Active(row[j])
  /\ cached[j] # 0 =>
       /\ row[j] # NoJob /\ Current(j) # NoJob
       /\ row[j].state = Current(j).state /\ row[j].stage = Current(j).stage
       /\ ~Active(Current(j)) => row[j] = Current(j)
  /\ row[j].state = "completed" => Sound(row[j])
  /\ run[j] # "none" /\ row[j] # NoJob => row[j].stage = "annotate"
  /\ events[j] <= log[j]
  /\ j \notin issued => row[j] = NoJob /\ cached[j] = 0 /\ run[j] = "none" /\ events[j] = 0

JobInv(j) == OneTask(j) /\ TasksFit(j) /\ LookupFits(j) /\ RowFits(j)

WebInv == ShapeInv /\ OnePerJob(queue) /\ OneLookup /\ \A j \in Jobs : JobInv(j)

-----------------------------------------------------------------------------
(* Queues of tasks, and sets of at most one element.                       *)

(* The first task of a queue and the rest of it: what _executor gives to a *)
(* thread, and what stays.                                                 *)
LEMMA HeadLeaves ==
  ASSUME NEW q \in Seq(Task), q # <<>>
  PROVE  /\ Head(q) \in Task /\ Tail(q) \in Seq(Task)
         /\ Elements(q) = Elements(Tail(q)) \cup {Head(q)}
         /\ OnePerJob(q) => /\ OnePerJob(Tail(q))
                            /\ \A t \in Elements(Tail(q)) : t.job # Head(q).job
PROOF
<1>1. /\ Tail(q) \in Seq(Task) /\ Len(q) \in Nat \ {0} /\ Len(Tail(q)) = Len(q) - 1
      /\ \A i \in 1..(Len(q) - 1) : Tail(q)[i] = q[i + 1]
      /\ Head(q) = q[1] /\ q[1] \in Task
  OBVIOUS
<1>2. \A i \in 1..(Len(q) - 1) : i + 1 \in 1..Len(q) /\ i + 1 # 1 /\ Tail(q)[i] = q[i + 1]
  BY <1>1
<1>3. Elements(Tail(q)) \cup {Head(q)} \subseteq Elements(q)
  BY <1>1, <1>2 DEF Elements
<1>4. Elements(q) \subseteq Elements(Tail(q)) \cup {Head(q)}
  <2> SUFFICES ASSUME NEW i \in 1..Len(q), i # 1 PROVE q[i] \in Elements(Tail(q))
    BY <1>1 DEF Elements
  <2>1. i - 1 \in 1..(Len(q) - 1) /\ Tail(q)[i - 1] = q[i]
    BY <1>1
  <2>2. QED
    BY <1>1, <2>1 DEF Elements
<1>5. ASSUME OnePerJob(q)
      PROVE  OnePerJob(Tail(q)) /\ \A t \in Elements(Tail(q)) : t.job # Head(q).job
  <2>1. OnePerJob(Tail(q))
    BY <1>1, <1>2, <1>5 DEF OnePerJob
  <2>2. \A t \in Elements(Tail(q)) : t.job # Head(q).job
    BY <1>1, <1>2, <1>5 DEF OnePerJob, Elements
  <2>3. QED
    BY <2>1, <2>2
<1>6. QED
  BY <1>1, <1>3, <1>4, <1>5

(* A task submitted to the executor is the last one of its queue.          *)
LEMMA LastJoins ==
  ASSUME NEW q \in Seq(Task), NEW t \in Task
  PROVE  /\ Append(q, t) \in Seq(Task)
         /\ Elements(Append(q, t)) = Elements(q) \cup {t}
         /\ OnePerJob(q) /\ (\A u \in Elements(q) : u.job # t.job) => OnePerJob(Append(q, t))
PROOF
<1>1. /\ Append(q, t) \in Seq(Task) /\ Len(Append(q, t)) = Len(q) + 1 /\ Len(q) \in Nat
      /\ \A i \in 1..Len(q) : Append(q, t)[i] = q[i]
      /\ Append(q, t)[Len(q) + 1] = t
  OBVIOUS
<1>2. Elements(Append(q, t)) = Elements(q) \cup {t}
  BY <1>1 DEF Elements
<1>3. ASSUME OnePerJob(q), \A u \in Elements(q) : u.job # t.job
      PROVE  OnePerJob(Append(q, t))
  BY <1>1, <1>3 DEF OnePerJob, Elements
<1>4. QED
  BY <1>1, <1>2, <1>3

(* A queue holds tasks.                                                    *)
LEMMA ElementsAreTasks ==
  ASSUME NEW q \in Seq(Task)
  PROVE  Elements(q) \subseteq Task
BY DEF Elements

(* The size of a set whose elements are all the same.                      *)
LEMMA OneAtMost ==
  ASSUME NEW S, \A x, y \in S : x = y
  PROVE  Cardinality(S) = IF S = {} THEN 0 ELSE 1
PROOF
<1>1. CASE S = {}
  BY <1>1, FS_EmptySet
<1>2. CASE S # {}
  <2>1. PICK x \in S : TRUE
    BY <1>2
  <2>2. S = {x}
    BY <2>1
  <2>3. QED
    BY <1>2, <2>2, FS_Singleton
<1>3. QED
  BY <1>1, <1>2

-----------------------------------------------------------------------------
(* Kinds of values.                                                        *)

(* What is no job, no task and no request differs from those that are.     *)
LEMMA Kinds ==
  /\ NoJob \notin Job /\ NewJob \in Job /\ ~Active(NoJob) /\ NoJob.state = "none"
  /\ NoTask \notin Task /\ Free \notin Asking /\ Free.phase = "free"
  /\ Idle.phase = "idle" /\ Idle.task = NoTask
  /\ \A job \in Job : job # NoJob
PROOF
<1>1. \A job \in Job : job.state # "none" /\ NoJob.state = "none"
  BY DEF Job, JobState, NoJob
<1>2. \A task \in Task : task.kind # "none" /\ NoTask.kind = "none"
  BY DEF Task, Kind, NoTask
<1>3. \A ask \in Asking : ask.phase # "free" /\ Free.phase = "free"
  BY DEF Asking, Free
<1>4. NewJob \in Job
  BY DEF NewJob, Job, JobState, JobStage
<1>5. ~Active(NoJob)
  BY DEF Active, NoJob
<1>6. Idle.phase = "idle" /\ Idle.task = NoTask
  BY DEF Idle
<1>7. NoJob \notin Job /\ NoTask \notin Task /\ Free \notin Asking
  BY <1>1, <1>2, <1>3
<1>8. NoJob.state = "none" /\ Free.phase = "free"
  BY DEF NoJob, Free
<1>9. QED
  BY <1>4, <1>5, <1>6, <1>7, <1>8

(* A thread that has a task of object o of job j, and what is known then.  *)
WorksOn(w, j, o) ==
  /\ TaskOf(w) \in Task /\ worker[w] \in [phase : Phases, task : Task]
  /\ j = TaskOf(w).job /\ o = TaskOf(w).object /\ o # 0 /\ On(w, j) /\ Doing(w, j)
  /\ cached[j] = o /\ ObjectOf(w) = object[j][o] /\ object[j][o] = Current(j)
  /\ object[j][o] \in Job /\ Active(object[j][o])
  /\ row[j] \in Job /\ row[j].state = object[j][o].state
  /\ row[j].stage = object[j][o].stage
  /\ JobInv(j) /\ j \in issued

LEMMA WorkersObject ==
  ASSUME WebInv, NEW w \in Workers, AtWork(w)
  PROVE  \E j \in Jobs, o \in Objects : WorksOn(w, j, o)
PROOF
<1>1. ShapeInv /\ TaskOf(w) \in Task /\ worker[w] \in [phase : Phases, task : Task \cup {NoTask}]
  BY DEF WebInv, ShapeInv
<1>2. PICK j \in Jobs, o \in Objects : /\ j = TaskOf(w).job /\ o = TaskOf(w).object /\ o # 0
                                       /\ worker[w] \in [phase : Phases, task : Task]
  BY <1>1 DEF Task, Objects, TaskOf
<1>3. JobInv(j) /\ On(w, j)
  BY <1>2 DEF WebInv, On
<1>4. Doing(w, j) /\ RowFits(j)
  BY <1>3 DEF JobInv, TasksFit
<1>5. cached[j] = o /\ Active(object[j][o]) /\ ObjectOf(w) = object[j][o]
      /\ object[j][o] = Current(j)
  BY <1>2, <1>4 DEF Doing, ObjectOf, Current
<1>6. object[j][o] \in Job \cup {NoJob} /\ row[j] \in Job \cup {NoJob}
  BY <1>1, <1>2 DEF ShapeInv
<1>7. /\ row[j] # NoJob /\ row[j].state = object[j][o].state
      /\ row[j].stage = object[j][o].stage /\ j \in issued
  BY <1>2, <1>4, <1>5 DEF RowFits
<1>8. QED
  BY <1>1, <1>2, <1>3, <1>4, <1>5, <1>6, <1>7, Kinds DEF WorksOn

(* A job that no lookup finds, or whose object is settled, has no task.    *)
LEMMA SettledHasNone ==
  ASSUME NEW j \in Jobs, ShapeInv, JobInv(j)
  PROVE  HasTask(j) <=> cached[j] # 0 /\ Active(Current(j))
PROOF
<1>1. ASSUME NEW w \in Workers, On(w, j)
      PROVE  cached[j] # 0 /\ Active(Current(j))
  <2>1. TaskOf(w) \in Task /\ Doing(w, j)
    BY <1>1 DEF ShapeInv, JobInv, TasksFit, On
  <2>2. TaskOf(w).object # 0
    BY <2>1 DEF Task, Objects
  <2>3. QED
    BY <2>1, <2>2 DEF Doing, Current
<1>2. ASSUME NEW t \in Pending, t.job = j
      PROVE  cached[j] # 0 /\ Active(Current(j))
  BY <1>2 DEF JobInv, TasksFit, Fits, Current
<1>3. ASSUME NEW r \in Requests, Asked(r, j)
      PROVE  cached[j] # 0 /\ Active(Current(j))
  BY <1>3 DEF JobInv, TasksFit, Fits, Current
<1>4. QED
  BY <1>1, <1>2, <1>3 DEF JobInv, TasksFit, HasTask

-----------------------------------------------------------------------------
(* A step of one job leaves the others alone.                              *)

Elsewhere(k) ==
  /\ row'[k] = row[k] /\ events'[k] = events[k] /\ log'[k] = log[k] /\ run'[k] = run[k]
  /\ object'[k] = object[k] /\ cached'[k] = cached[k]
  /\ k \in issued' <=> k \in issued
  /\ \A t \in Task : t.job = k => (t \in Elements(queue') <=> t \in Elements(queue))
  /\ \A r \in Requests : request'[r] = request[r] \/ (~Of(r, k) /\ ~Of(r, k)')
  /\ \A w \in Workers : worker'[w] = worker[w] \/ (~On(w, k) /\ ~On(w, k)')

(* Every handler and every step of a thread is about the job it is given:  *)
(* what holds of another job stays.                                        *)
LEMMA OthersKeep ==
  ASSUME NEW k \in Jobs, ShapeInv, ShapeInv', JobInv(k), Elsewhere(k)
  PROVE  JobInv(k)'
PROOF
<1>1. \A t \in Pending' : t.job = k => t \in Pending
  BY ElementsAreTasks DEF ShapeInv, Elsewhere, Pending
<1>2. \A t \in Pending : t.job = k => t \in Pending'
  BY ElementsAreTasks DEF ShapeInv, Elsewhere, Pending
<1>3. \A w \in Workers : /\ On(w, k)' <=> On(w, k)
                         /\ On(w, k) => worker'[w] = worker[w]
  BY DEF Elsewhere, On, AtWork, TaskOf
<1>4. \A r \in Requests : /\ Of(r, k)' <=> Of(r, k)
                          /\ Of(r, k) => request'[r] = request[r]
  BY DEF Elsewhere, Of
<1>5. \A r \in Requests : /\ Asked(r, k)' <=> Asked(r, k)
                          /\ Asked(r, k) => request'[r] = request[r]
  BY <1>4, Kinds DEF Asked, Of
<1>6. OneTask(k)'
  BY <1>1, <1>3, <1>5 DEF JobInv, OneTask
<1>7. TasksFit(k)'
  <2>1. \A o, kind : Fits(k, o, kind)' <=> Fits(k, o, kind)
    BY DEF Elsewhere, Fits
  <2>2. \A w \in Workers : On(w, k) => (Doing(w, k)' <=> Doing(w, k))
    BY <1>3 DEF Elsewhere, Doing, TaskOf
  <2>3. HasTask(k)' <=> HasTask(k)
    BY <1>1, <1>2, <1>3, <1>5 DEF HasTask
  <2>4. Current(k)' = Current(k) /\ cached'[k] = cached[k]
    BY DEF Elsewhere, Current
  <2>5. TasksFit(k)
    BY DEF JobInv
  <2>6. QED
    BY <1>1, <1>3, <1>5, <2>1, <2>2, <2>3, <2>4, <2>5 DEF TasksFit
<1>8. LookupFits(k)'
  BY <1>4 DEF JobInv, LookupFits, Elsewhere
<1>9. RowFits(k)'
  BY DEF JobInv, RowFits, Elsewhere, Current
<1>10. QED
  BY <1>6, <1>7, <1>8, <1>9 DEF JobInv

(* So a step keeps the invariant if it does at the job it is about.        *)
LEMMA OneJobMoves ==
  ASSUME WebInv, NEW j \in Jobs, ShapeInv', OnePerJob(queue)', OneLookup', JobInv(j)',
         \A k \in Jobs : k # j => Elsewhere(k)
  PROVE  WebInv'
BY OthersKeep DEF WebInv

-----------------------------------------------------------------------------
(* Writes.                                                                 *)

Changes(j, o) ==
  /\ object' \in [Jobs -> [Objects -> Job \cup {NoJob}]]
  /\ \A i \in Objects : i # o => object'[j][i] = object[j][i]
  /\ \A k \in Jobs : k # j => object'[k] = object[k]
Persists(j) ==
  /\ row' \in [Jobs -> Job \cup {NoJob}]
  /\ \A k \in Jobs : k # j => row'[k] = row[k]
Counts(j) ==
  /\ events' \in [Jobs -> 0..MaxEvents] /\ log' \in [Jobs -> 0..MaxEvents]
  /\ run' \in [Jobs -> {"none", "started", "checkpoint"}]
  /\ \A k \in Jobs : k # j => events'[k] = events[k] /\ log'[k] = log[k] /\ run'[k] = run[k]
GoesTo(w, phase) ==
  /\ worker' \in [Workers -> [phase : Phases, task : Task \cup {NoTask}]]
  /\ worker'[w].task = worker[w].task /\ worker'[w].phase = phase /\ phase # "idle"
  /\ \A v \in Workers : v # w => worker'[v] = worker[v]

(* A change of one object.                                                 *)
LEMMA ChangeSets ==
  ASSUME ShapeInv, NEW j \in Jobs, NEW o \in Objects, NEW job \in Job \cup {NoJob},
         Change(j, o, job)
  PROVE  Changes(j, o) /\ object'[j][o] = job
PROOF
<1>1. object \in [Jobs -> [Objects -> Job \cup {NoJob}]]
  BY DEF ShapeInv
<1>2. object' = [object EXCEPT ![j] = [object[j] EXCEPT ![o] = job]]
  BY DEF Change
<1>3. [object[j] EXCEPT ![o] = job] \in [Objects -> Job \cup {NoJob}]
  BY <1>1
<1>4. QED
  BY <1>1, <1>2, <1>3 DEF Changes

(* A row written.                                                          *)
LEMMA PersistSets ==
  ASSUME ShapeInv, NEW j \in Jobs, NEW job \in Job, Persist(j, job)
  PROVE  Persists(j) /\ row'[j] = job
BY DEF ShapeInv, Persist, Persists

(* A thread goes on to the next part of its task.                          *)
LEMMA MoveSets ==
  ASSUME ShapeInv, NEW w \in Workers, NEW phase \in Phases, phase # "idle", Move(w, phase)
  PROVE  GoesTo(w, phase)
BY DEF ShapeInv, Move, GoesTo

(* Nothing written.                                                        *)
LEMMA NothingWritten ==
  ASSUME ShapeInv, NEW j \in Jobs
  PROVE  /\ UNCHANGED row => Persists(j)
         /\ UNCHANGED <<events, run, log>> => Counts(j)
         /\ \A o \in Objects : UNCHANGED object => Changes(j, o)
BY DEF ShapeInv, Persists, Counts, Changes

-----------------------------------------------------------------------------
(* The steps of a thread within its task.                                  *)

(* A thread that goes on with its task: whatever it does to its job, what  *)
(* holds of tasks and lookups stays, and its object and the row are to be  *)
(* looked at.                                                              *)
LEMMA WorkerMoves ==
  ASSUME WebInv, NEW w \in Workers, NEW j \in Jobs, NEW o \in Objects, WorksOn(w, j, o),
         UNCHANGED <<issued, cached, request, queue, servers>>,
         Persists(j), Counts(j), Changes(j, o), NEW phase, GoesTo(w, phase),
         Doing(w, j)', RowFits(j)'
  PROVE  WebInv'
PROOF
<1>1. /\ j = TaskOf(w).job /\ On(w, j) /\ cached[j] # 0 /\ cached[j] = o /\ JobInv(j)
      /\ TaskOf(w) \in Task /\ ShapeInv /\ OnePerJob(queue) /\ OneLookup /\ AtWork(w)
  BY DEF WebInv, WorksOn, On
<1>2. \A v \in Workers : (AtWork(v)' <=> AtWork(v)) /\ TaskOf(v)' = TaskOf(v)
  BY <1>1 DEF AtWork, TaskOf, GoesTo
<1>3. ShapeInv'
  BY <1>1, <1>2 DEF ShapeInv, Persists, Counts, Changes, GoesTo
<1>4. OnePerJob(queue)' /\ OneLookup'
  BY <1>1 DEF OneLookup, LookingUp
<1>5. \A k \in Jobs : k # j => Elsewhere(k)
  <2> SUFFICES ASSUME NEW k \in Jobs, k # j PROVE Elsewhere(k)
    OBVIOUS
  <2>1. ~On(w, k) /\ ~On(w, k)'
    BY <1>1, <1>2 DEF On
  <2>2. QED
    BY <2>1 DEF Elsewhere, Persists, Counts, Changes, GoesTo
<1>6. \A v \in Workers : On(v, j)' <=> v = w
  BY <1>1, <1>2 DEF On, JobInv, OneTask
<1>7. Pending' = Pending /\ \A r \in Requests : Asked(r, j)' = Asked(r, j) /\ Of(r, j)' = Of(r, j)
  BY DEF Pending, Asked, Of
<1>8. (\A t \in Pending : t.job # j) /\ \A r \in Requests : ~Asked(r, j)
  BY <1>1 DEF JobInv, OneTask
<1>9. OneTask(j)'
  BY <1>6, <1>7, <1>8 DEF OneTask
<1>10. TasksFit(j)'
  <2>1. HasTask(j)'
    BY <1>6 DEF HasTask
  <2>2. QED
    BY <1>6, <1>7, <1>8, <2>1 DEF TasksFit
<1>11. LookupFits(j)'
  <2>1. LookupFits(j)
    BY <1>1 DEF JobInv
  <2>2. \A r \in Requests : Of(r, j) => request[r].phase \notin {"missed", "loaded"}
    BY <1>1, <2>1 DEF LookupFits
  <2>3. QED
    BY <1>1, <1>7, <2>1, <2>2 DEF LookupFits, Changes
<1>12. QED
  BY <1>1, <1>3, <1>4, <1>5, <1>9, <1>10, <1>11, OneJobMoves DEF JobInv

(* _mark_running.                                                          *)
LEMMA MarkRunningKeeps ==
  ASSUME WebInv, NEW w \in Workers, MarkRunning(w)
  PROVE  WebInv'
PROOF
<1>1. AtWork(w) /\ ShapeInv
  BY DEF MarkRunning, AtWork, WebInv
<1>2. PICK j \in Jobs, o \in Objects : WorksOn(w, j, o)
  BY <1>1, WorkersObject
<1> DEFINE job == [object[j][o] EXCEPT !.state = "running"]
<1>3. job \in Job /\ job.state = "running" /\ job.stage = object[j][o].stage
  BY <1>2 DEF WorksOn, Job, JobState
<1> HIDE DEF job
<1>4. Changes(j, o) /\ object'[j][o] = job
  BY <1>1, <1>2, <1>3, ChangeSets DEF MarkRunning, Write, WorksOn, job
<1>5. Persists(j) /\ row'[j] = job
  BY <1>1, <1>2, <1>3, PersistSets DEF MarkRunning, Write, WorksOn, job
<1>6. /\ worker[w].phase \in {"mark", "mark_annotation"}
      /\ Move(w, IF worker[w].phase = "mark" THEN "analyze" ELSE "begin")
      /\ UNCHANGED <<events, run, log, issued, cached, request, queue, servers>>
  BY DEF MarkRunning, At
<1>7. GoesTo(w, IF worker[w].phase = "mark" THEN "analyze" ELSE "begin")
  BY <1>1, <1>6, MoveSets DEF Phases
<1>8. Doing(w, j)'
  BY <1>2, <1>3, <1>4, <1>6, <1>7 DEF WorksOn, Doing, TaskOf, Active, GoesTo
<1>9. RowFits(j)'
  <2>1. Current(j)' = job
    BY <1>2, <1>4, <1>6 DEF WorksOn, Current
  <2>2. QED
    BY <1>2, <1>3, <1>5, <1>6, <2>1, Kinds DEF WorksOn, JobInv, RowFits, Active
<1>10. Counts(j)
  BY <1>1, <1>6, NothingWritten
<1>11. QED
  BY <1>2, <1>4, <1>5, <1>6, <1>7, <1>8, <1>9, <1>10, WorkerMoves

(* _run_analysis has its graph.                                            *)
LEMMA AnalyzedKeeps ==
  ASSUME WebInv, NEW w \in Workers, Analyzed(w)
  PROVE  WebInv'
PROOF
<1>1. AtWork(w) /\ ShapeInv
  BY DEF Analyzed, At, AtWork, WebInv
<1>2. PICK j \in Jobs, o \in Objects : WorksOn(w, j, o)
  BY <1>1, WorkersObject
<1> DEFINE job == [object[j][o] EXCEPT !.graph = TRUE]
<1>3. /\ job \in Job /\ job.state = object[j][o].state /\ job.graph
      /\ job.stage = object[j][o].stage
  BY <1>2 DEF WorksOn, Job
<1> HIDE DEF job
<1>4. Changes(j, o) /\ object'[j][o] = job
  BY <1>1, <1>2, <1>3, ChangeSets DEF Analyzed, WorksOn, job
<1>5. /\ worker[w].phase = "analyze"
      /\ Move(w, IF TaskOf(w).kind = "full" THEN "stage" ELSE "returned")
      /\ UNCHANGED <<row, events, run, log, issued, cached, request, queue, servers>>
  BY DEF Analyzed, At, disk
<1>6. GoesTo(w, IF TaskOf(w).kind = "full" THEN "stage" ELSE "returned")
  BY <1>1, <1>5, MoveSets DEF Phases
<1>7. Doing(w, j)'
  <2>1. /\ TaskOf(w)' = TaskOf(w) /\ TaskOf(w).object = o
        /\ worker'[w].phase = IF TaskOf(w).kind = "full" THEN "stage" ELSE "returned"
    BY <1>2, <1>6 DEF WorksOn, TaskOf, GoesTo
  <2>2. /\ cached'[j] = o /\ Active(job) /\ job.graph /\ job.stage = "analyze"
        /\ TaskOf(w).kind = "full" => events'[j] = 0
    BY <1>2, <1>3, <1>5 DEF WorksOn, Doing, Active
  <2>3. Sound(job)
    BY <2>2 DEF Sound
  <2>4. CASE TaskOf(w).kind = "full"
    BY <1>4, <2>1, <2>2, <2>4 DEF Doing
  <2>5. CASE TaskOf(w).kind # "full"
    BY <1>4, <2>1, <2>2, <2>3, <2>5 DEF Doing
  <2>6. QED
    BY <2>4, <2>5
<1>8. RowFits(j)'
  <2>1. Current(j)' = job
    BY <1>2, <1>4, <1>5 DEF WorksOn, Current
  <2>2. QED
    BY <1>2, <1>3, <1>5, <2>1, Kinds DEF WorksOn, JobInv, RowFits, Active
<1>9. Persists(j) /\ Counts(j)
  BY <1>1, <1>5, NothingWritten
<1>10. QED
  BY <1>2, <1>4, <1>5, <1>6, <1>7, <1>8, <1>9, WorkerMoves

(* _run_full_annotation, between its halves.                               *)
LEMMA EnterStageKeeps ==
  ASSUME WebInv, NEW w \in Workers, EnterStage(w)
  PROVE  WebInv'
PROOF
<1>1. AtWork(w) /\ ShapeInv
  BY DEF EnterStage, At, AtWork, WebInv
<1>2. PICK j \in Jobs, o \in Objects : WorksOn(w, j, o)
  BY <1>1, WorkersObject
<1> DEFINE job == [object[j][o] EXCEPT !.stage = "annotate"]
<1>3. job \in Job /\ job.state = object[j][o].state /\ job.stage = "annotate"
  BY <1>2 DEF WorksOn, Job, JobStage
<1> HIDE DEF job
<1>4. Changes(j, o) /\ object'[j][o] = job
  BY <1>1, <1>2, <1>3, ChangeSets DEF EnterStage, Write, WorksOn, job
<1>5. Persists(j) /\ row'[j] = job
  BY <1>1, <1>2, <1>3, PersistSets DEF EnterStage, Write, WorksOn, job
<1>6. /\ worker[w].phase = "stage" /\ Move(w, "mark_annotation")
      /\ UNCHANGED <<events, run, log, issued, cached, request, queue, servers>>
  BY DEF EnterStage, At
<1>7. GoesTo(w, "mark_annotation")
  BY <1>1, <1>6, MoveSets DEF Phases
<1>8. Doing(w, j)'
  BY <1>2, <1>3, <1>4, <1>6, <1>7 DEF WorksOn, Doing, TaskOf, Active, GoesTo
<1>9. RowFits(j)'
  <2>1. Current(j)' = job
    BY <1>2, <1>4, <1>6 DEF WorksOn, Current
  <2>2. QED
    BY <1>2, <1>3, <1>5, <1>6, <2>1, Kinds DEF WorksOn, JobInv, RowFits, Active
<1>10. Counts(j)
  BY <1>1, <1>6, NothingWritten
<1>11. QED
  BY <1>2, <1>4, <1>5, <1>6, <1>7, <1>8, <1>9, <1>10, WorkerMoves

(* _run_annotation starts a run or goes on with one: the events of a run   *)
(* that starts have been deleted.                                          *)
LEMMA BeginRunKeeps ==
  ASSUME WebInv, NEW w \in Workers, BeginRun(w)
  PROVE  WebInv'
PROOF
<1>1. AtWork(w) /\ ShapeInv
  BY DEF BeginRun, At, AtWork, WebInv
<1>2. PICK j \in Jobs, o \in Objects : WorksOn(w, j, o)
  BY <1>1, WorkersObject
<1>3. /\ worker[w].phase = "begin" /\ Move(w, "annotate")
      /\ run' = [run EXCEPT ![j] = IF TaskOf(w).kind = "resume" THEN @ ELSE "started"]
      /\ log' = [log EXCEPT ![j] = IF TaskOf(w).kind = "resume" THEN @ ELSE 0]
      /\ UNCHANGED <<row, object, events, issued, cached, request, queue, servers>>
  BY <1>2 DEF BeginRun, At, WorksOn
<1>4. GoesTo(w, "annotate")
  BY <1>1, <1>3, MoveSets DEF Phases
<1>5. /\ run' \in [Jobs -> {"none", "started", "checkpoint"}] /\ log' \in [Jobs -> 0..MaxEvents]
      /\ \A k \in Jobs : k # j => log'[k] = log[k] /\ run'[k] = run[k]
      /\ log'[j] = IF TaskOf(w).kind = "resume" THEN log[j] ELSE 0
      /\ events[j] \in 0..MaxEvents
  BY <1>1, <1>3, BoundsAreNats DEF ShapeInv
<1>6. Counts(j) /\ Persists(j) /\ Changes(j, o)
  <2>1. Counts(j)
    BY <1>1, <1>3, <1>5 DEF Counts, ShapeInv
  <2>2. QED
    BY <1>1, <1>3, <2>1, NothingWritten
<1>7. Doing(w, j)'
  BY <1>2, <1>3, <1>4 DEF WorksOn, Doing, TaskOf, Active, GoesTo
<1>8. RowFits(j)'
  <2>1. TaskOf(w).kind \in Kind /\ TaskOf(w).kind # "analysis" /\ object[j][o].stage = "annotate"
    BY <1>2, <1>3 DEF WorksOn, Doing, Task
  <2>2. TaskOf(w).kind # "resume" => events[j] = 0
    BY <1>2, <1>3, <2>1 DEF WorksOn, Doing, Kind
  <2>3. RowFits(j) /\ row[j].stage = "annotate"
    BY <1>2, <2>1 DEF WorksOn, JobInv
  <2>4. events[j] <= log'[j]
    BY <1>5, <2>2, <2>3 DEF RowFits
  <2>5. Current(j)' = Current(j)
    BY <1>3 DEF Current
  <2>6. j \in issued
    BY <1>2 DEF WorksOn
  <2>7. QED
    BY <1>3, <2>3, <2>4, <2>5, <2>6 DEF RowFits
<1>9. QED
  BY <1>2, <1>3, <1>4, <1>6, <1>7, <1>8, WorkerMoves

(* The run writes its checkpoint.                                          *)
LEMMA ReachCheckpointKeeps ==
  ASSUME WebInv, NEW w \in Workers, ReachCheckpoint(w)
  PROVE  WebInv'
PROOF
<1>1. AtWork(w) /\ ShapeInv
  BY DEF ReachCheckpoint, At, AtWork, WebInv
<1>2. PICK j \in Jobs, o \in Objects : WorksOn(w, j, o)
  BY <1>1, WorkersObject
<1>3. /\ worker[w].phase = "annotate" /\ run[j] = "started"
      /\ run' = [run EXCEPT ![j] = "checkpoint"]
      /\ UNCHANGED <<row, object, events, log, worker, issued, cached, request, queue, servers>>
  BY <1>2 DEF ReachCheckpoint, At, WorksOn, memory
<1>4. GoesTo(w, "annotate")
  BY <1>1, <1>3 DEF GoesTo, ShapeInv
<1>5. Counts(j) /\ Persists(j) /\ Changes(j, o)
  <2>1. Counts(j)
    BY <1>1, <1>3 DEF Counts, ShapeInv
  <2>2. QED
    BY <1>1, <1>3, <2>1, NothingWritten
<1>6. Doing(w, j)'
  BY <1>2, <1>3 DEF WorksOn, Doing, TaskOf
<1>7. RowFits(j)'
  <2>1. RowFits(j) /\ row[j].stage = "annotate" /\ j \in issued
    BY <1>2, <1>3 DEF WorksOn, JobInv, Doing
  <2>2. Current(j)' = Current(j)
    BY <1>3 DEF Current
  <2>3. QED
    BY <1>3, <2>1, <2>2 DEF RowFits
<1>8. QED
  BY <1>2, <1>3, <1>4, <1>5, <1>6, <1>7, WorkerMoves

(* The graph writes its progress log.                                      *)
LEMMA EmitKeeps ==
  ASSUME WebInv, NEW w \in Workers, Emit(w)
  PROVE  WebInv'
PROOF
<1>1. AtWork(w) /\ ShapeInv
  BY DEF Emit, At, AtWork, WebInv
<1>2. PICK j \in Jobs, o \in Objects : WorksOn(w, j, o)
  BY <1>1, WorkersObject
<1>3. /\ worker[w].phase = "annotate" /\ log[j] < MaxEvents /\ Move(w, "emitting")
      /\ log' = [log EXCEPT ![j] = @ + 1]
      /\ UNCHANGED <<row, object, events, run, issued, cached, request, queue, servers>>
  BY <1>2 DEF Emit, At, WorksOn
<1>4. GoesTo(w, "emitting")
  BY <1>1, <1>3, MoveSets DEF Phases
<1>5. /\ log' \in [Jobs -> 0..MaxEvents] /\ log'[j] = log[j] + 1
      /\ \A k \in Jobs : k # j => log'[k] = log[k]
      /\ log[j] \in 0..MaxEvents /\ events[j] \in 0..MaxEvents
  BY <1>1, <1>3, BoundsAreNats DEF ShapeInv
<1>6. Counts(j) /\ Persists(j) /\ Changes(j, o)
  <2>1. Counts(j)
    BY <1>1, <1>3, <1>5 DEF Counts, ShapeInv
  <2>2. QED
    BY <1>1, <1>3, <2>1, NothingWritten
<1>7. Doing(w, j)'
  BY <1>2, <1>3, <1>4 DEF WorksOn, Doing, TaskOf, Active, GoesTo
<1>8. RowFits(j)'
  <2>1. RowFits(j) /\ j \in issued
    BY <1>2 DEF WorksOn, JobInv
  <2>2. Current(j)' = Current(j)
    BY <1>3 DEF Current
  <2>3. events[j] <= log'[j]
    BY <1>5, <2>1, BoundsAreNats DEF RowFits
  <2>4. QED
    BY <1>3, <2>1, <2>2, <2>3 DEF RowFits
<1>9. QED
  BY <1>2, <1>3, <1>4, <1>6, <1>7, <1>8, WorkerMoves

(* _record_progress.                                                       *)
LEMMA RecordProgressKeeps ==
  ASSUME WebInv, NEW w \in Workers, RecordProgress(w)
  PROVE  WebInv'
PROOF
<1>1. AtWork(w) /\ ShapeInv
  BY DEF RecordProgress, At, AtWork, WebInv
<1>2. PICK j \in Jobs, o \in Objects : WorksOn(w, j, o)
  BY <1>1, WorkersObject
<1>3. /\ worker[w].phase = "emitting" /\ Move(w, "annotate")
      /\ events' = [events EXCEPT ![j] = log[j]] /\ Persist(j, object[j][o])
      /\ UNCHANGED <<object, run, log, issued, cached, request, queue, servers>>
  BY <1>2 DEF RecordProgress, At, WorksOn
<1>4. GoesTo(w, "annotate")
  BY <1>1, <1>3, MoveSets DEF Phases
<1>5. Persists(j) /\ row'[j] = object[j][o]
  <2>1. object[j][o] \in Job
    BY <1>2 DEF WorksOn
  <2>2. QED
    BY <1>1, <1>3, <2>1, PersistSets
<1>6. /\ events' \in [Jobs -> 0..MaxEvents] /\ events'[j] = log[j] /\ log[j] \in 0..MaxEvents
      /\ \A k \in Jobs : k # j => events'[k] = events[k]
  BY <1>1, <1>3 DEF ShapeInv
<1>7. Counts(j) /\ Changes(j, o)
  <2>1. Counts(j)
    BY <1>1, <1>3, <1>6 DEF Counts, ShapeInv
  <2>2. QED
    BY <1>1, <1>3, <2>1, NothingWritten
<1>8. Doing(w, j)'
  BY <1>2, <1>3, <1>4 DEF WorksOn, Doing, TaskOf, Active, GoesTo
<1>9. RowFits(j)'
  <2>1. RowFits(j) /\ j \in issued /\ object[j][o].stage = "annotate" /\ cached[j] = o /\ o # 0
        /\ object[j][o] \in Job /\ Active(object[j][o])
    BY <1>2, <1>3 DEF WorksOn, JobInv, Doing
  <2>2. Current(j)' = object[j][o]
    BY <1>3, <2>1 DEF Current
  <2>3. events'[j] <= log[j]
    BY <1>6, BoundsAreNats
  <2>4. QED
    BY <1>3, <1>5, <2>1, <2>2, <2>3, Kinds DEF RowFits, Active
<1>10. QED
  BY <1>2, <1>3, <1>4, <1>5, <1>7, <1>8, <1>9, WorkerMoves

(* The graph returns its state.                                            *)
LEMMA AnnotatedKeeps ==
  ASSUME WebInv, NEW w \in Workers, Annotated(w)
  PROVE  WebInv'
PROOF
<1>1. AtWork(w) /\ ShapeInv
  BY DEF Annotated, At, AtWork, WebInv
<1>2. PICK j \in Jobs, o \in Objects : WorksOn(w, j, o)
  BY <1>1, WorkersObject
<1> DEFINE job == [object[j][o] EXCEPT !.semantics = TRUE, !.graph = TRUE]
<1>3. /\ job \in Job /\ job.state = object[j][o].state /\ job.graph /\ job.semantics
      /\ job.stage = object[j][o].stage
  BY <1>2 DEF WorksOn, Job
<1> HIDE DEF job
<1>4. Changes(j, o) /\ object'[j][o] = job
  BY <1>1, <1>2, <1>3, ChangeSets DEF Annotated, WorksOn, job
<1>5. /\ worker[w].phase = "annotate" /\ Move(w, "returned")
      /\ UNCHANGED <<row, events, run, log, issued, cached, request, queue, servers>>
  BY DEF Annotated, At, disk
<1>6. GoesTo(w, "returned")
  BY <1>1, <1>5, MoveSets DEF Phases
<1>7. Doing(w, j)'
  BY <1>2, <1>3, <1>4, <1>5, <1>6 DEF WorksOn, Doing, TaskOf, Sound, Active, GoesTo
<1>8. RowFits(j)'
  <2>1. Current(j)' = job
    BY <1>2, <1>4, <1>5 DEF WorksOn, Current
  <2>2. QED
    BY <1>2, <1>3, <1>5, <2>1, Kinds DEF WorksOn, JobInv, RowFits, Active
<1>9. Persists(j) /\ Counts(j)
  BY <1>1, <1>5, NothingWritten
<1>10. QED
  BY <1>2, <1>4, <1>5, <1>6, <1>7, <1>8, <1>9, WorkerMoves

(* An error of the analysis or of the annotation.                          *)
LEMMA TaskRaisesKeeps ==
  ASSUME WebInv, NEW w \in Workers, TaskRaises(w)
  PROVE  WebInv'
PROOF
<1>1. AtWork(w) /\ ShapeInv
  BY DEF TaskRaises, AtWork, WebInv
<1>2. PICK j \in Jobs, o \in Objects : WorksOn(w, j, o)
  BY <1>1, WorkersObject
<1>3. /\ Move(w, "raised")
      /\ UNCHANGED <<row, object, events, run, log, issued, cached, request, queue, servers>>
  BY DEF TaskRaises, disk
<1>4. GoesTo(w, "raised")
  BY <1>1, <1>3, MoveSets DEF Phases
<1>5. Persists(j) /\ Counts(j) /\ Changes(j, o)
  BY <1>1, <1>3, NothingWritten
<1>6. Doing(w, j)'
  BY <1>2, <1>3, <1>4 DEF WorksOn, Doing, TaskOf, Active, GoesTo
<1>7. RowFits(j)'
  BY <1>2, <1>3 DEF WorksOn, JobInv, RowFits, Current
<1>8. QED
  BY <1>2, <1>3, <1>4, <1>5, <1>6, <1>7, WorkerMoves

-----------------------------------------------------------------------------
(* The first and the last step of a task.                                  *)

(* A thread takes the first task of the queue: no other task is of its     *)
(* job.                                                                    *)
LEMMA TakeKeeps ==
  ASSUME WebInv, NEW w \in Workers, Take(w)
  PROVE  WebInv'
PROOF
<1>1. /\ ShapeInv /\ OnePerJob(queue) /\ OneLookup /\ ~AtWork(w)
      /\ queue \in Seq(Task) /\ queue # <<>> /\ queue' = Tail(queue)
      /\ UNCHANGED <<row, events, run, log, issued, object, cached, request, servers>>
  BY DEF WebInv, ShapeInv, Take, At, AtWork, disk
<1>2. PICK t \in Task : t = Head(queue)
  BY <1>1, HeadLeaves
<1>3. PICK j \in Jobs : j = t.job
  BY <1>2 DEF Task
<1>4. /\ queue' \in Seq(Task) /\ OnePerJob(queue') /\ Pending = Pending' \cup {t}
      /\ \A u \in Pending' : u.job # j
  BY <1>1, <1>2, <1>3, HeadLeaves DEF Pending
<1>5. PICK phase \in {"mark", "mark_annotation"} :
        /\ phase = (IF t.kind \in {"analysis", "full"} THEN "mark" ELSE "mark_annotation")
        /\ worker' = [worker EXCEPT ![w] = [task |-> t, phase |-> phase]]
  BY <1>2 DEF Take
<1>6. /\ worker' \in [Workers -> [phase : Phases, task : Task \cup {NoTask}]]
      /\ worker'[w].task = t /\ worker'[w].phase = phase
      /\ \A v \in Workers : v # w => worker'[v] = worker[v]
  BY <1>1, <1>5 DEF ShapeInv, Phases
<1>7. /\ AtWork(w)' /\ TaskOf(w)' = t
      /\ \A v \in Workers : v # w => (AtWork(v)' <=> AtWork(v)) /\ TaskOf(v)' = TaskOf(v)
  BY <1>6 DEF AtWork, TaskOf
<1>8. ShapeInv'
  BY <1>1, <1>4, <1>6, <1>7 DEF ShapeInv
<1>9. OnePerJob(queue)' /\ OneLookup'
  BY <1>1, <1>4 DEF OneLookup, LookingUp
<1>10. \A k \in Jobs : k # j => Elsewhere(k)
  <2> SUFFICES ASSUME NEW k \in Jobs, k # j PROVE Elsewhere(k)
    OBVIOUS
  <2>1. ~On(w, k) /\ ~On(w, k)'
    BY <1>1, <1>3, <1>7 DEF On
  <2>2. \A u \in Task : u.job = k => (u \in Elements(queue') <=> u \in Elements(queue))
    BY <1>3, <1>4 DEF Pending
  <2>3. QED
    BY <1>1, <1>6, <2>1, <2>2 DEF Elsewhere
<1>11. t \in Pending /\ t.job = j /\ JobInv(j)
  BY <1>3, <1>4 DEF WebInv
<1>12. (\A v \in Workers : ~On(v, j)) /\ \A r \in Requests : ~Asked(r, j) /\ ~Asked(r, j)'
  BY <1>1, <1>11 DEF JobInv, OneTask, Asked
<1>13. \A v \in Workers : On(v, j)' <=> v = w
  BY <1>3, <1>7, <1>12 DEF On
<1>14. OneTask(j)'
  BY <1>4, <1>12, <1>13 DEF OneTask
<1>15. TasksFit(j)'
  <2>1. Fits(j, t.object, t.kind) /\ t.kind \in Kind
    BY <1>11 DEF JobInv, TasksFit, Task
  <2>2. Doing(w, j)'
    BY <1>1, <1>5, <1>6, <1>7, <2>1 DEF Doing, Fits, Kind
  <2>3. HasTask(j)'
    BY <1>13 DEF HasTask
  <2>4. QED
    BY <1>4, <1>12, <1>13, <2>2, <2>3 DEF TasksFit
<1>16. LookupFits(j)' /\ RowFits(j)'
  BY <1>1, <1>11 DEF JobInv, LookupFits, Of, RowFits, Current
<1>17. QED
  BY <1>8, <1>9, <1>10, <1>14, <1>15, <1>16, OneJobMoves DEF JobInv

(* _finish: the task is over, and its job settled in memory and on disk.   *)
LEMMA FinishKeeps ==
  ASSUME WebInv, NEW w \in Workers, Finish(w)
  PROVE  WebInv'
PROOF
<1>1. AtWork(w) /\ ShapeInv /\ OnePerJob(queue) /\ OneLookup
  BY DEF Finish, AtWork, WebInv
<1>2. PICK j \in Jobs, o \in Objects : WorksOn(w, j, o)
  BY <1>1, WorkersObject
<1> DEFINE state == IF worker[w].phase = "returned" THEN "completed" ELSE "failed"
           job == [object[j][o] EXCEPT !.state = state]
<1>3. /\ job \in Job /\ job.state = state /\ ~Active(job) /\ job.stage = object[j][o].stage
      /\ job.graph = object[j][o].graph /\ job.semantics = object[j][o].semantics
  BY <1>2 DEF WorksOn, Job, JobState, Active
<1>4. /\ worker' = [worker EXCEPT ![w] = Idle]
      /\ Change(j, o, job) /\ Persist(j, job)
      /\ UNCHANGED <<events, run, log, issued, cached, request, queue, servers>>
  BY <1>2 DEF Finish, Write, At, WorksOn
<1> HIDE DEF job
<1>5. Changes(j, o) /\ object'[j][o] = job /\ Persists(j) /\ row'[j] = job /\ Counts(j)
  BY <1>1, <1>3, <1>4, ChangeSets, PersistSets, NothingWritten
<1>6. /\ worker' \in [Workers -> [phase : Phases, task : Task \cup {NoTask}]]
      /\ worker'[w] = Idle /\ \A v \in Workers : v # w => worker'[v] = worker[v]
  BY <1>1, <1>4 DEF ShapeInv, Phases, Idle
<1>7. /\ ~AtWork(w)' /\ TaskOf(w)' \notin Task
      /\ \A v \in Workers : v # w => (AtWork(v)' <=> AtWork(v)) /\ TaskOf(v)' = TaskOf(v)
  BY <1>6, Kinds DEF AtWork, TaskOf
<1>8. ShapeInv'
  <2>1. \A v \in Workers : AtWork(v)' <=> TaskOf(v)' \in Task
    BY <1>1, <1>7 DEF ShapeInv
  <2>2. QED
    BY <1>1, <1>4, <1>5, <1>6, <2>1 DEF ShapeInv, Changes, Persists
<1>9. OnePerJob(queue)' /\ OneLookup'
  BY <1>1, <1>4 DEF OneLookup, LookingUp
<1>10. \A k \in Jobs : k # j => Elsewhere(k)
  <2> SUFFICES ASSUME NEW k \in Jobs, k # j PROVE Elsewhere(k)
    OBVIOUS
  <2>1. ~On(w, k) /\ ~On(w, k)'
    BY <1>2, <1>7 DEF On, WorksOn
  <2>2. QED
    BY <1>4, <1>5, <1>6, <2>1 DEF Elsewhere, Changes, Persists
<1>11. JobInv(j) /\ On(w, j) /\ cached[j] = o /\ o # 0
  BY <1>2 DEF WorksOn
<1>12. /\ \A v \in Workers : ~On(v, j)'
       /\ \A t \in Pending' : t.job # j
       /\ \A r \in Requests : ~Asked(r, j) /\ ~Asked(r, j)'
  <2>1. \A v \in Workers : ~On(v, j)'
    BY <1>7, <1>11 DEF JobInv, OneTask, On
  <2>2. Pending' = Pending /\ \A r \in Requests : Asked(r, j)' <=> Asked(r, j)
    BY <1>4 DEF Pending, Asked
  <2>3. QED
    BY <1>11, <2>1, <2>2 DEF JobInv, OneTask
<1>13. Current(j)' = job /\ cached'[j] = o
  BY <1>4, <1>5, <1>11 DEF Current
<1>14. OneTask(j)' /\ TasksFit(j)'
  BY <1>3, <1>12, <1>13 DEF OneTask, TasksFit
<1>15. LookupFits(j)'
  <2>1. LookupFits(j)
    BY <1>11 DEF JobInv
  <2>2. \A r \in Requests : Of(r, j) => request[r].phase \notin {"missed", "loaded"}
    BY <1>11, <2>1 DEF LookupFits
  <2>3. QED
    BY <1>4, <1>5, <1>11, <2>1, <2>2 DEF LookupFits, Changes, Of
<1>16. RowFits(j)'
  <2>1. RowFits(j) /\ j \in issued /\ row[j].stage = object[j][o].stage
    BY <1>2 DEF WorksOn, JobInv
  <2>2. job.state = "completed" => Sound(job)
    BY <1>2, <1>3 DEF WorksOn, Doing, Sound
  <2>3. row[j] # NoJob /\ job # NoJob
    BY <1>2, <1>3, Kinds DEF WorksOn
  <2>4. QED
    BY <1>3, <1>4, <1>5, <1>11, <1>13, <2>1, <2>2, <2>3 DEF RowFits
<1>17. QED
  BY <1>8, <1>9, <1>10, <1>14, <1>15, <1>16, OneJobMoves DEF JobInv

-----------------------------------------------------------------------------
(* Handlers under the lock.  None passes a lookup that is under way.       *)

(* A handler that changes no task and no request: what holds of the places *)
(* of tasks and of lookups stays.                                          *)
LEMMA HandlerMoves ==
  ASSUME WebInv, NEW j \in Jobs, UNCHANGED <<queue, worker, request>>
  PROVE  OnePerJob(queue)' /\ OneLookup' /\ OneTask(j)' /\ (HasTask(j)' <=> HasTask(j))
PROOF
<1>1. OnePerJob(queue) /\ OneLookup /\ OneTask(j)
  BY DEF WebInv, JobInv
<1>2. /\ \A w \in Workers : On(w, j)' <=> On(w, j)
      /\ \A r \in Requests : (Asked(r, j)' <=> Asked(r, j)) /\ (LookingUp(r)' <=> LookingUp(r))
      /\ Pending' = Pending
  BY DEF On, AtWork, TaskOf, Asked, Pending, LookingUp
<1>3. OneTask(j)' /\ (HasTask(j)' <=> HasTask(j))
  BY <1>1, <1>2 DEF OneTask, HasTask
<1>4. OneLookup'
  BY <1>1, <1>2 DEF OneLookup
<1>5. QED
  BY <1>1, <1>3, <1>4

(* A job that no lookup finds has no task.                                 *)
LEMMA UnknownIsFree ==
  ASSUME WebInv, NEW j \in Jobs, ~HasTask(j)
  PROVE  /\ \A t \in Pending : t.job # j
         /\ \A w \in Workers : ~On(w, j)
         /\ \A r \in Requests : ~Asked(r, j)
BY DEF HasTask

(* A lookup that no annotate request is making finds no object of its own. *)
LEMMA NoneOutside ==
  ASSUME WebInv, NEW j \in Jobs, \A r \in Requests : ~LookingUp(r)
  PROVE  /\ \A o \in Objects : object[j][o] = NoJob \/ o = cached[j]
         /\ \A r \in Requests : Of(r, j) => Asked(r, j)
PROOF
<1>1. \A r \in Requests : Of(r, j) => request[r].phase = "submit"
  BY DEF WebInv, ShapeInv, Of, LookingUp, Asking
<1>2. LookupFits(j)
  BY DEF WebInv, JobInv
<1>3. QED
  BY <1>1, <1>2 DEF LookupFits, Asked, Of

(* _get.                                                                   *)
LEMMA LoadKeeps ==
  ASSUME WebInv, ~Overlap, NEW j \in Jobs, Load(j)
  PROVE  WebInv'
PROOF
<1>1. PICK o \in Objects : /\ object[j][o] = NoJob
                           /\ Change(j, o, row[j]) /\ cached' = [cached EXCEPT ![j] = o]
  BY DEF Load, Unused
<1>2. /\ cached[j] = 0 /\ row[j] # NoJob /\ (\A r \in Requests : ~LookingUp(r))
      /\ UNCHANGED <<row, events, run, log, issued, request, queue, worker, servers>>
      /\ ShapeInv /\ JobInv(j) /\ row[j] \in Job /\ o # 0
  BY DEF Load, MayPass, disk, WebInv, ShapeInv, Objects
<1>3. Changes(j, o) /\ object'[j][o] = row[j]
  BY <1>1, <1>2, ChangeSets
<1>4. /\ cached' \in [Jobs -> Objects \cup {0}] /\ cached'[j] = o
      /\ \A k \in Jobs : k # j => cached'[k] = cached[k]
  BY <1>1, <1>2 DEF ShapeInv
<1>5. ShapeInv'
  <2>1. \A v \in Workers : AtWork(v)' <=> TaskOf(v)' \in Task
    BY <1>2 DEF ShapeInv, AtWork, TaskOf
  <2>2. QED
    BY <1>2, <1>3, <1>4, <2>1 DEF ShapeInv, Changes
<1>6. /\ OnePerJob(queue)' /\ OneLookup' /\ OneTask(j)' /\ ~HasTask(j)
      /\ (\A i \in Objects : object[j][i] = NoJob) /\ \A r \in Requests : ~Of(r, j)
  BY <1>2, HandlerMoves, SettledHasNone, NoneOutside DEF HasTask, Objects
<1>7. \A k \in Jobs : k # j => Elsewhere(k)
  BY <1>2, <1>3, <1>4 DEF Elsewhere, Changes
<1>8. Current(j)' = row[j] /\ ~Active(row[j])
  BY <1>2, <1>3, <1>4 DEF Current, JobInv, RowFits
<1>9. TasksFit(j)'
  <2>1. /\ \A t \in Pending' : t.job # j
        /\ \A w \in Workers : ~On(w, j)'
        /\ \A r \in Requests : ~Asked(r, j)'
    BY <1>2, <1>6, UnknownIsFree DEF Pending, On, AtWork, TaskOf, Asked
  <2>2. QED
    BY <1>8, <2>1 DEF TasksFit
<1>10. LookupFits(j)'
  BY <1>2, <1>3, <1>4, <1>6 DEF LookupFits, Changes, Of
<1>11. RowFits(j)'
  BY <1>2, <1>4, <1>8 DEF JobInv, RowFits
<1>12. QED
  BY <1>5, <1>6, <1>7, <1>9, <1>10, <1>11, OneJobMoves DEF JobInv

(* delete_project.                                                         *)
LEMMA DeleteKeeps ==
  ASSUME WebInv, ~Overlap, NEW j \in Jobs, Delete(j)
  PROVE  WebInv'
PROOF
<1>1. /\ cached[j] # 0 /\ ~Active(Current(j)) /\ (\A r \in Requests : ~LookingUp(r))
      /\ row' = [row EXCEPT ![j] = NoJob] /\ events' = [events EXCEPT ![j] = 0]
      /\ cached' = [cached EXCEPT ![j] = 0]
      /\ UNCHANGED <<run, log, issued, request, queue, worker, servers>>
      /\ ShapeInv /\ JobInv(j)
  BY DEF Delete, MayPass, WebInv, Current
<1>2. PICK o \in Objects : o = cached[j]
  BY <1>1 DEF ShapeInv
<1>3. Change(j, o, NoJob)
  BY <1>1, <1>2 DEF Delete, LookingUp, Change
<1>4. Changes(j, o) /\ object'[j][o] = NoJob
  BY <1>1, <1>3, ChangeSets
<1>5. /\ row' \in [Jobs -> Job \cup {NoJob}] /\ row'[j] = NoJob
      /\ events' \in [Jobs -> 0..MaxEvents] /\ events'[j] = 0
      /\ cached' \in [Jobs -> Objects \cup {0}] /\ cached'[j] = 0
      /\ \A k \in Jobs : k # j =>
           row'[k] = row[k] /\ events'[k] = events[k] /\ cached'[k] = cached[k]
  BY <1>1, BoundsAreNats DEF ShapeInv
<1>6. ShapeInv'
  <2>1. \A v \in Workers : AtWork(v)' <=> TaskOf(v)' \in Task
    BY <1>1 DEF ShapeInv, AtWork, TaskOf
  <2>2. QED
    BY <1>1, <1>4, <1>5, <2>1 DEF ShapeInv, Changes
<1>7. /\ OnePerJob(queue)' /\ OneLookup' /\ OneTask(j)' /\ ~HasTask(j)
      /\ (\A i \in Objects : object[j][i] = NoJob \/ i = o)
  BY <1>1, <1>2, HandlerMoves, SettledHasNone, NoneOutside
<1>8. \A r \in Requests : ~Of(r, j)
  BY <1>1, <1>7, NoneOutside DEF HasTask
<1>9. \A k \in Jobs : k # j => Elsewhere(k)
  BY <1>1, <1>4, <1>5 DEF Elsewhere, Changes
<1>10. TasksFit(j)'
  <2>1. /\ \A t \in Pending' : t.job # j
        /\ \A w \in Workers : ~On(w, j)'
        /\ \A r \in Requests : ~Asked(r, j)'
    BY <1>1, <1>7, UnknownIsFree DEF Pending, On, AtWork, TaskOf, Asked
  <2>2. QED
    BY <1>5, <2>1 DEF TasksFit
<1>11. LookupFits(j)'
  BY <1>1, <1>4, <1>5, <1>7, <1>8 DEF LookupFits, Changes, Of
<1>12. RowFits(j)'
  <2>1. log[j] \in 0..MaxEvents /\ RowFits(j)
    BY <1>1 DEF ShapeInv, JobInv
  <2>2. j \in issued
    BY <1>1, <2>1 DEF RowFits
  <2>3. QED
    BY <1>1, <1>5, <2>1, <2>2, Kinds, BoundsAreNats DEF RowFits
<1>13. QED
  BY <1>6, <1>7, <1>9, <1>10, <1>11, <1>12, OneJobMoves DEF JobInv

(* _submit: the executor has the task behind those it had.                 *)
LEMMA EnqueueSets ==
  ASSUME WebInv, NEW j \in Jobs, NEW o \in Objects, NEW kind \in Kind, Enqueue(j, o, kind),
         \A t \in Pending : t.job # j
  PROVE  /\ queue' \in Seq(Task) /\ OnePerJob(queue)'
         /\ \A t \in Pending' :
              t \in Pending \/ (t.job = j /\ t.object = o /\ t.kind = kind)
         /\ \E t \in Pending' : t.job = j
         /\ \A t \in Task : t.job # j => (t \in Pending' <=> t \in Pending)
PROOF
<1>1. PICK u \in Task : /\ u.job = j /\ u.object = o /\ u.kind = kind
                        /\ queue' = Append(queue, u)
  BY DEF Enqueue, Task
<1>2. queue \in Seq(Task) /\ OnePerJob(queue)
  BY DEF WebInv, ShapeInv
<1>3. queue' \in Seq(Task) /\ OnePerJob(queue') /\ Pending' = Pending \cup {u}
  BY <1>1, <1>2, LastJoins DEF Pending
<1>4. QED
  BY <1>1, <1>3

(* A new job: its id was not handed out, so nothing is known of it.        *)
LEMMA CreateSets ==
  ASSUME WebInv, NEW j \in Jobs, NEW kind, Create(j, kind),
         \A r \in Requests : ~LookingUp(r), UNCHANGED <<events, run, log>>
  PROVE  /\ issued' \subseteq Jobs /\ j \in issued'
         /\ \A k \in Jobs : k # j => (k \in issued' <=> k \in issued)
         /\ Changes(j, 1) /\ object'[j][1] = NewJob /\ Persists(j) /\ row'[j] = NewJob
         /\ cached' \in [Jobs -> Objects \cup {0}] /\ cached'[j] = 1 /\ Current(j)' = NewJob
         /\ \A k \in Jobs : k # j => cached'[k] = cached[k]
         /\ ~HasTask(j) /\ events'[j] = 0 /\ RowFits(j)'
         /\ \A o \in Objects : object[j][o] = NoJob
         /\ \A r \in Requests : ~Of(r, j)
PROOF
<1>1. /\ ShapeInv /\ JobInv(j) /\ 1 \in Objects
      /\ j \notin issued /\ issued' = issued \cup {j}
      /\ Change(j, 1, NewJob) /\ Persist(j, NewJob) /\ cached' = [cached EXCEPT ![j] = 1]
  BY DEF WebInv, Create, Objects
<1>2. row[j] = NoJob /\ cached[j] = 0 /\ run[j] = "none" /\ events[j] = 0
  BY <1>1 DEF JobInv, RowFits
<1>3. Changes(j, 1) /\ object'[j][1] = NewJob /\ Persists(j) /\ row'[j] = NewJob
  BY <1>1, ChangeSets, PersistSets, Kinds
<1>4. /\ cached' \in [Jobs -> Objects \cup {0}] /\ cached'[j] = 1
      /\ \A k \in Jobs : k # j => cached'[k] = cached[k]
  BY <1>1 DEF ShapeInv
<1>5. ~HasTask(j) /\ \A o \in Objects : object[j][o] = NoJob
  BY <1>1, <1>2, SettledHasNone, NoneOutside DEF Objects
<1>6. \A r \in Requests : ~Of(r, j)
  BY <1>5, NoneOutside DEF HasTask
<1>7. Current(j)' = NewJob
  BY <1>3, <1>4 DEF Current
<1>8. RowFits(j)'
  <2>1. log[j] \in 0..MaxEvents
    BY <1>1 DEF ShapeInv
  <2>2. NewJob.state = "queued" /\ NewJob # NoJob
    BY Kinds DEF NewJob
  <2>3. QED
    BY <1>1, <1>2, <1>3, <1>4, <1>7, <2>1, <2>2, BoundsAreNats DEF RowFits, Active
<1>9. /\ issued' \subseteq Jobs /\ j \in issued' /\ events'[j] = 0
      /\ \A k \in Jobs : k # j => (k \in issued' <=> k \in issued)
  BY <1>1, <1>2 DEF ShapeInv
<1>10. QED
  BY <1>3, <1>4, <1>5, <1>6, <1>7, <1>8, <1>9

(* submit_analysis.                                                        *)
LEMMA SubmitAnalysisKeeps ==
  ASSUME WebInv, ~Overlap, NEW j \in Jobs, NEW r \in Requests, SubmitAnalysis(j, r)
  PROVE  WebInv'
PROOF
<1>1. /\ (\A s \in Requests : ~LookingUp(s)) /\ request[r] = Free /\ Create(j, "analysis")
      /\ request' = [request EXCEPT ![r] = [phase |-> "submit", job |-> j, object |-> 1,
                                            kind |-> "analysis"]]
      /\ UNCHANGED <<events, run, log, queue, worker, servers>>
      /\ ShapeInv /\ OnePerJob(queue) /\ OneLookup /\ JobInv(j)
  BY DEF SubmitAnalysis, MayPass, WebInv
<1>2. /\ issued' \subseteq Jobs /\ j \in issued'
      /\ \A k \in Jobs : k # j => (k \in issued' <=> k \in issued)
      /\ Changes(j, 1) /\ object'[j][1] = NewJob /\ Persists(j) /\ row'[j] = NewJob
      /\ cached' \in [Jobs -> Objects \cup {0}] /\ cached'[j] = 1 /\ Current(j)' = NewJob
      /\ \A k \in Jobs : k # j => cached'[k] = cached[k]
      /\ ~HasTask(j) /\ events'[j] = 0 /\ RowFits(j)'
      /\ \A o \in Objects : object[j][o] = NoJob
      /\ \A s \in Requests : ~Of(s, j)
  BY <1>1, CreateSets
<1>3. /\ request' \in [Requests -> Asking \cup {Free}]
      /\ request'[r].phase = "submit" /\ request'[r].job = j /\ request'[r].object = 1
      /\ request'[r].kind = "analysis"
      /\ \A s \in Requests : s # r => request'[s] = request[s]
  <2>1. [phase |-> "submit", job |-> j, object |-> 1, kind |-> "analysis"] \in Asking
    BY DEF Asking, Objects, Kind
  <2>2. QED
    BY <1>1, <2>1 DEF ShapeInv
<1>4. ShapeInv'
  <2>1. \A v \in Workers : AtWork(v)' <=> TaskOf(v)' \in Task
    BY <1>1 DEF ShapeInv, AtWork, TaskOf
  <2>2. QED
    BY <1>1, <1>2, <1>3, <2>1 DEF ShapeInv, Changes, Persists
<1>5. OnePerJob(queue)' /\ OneLookup'
  BY <1>1, <1>3 DEF OneLookup, LookingUp
<1>6. \A k \in Jobs : k # j => Elsewhere(k)
  <2> SUFFICES ASSUME NEW k \in Jobs, k # j PROVE Elsewhere(k)
    OBVIOUS
  <2>1. ~Of(r, k) /\ ~Of(r, k)'
    BY <1>1, <1>3 DEF Of
  <2>2. QED
    BY <1>1, <1>2, <1>3, <2>1 DEF Elsewhere, Changes, Persists
<1>7. /\ \A t \in Pending' : t.job # j
      /\ \A w \in Workers : ~On(w, j)'
      /\ \A s \in Requests : (Asked(s, j)' <=> s = r) /\ (Of(s, j)' => s = r)
  <2>1. /\ Pending' = Pending
        /\ \A w \in Workers : On(w, j)' <=> On(w, j)
        /\ \A s \in Requests : s # r => (Asked(s, j)' <=> Asked(s, j)) /\ (Of(s, j)' <=> Of(s, j))
    BY <1>1, <1>3 DEF Pending, On, AtWork, TaskOf, Asked, Of
  <2>2. Asked(r, j)'
    BY <1>3 DEF Asked
  <2>3. QED
    BY <1>2, <2>1, <2>2, UnknownIsFree
<1>8. OneTask(j)'
  BY <1>7 DEF OneTask
<1>9. TasksFit(j)'
  <2>1. Fits(j, 1, "analysis")'
    BY <1>2 DEF Fits, NewJob, Active
  <2>2. HasTask(j)'
    BY <1>7 DEF HasTask
  <2>3. QED
    BY <1>3, <1>7, <2>1, <2>2 DEF TasksFit
<1>10. LookupFits(j)'
  BY <1>2, <1>3, <1>7 DEF LookupFits, Changes
<1>11. QED
  BY <1>2, <1>4, <1>5, <1>6, <1>8, <1>9, <1>10, OneJobMoves DEF JobInv

(* restart: the new job is in the queue at once.                           *)
LEMMA RestartJobKeeps ==
  ASSUME WebInv, ~Overlap, NEW old \in Jobs, NEW j \in Jobs, RestartJob(old, j)
  PROVE  WebInv'
PROOF
<1>1. /\ (\A s \in Requests : ~LookingUp(s)) /\ Create(j, "full")
      /\ Enqueue(j, 1, "full")
      /\ UNCHANGED <<events, run, log, request, worker, servers>>
      /\ ShapeInv /\ OnePerJob(queue) /\ OneLookup /\ JobInv(j)
  BY DEF RestartJob, MayPass, WebInv
<1>2. /\ issued' \subseteq Jobs /\ j \in issued'
      /\ \A k \in Jobs : k # j => (k \in issued' <=> k \in issued)
      /\ Changes(j, 1) /\ object'[j][1] = NewJob /\ Persists(j) /\ row'[j] = NewJob
      /\ cached' \in [Jobs -> Objects \cup {0}] /\ cached'[j] = 1 /\ Current(j)' = NewJob
      /\ \A k \in Jobs : k # j => cached'[k] = cached[k]
      /\ ~HasTask(j) /\ events'[j] = 0 /\ RowFits(j)'
      /\ \A o \in Objects : object[j][o] = NoJob
      /\ \A s \in Requests : ~Of(s, j)
  BY <1>1, CreateSets
<1>3. /\ \A t \in Pending : t.job # j
      /\ \A w \in Workers : ~On(w, j)
      /\ \A s \in Requests : ~Asked(s, j)
  BY <1>2, UnknownIsFree
<1>4. /\ queue' \in Seq(Task) /\ OnePerJob(queue)'
      /\ \A t \in Pending' : t \in Pending \/ (t.job = j /\ t.object = 1 /\ t.kind = "full")
      /\ \E t \in Pending' : t.job = j
      /\ \A t \in Task : t.job # j => (t \in Pending' <=> t \in Pending)
  BY <1>1, <1>3, EnqueueSets DEF Objects, Kind
<1>5. ShapeInv'
  <2>1. \A v \in Workers : AtWork(v)' <=> TaskOf(v)' \in Task
    BY <1>1 DEF ShapeInv, AtWork, TaskOf
  <2>2. QED
    BY <1>1, <1>2, <1>4, <2>1 DEF ShapeInv, Changes, Persists
<1>6. OneLookup'
  BY <1>1 DEF OneLookup, LookingUp
<1>7. \A k \in Jobs : k # j => Elsewhere(k)
  BY <1>1, <1>2, <1>4 DEF Elsewhere, Changes, Persists, Pending
<1>8. /\ \A w \in Workers : ~On(w, j)'
      /\ \A s \in Requests : ~Asked(s, j)' /\ ~Of(s, j)'
  BY <1>1, <1>2, <1>3 DEF On, AtWork, TaskOf, Asked, Of
<1>9. OneTask(j)'
  BY <1>8 DEF OneTask
<1>10. TasksFit(j)'
  <2>1. Fits(j, 1, "full")'
    BY <1>2 DEF Fits, NewJob, Active
  <2>2. HasTask(j)'
    BY <1>4 DEF HasTask
  <2>3. QED
    BY <1>3, <1>4, <1>8, <2>1, <2>2 DEF TasksFit
<1>11. LookupFits(j)'
  BY <1>2, <1>8 DEF LookupFits, Changes
<1>12. QED
  BY <1>2, <1>4, <1>5, <1>6, <1>7, <1>9, <1>10, <1>11, OneJobMoves DEF JobInv

(* resume: the object is that of the lookup, and no task has it.           *)
LEMMA ResumeKeeps ==
  ASSUME WebInv, ~Overlap, NEW j \in Jobs, Resume(j)
  PROVE  WebInv'
PROOF
<1>1. /\ (\A s \in Requests : ~LookingUp(s)) /\ cached[j] # 0 /\ ~Active(Current(j))
      /\ UNCHANGED <<issued, events, run, log, cached, request, worker, servers>>
      /\ ShapeInv /\ OnePerJob(queue) /\ OneLookup /\ JobInv(j)
  BY DEF Resume, Resumable, Current, MayPass, WebInv
<1>2. PICK o \in Objects : o = cached[j] /\ o # 0
  BY <1>1 DEF ShapeInv
<1>3. RowFits(j) /\ object[j][o] \in Job /\ object[j][o] = Current(j)
  <2>1. RowFits(j) /\ object[j][o] \in Job \cup {NoJob} /\ object[j][o] = Current(j)
    BY <1>1, <1>2 DEF JobInv, ShapeInv, Current
  <2>2. QED
    BY <1>1, <2>1 DEF RowFits
<1> DEFINE job == [object[j][o] EXCEPT !.state = "queued", !.stage = "annotate",
                                       !.semantics = FALSE]
<1>4. job \in Job /\ job.state = "queued" /\ job.stage = "annotate"
  BY <1>3 DEF Job, JobState, JobStage
<1>5. Change(j, o, job) /\ Persist(j, job) /\ Enqueue(j, o, "resume")
  BY <1>2 DEF Resume
<1> HIDE DEF job
<1>6. Changes(j, o) /\ object'[j][o] = job /\ Persists(j) /\ row'[j] = job /\ job # NoJob
  BY <1>1, <1>4, <1>5, ChangeSets, PersistSets, Kinds
<1>7. ~HasTask(j) /\ (\A i \in Objects : object[j][i] = NoJob \/ i = o)
  BY <1>1, <1>2, SettledHasNone, NoneOutside
<1>8. /\ \A t \in Pending : t.job # j
      /\ \A w \in Workers : ~On(w, j)
      /\ \A s \in Requests : ~Asked(s, j) /\ ~Of(s, j)
  BY <1>1, <1>7, UnknownIsFree, NoneOutside
<1>9. /\ queue' \in Seq(Task) /\ OnePerJob(queue)'
      /\ \A t \in Pending' : t \in Pending \/ (t.job = j /\ t.object = o /\ t.kind = "resume")
      /\ \E t \in Pending' : t.job = j
      /\ \A t \in Task : t.job # j => (t \in Pending' <=> t \in Pending)
  BY <1>5, <1>8, EnqueueSets DEF Kind
<1>10. ShapeInv'
  <2>1. \A v \in Workers : AtWork(v)' <=> TaskOf(v)' \in Task
    BY <1>1 DEF ShapeInv, AtWork, TaskOf
  <2>2. QED
    BY <1>1, <1>6, <1>9, <2>1 DEF ShapeInv, Changes, Persists
<1>11. OneLookup'
  BY <1>1 DEF OneLookup, LookingUp
<1>12. \A k \in Jobs : k # j => Elsewhere(k)
  BY <1>1, <1>6, <1>9 DEF Elsewhere, Changes, Persists, Pending
<1>13. /\ \A w \in Workers : ~On(w, j)'
       /\ \A s \in Requests : ~Asked(s, j)' /\ ~Of(s, j)'
  BY <1>1, <1>8 DEF On, AtWork, TaskOf, Asked, Of
<1>14. OneTask(j)'
  BY <1>13 DEF OneTask
<1>15. TasksFit(j)'
  <2>1. Fits(j, o, "resume")'
    BY <1>1, <1>2, <1>4, <1>6 DEF Fits, Active
  <2>2. HasTask(j)'
    BY <1>9 DEF HasTask
  <2>3. QED
    BY <1>8, <1>9, <1>13, <2>1, <2>2 DEF TasksFit
<1>16. LookupFits(j)'
  BY <1>1, <1>2, <1>6, <1>7, <1>13 DEF LookupFits, Changes
<1>17. RowFits(j)'
  <2>1. Current(j)' = job
    BY <1>1, <1>2, <1>6 DEF Current
  <2>2. j \in issued
    BY <1>1, <1>3 DEF RowFits
  <2>3. QED
    BY <1>1, <1>2, <1>3, <1>4, <1>6, <2>1, <2>2 DEF RowFits, Active
<1>18. QED
  BY <1>9, <1>10, <1>11, <1>12, <1>14, <1>15, <1>16, <1>17, OneJobMoves DEF JobInv

-----------------------------------------------------------------------------
(* The steps of an annotate request.                                       *)

(* A request that has looked something up, and its job.                    *)
LEMMA RequestsJob ==
  ASSUME WebInv, NEW r \in Requests, request[r].phase \in {"missed", "loaded", "found", "submit"}
  PROVE  /\ request[r] \in Asking /\ request[r].job \in Jobs
         /\ Of(r, request[r].job) /\ LookupFits(request[r].job)
PROOF
<1>1. request[r] \in Asking
  BY Kinds DEF WebInv, ShapeInv
<1>2. request[r].job \in Jobs /\ Of(r, request[r].job)
  BY <1>1, Kinds DEF Of, Asking
<1>3. QED
  BY <1>1, <1>2 DEF WebInv, JobInv

(* A request that goes from one answer of its lookup to the next, or ends. *)
(* It has no task before nor after.                                        *)
GoesOn(r, j) ==
  /\ request' \in [Requests -> Asking \cup {Free}]
  /\ ~Asked(r, j) /\ ~Asked(r, j)'
  /\ request'[r] # Free => request'[r].job = j /\ request'[r].kind = "annotation"
  /\ \A s \in Requests : s # r => request'[s] = request[s]

(* A lookup finds an object for its job, which has no task, or changes     *)
(* nothing; objects of other jobs stay.                                    *)
Finds(j) ==
  /\ object' \in [Jobs -> [Objects -> Job \cup {NoJob}]]
  /\ cached' \in [Jobs -> Objects \cup {0}]
  /\ \A k \in Jobs : k # j => object'[k] = object[k] /\ cached'[k] = cached[k]
  /\ \/ cached'[j] = cached[j] /\ object'[j] = object[j]
     \/ ~HasTask(j) /\ (cached'[j] # 0 => ~Active(object'[j][cached'[j]]))

(* Tasks are left alone by a lookup, as is what other requests look up.    *)
LEMMA LookupMoves ==
  ASSUME WebInv, NEW r \in Requests, NEW j \in Jobs, GoesOn(r, j), Finds(j),
         request[r] = Free \/ request[r].job = j,
         \A s \in Requests : s # r => ~LookingUp(s),
         UNCHANGED <<row, events, run, log, issued, queue, worker, servers>>,
         LookupFits(j)', RowFits(j)'
  PROVE  WebInv'
PROOF
<1>1. ShapeInv /\ OnePerJob(queue) /\ JobInv(j)
  BY DEF WebInv
<1>2. ShapeInv'
  <2>1. \A v \in Workers : AtWork(v)' <=> TaskOf(v)' \in Task
    BY <1>1 DEF ShapeInv, AtWork, TaskOf
  <2>2. QED
    BY <1>1, <2>1 DEF ShapeInv, GoesOn, Finds
<1>3. OnePerJob(queue)' /\ OneLookup'
  <2>1. \A s \in Requests : s # r => ~LookingUp(s)'
    BY DEF LookingUp, GoesOn
  <2>2. QED
    BY <1>1, <2>1 DEF OneLookup
<1>4. \A k \in Jobs : k # j => Elsewhere(k)
  <2> SUFFICES ASSUME NEW k \in Jobs, k # j PROVE Elsewhere(k)
    OBVIOUS
  <2>1. ~Of(r, k) /\ ~Of(r, k)'
    BY DEF Of, GoesOn
  <2>2. QED
    BY <2>1 DEF Elsewhere, GoesOn, Finds
<1>5. /\ Pending' = Pending
      /\ \A w \in Workers : On(w, j)' <=> On(w, j)
      /\ \A s \in Requests : /\ Asked(s, j)' <=> Asked(s, j)
                             /\ Asked(s, j) => request'[s] = request[s]
  BY DEF Pending, On, AtWork, TaskOf, Asked, GoesOn
<1>6. OneTask(j)'
  BY <1>1, <1>5 DEF JobInv, OneTask
<1>7. HasTask(j)' <=> HasTask(j)
  BY <1>5 DEF HasTask
<1>8. TasksFit(j)'
  <2>1. CASE cached'[j] = cached[j] /\ object'[j] = object[j]
    <3>1. \A o, kind : Fits(j, o, kind)' <=> Fits(j, o, kind)
      BY <2>1 DEF Fits
    <3>2. \A w \in Workers : Doing(w, j)' <=> Doing(w, j)
      BY <2>1 DEF Doing, TaskOf
    <3>3. Current(j)' = Current(j)
      BY <2>1 DEF Current
    <3>4. TasksFit(j)
      BY <1>1 DEF JobInv
    <3>5. QED
      BY <1>5, <1>7, <2>1, <3>1, <3>2, <3>3, <3>4 DEF TasksFit
  <2>2. CASE ~HasTask(j) /\ (cached'[j] # 0 => ~Active(object'[j][cached'[j]]))
    BY <1>5, <2>2, UnknownIsFree DEF TasksFit, Current
  <2>3. QED
    BY <2>1, <2>2 DEF Finds
<1>9. QED
  BY <1>2, <1>3, <1>4, <1>6, <1>8, OneJobMoves DEF JobInv

(* A request released.                                                     *)
LEMMA Released ==
  ASSUME WebInv, NEW r \in Requests, NEW j \in Jobs, ~Asked(r, j),
         request' = [request EXCEPT ![r] = Free]
  PROVE  GoesOn(r, j) /\ request'[r] = Free
BY Kinds DEF WebInv, ShapeInv, GoesOn, Asked

(* A request refused, or not found: its job is left as it was.             *)
LEMMA RequestEnds ==
  ASSUME WebInv, NEW r \in Requests, request[r].phase \in {"missed", "found"},
         request' = [request EXCEPT ![r] = Free],
         UNCHANGED <<row, events, run, log, issued, object, cached, queue, worker, servers>>
  PROVE  WebInv'
PROOF
<1>1. PICK j \in Jobs : j = request[r].job /\ Of(r, j) /\ LookupFits(j)
  BY RequestsJob
<1>2. GoesOn(r, j) /\ request'[r] = Free
  BY <1>1, Released DEF Asked
<1>3. \A s \in Requests : s # r => ~LookingUp(s)
  BY DEF WebInv, OneLookup, LookingUp
<1>4. LookupFits(j)'
  <2>1. \A s \in Requests : Of(s, j)' <=> Of(s, j) /\ s # r
    BY <1>2 DEF Of, GoesOn
  <2>2. \A s \in Requests : s # r => request'[s] = request[s]
    BY <1>2 DEF GoesOn
  <2>3. QED
    BY <1>1, <2>1, <2>2 DEF LookupFits
<1>5. RowFits(j)'
  BY DEF WebInv, JobInv, RowFits, Current
<1>6. Finds(j)
  BY DEF WebInv, ShapeInv, Finds
<1>7. UNCHANGED <<row, events, run, log, issued, queue, worker, servers>>
  OBVIOUS
<1>8. QED
  BY <1>1, <1>2, <1>3, <1>4, <1>5, <1>6, <1>7, LookupMoves

(* The answer 404 of an annotate request.                                  *)
LEMMA NotFoundKeeps ==
  ASSUME WebInv, NEW r \in Requests, NotFound(r)
  PROVE  WebInv'
BY RequestEnds DEF NotFound, disk

(* Its answer 409.                                                         *)
LEMMA RefuseAnnotationKeeps ==
  ASSUME WebInv, NEW r \in Requests, RefuseAnnotation(r)
  PROVE  WebInv'
BY RequestEnds DEF RefuseAnnotation, disk

(* The lookup in memory.                                                   *)
LEMMA AskAnnotationKeeps ==
  ASSUME WebInv, ~Overlap, NEW j \in Jobs, NEW r \in Requests, AskAnnotation(j, r)
  PROVE  WebInv'
PROOF
<1>1. /\ request[r] = Free /\ (\A s \in Requests : ~LookingUp(s)) /\ ShapeInv /\ JobInv(j)
      /\ UNCHANGED <<row, events, run, log, issued, object, cached, queue, worker, servers>>
  BY DEF AskAnnotation, MayPass, disk, WebInv
<1>2. PICK ask \in Asking :
        /\ request' = [request EXCEPT ![r] = ask]
        /\ ask.job = j /\ ask.kind = "annotation" /\ ask.phase \in {"missed", "found"}
        /\ ask.phase = "missed" => cached[j] = 0
        /\ ask.phase = "found" => cached[j] # 0 /\ ask.object = cached[j]
  <2>1. CASE cached[j] # 0
    <3> DEFINE ask == [phase |-> "found", job |-> j, object |-> cached[j], kind |-> "annotation"]
    <3>1. ask \in Asking
      BY <1>1 DEF Asking, Kind, ShapeInv
    <3>2. request' = [request EXCEPT ![r] = ask]
      BY <2>1 DEF AskAnnotation
    <3>3. QED
      BY <2>1, <3>1, <3>2
  <2>2. CASE cached[j] = 0
    <3> DEFINE ask == [phase |-> "missed", job |-> j, object |-> 0, kind |-> "annotation"]
    <3>1. ask \in Asking
      BY DEF Asking, Kind
    <3>2. request' = [request EXCEPT ![r] = ask]
      BY <2>2 DEF AskAnnotation
    <3>3. QED
      BY <2>2, <3>1, <3>2
  <2>3. QED
    BY <2>1, <2>2
<1>3. GoesOn(r, j) /\ request'[r] = ask
  BY <1>1, <1>2, Kinds DEF ShapeInv, GoesOn, Asked
<1>4. Finds(j)
  BY <1>1 DEF ShapeInv, Finds
<1>5. LookupFits(j)'
  <2>1. /\ \A s \in Requests : s # r => request'[s] = request[s] /\ (Of(s, j)' <=> Of(s, j))
        /\ ~Of(r, j)
    BY <1>1, <1>3 DEF Of, GoesOn
  <2>2. LookupFits(j)
    BY <1>1 DEF JobInv
  <2>3. QED
    BY <1>1, <1>2, <1>3, <2>1, <2>2 DEF LookupFits
<1>6. RowFits(j)'
  BY <1>1 DEF JobInv, RowFits, Current
<1>7. QED
  BY <1>1, <1>3, <1>4, <1>5, <1>6, LookupMoves

(* The lookup on disk: the row is that of a settled job.                   *)
LEMMA ReadRowKeeps ==
  ASSUME WebInv, NEW r \in Requests, ReadRow(r)
  PROVE  WebInv'
PROOF
<1>1. request[r].phase = "missed" /\ ShapeInv
  BY DEF ReadRow, WebInv
<1>2. PICK j \in Jobs : /\ j = request[r].job /\ Of(r, j) /\ LookupFits(j)
                        /\ request[r] \in Asking
  BY <1>1, RequestsJob
<1>3. PICK o \in Objects :
        /\ object[j][o] = NoJob /\ Change(j, o, row[j])
        /\ request' = [request EXCEPT ![r].phase = "loaded", ![r].object = o]
  BY <1>2 DEF ReadRow, Unused
<1>4. /\ row[j] # NoJob /\ row[j] \in Job /\ cached[j] = 0 /\ JobInv(j) /\ o # 0
      /\ UNCHANGED <<row, events, run, log, issued, cached, queue, worker, servers>>
  <2>1. row[j] # NoJob /\ UNCHANGED <<row, events, run, log, issued, cached, queue, worker, servers>>
    BY <1>2 DEF ReadRow, disk
  <2>2. row[j] \in Job \cup {NoJob} /\ o # 0
    BY <1>1 DEF ShapeInv, Objects
  <2>3. cached[j] = 0 /\ JobInv(j)
    BY <1>1, <1>2 DEF LookupFits, WebInv
  <2>4. QED
    BY <2>1, <2>2, <2>3
<1>5. Changes(j, o) /\ object'[j][o] = row[j]
  BY <1>1, <1>3, <1>4, ChangeSets
<1>6. /\ request' \in [Requests -> Asking \cup {Free}]
      /\ request'[r] \in Asking /\ request'[r].phase = "loaded" /\ request'[r].object = o
      /\ request'[r].job = j /\ request'[r].kind = request[r].kind
      /\ \A s \in Requests : s # r => request'[s] = request[s]
  <2>1. [request[r] EXCEPT !.phase = "loaded", !.object = o] \in Asking
    BY <1>2 DEF Asking
  <2>2. request' = [request EXCEPT ![r] = [request[r] EXCEPT !.phase = "loaded", !.object = o]]
    BY <1>3
  <2>3. request'[r] = [request[r] EXCEPT !.phase = "loaded", !.object = o]
    BY <1>1, <2>2 DEF ShapeInv
  <2>4. /\ request' \in [Requests -> Asking \cup {Free}]
        /\ \A s \in Requests : s # r => request'[s] = request[s]
    BY <1>1, <2>1, <2>2 DEF ShapeInv
  <2>5. QED
    BY <1>2, <2>1, <2>3, <2>4 DEF Asking
<1>7. request[r].kind = "annotation"
  BY <1>1, <1>2 DEF LookupFits
<1>8. GoesOn(r, j)
  BY <1>1, <1>6, <1>7 DEF GoesOn, Asked
<1>9. ~HasTask(j)
  BY <1>1, <1>4, SettledHasNone
<1>10. Finds(j)
  BY <1>1, <1>4, <1>5, <1>9 DEF Finds, Changes, ShapeInv
<1>11. \A s \in Requests : s # r => ~LookingUp(s)
  BY <1>1 DEF WebInv, OneLookup, LookingUp
<1>12. LookupFits(j)'
  <2>1. \A s \in Requests : s # r => request'[s] = request[s] /\ (Of(s, j)' <=> Of(s, j))
    BY <1>6 DEF Of
  <2>2. Of(r, j)'
    BY <1>6, Kinds DEF Of
  <2>3. \A i \in Objects : object[j][i] = NoJob
    BY <1>1, <1>2, <1>4, <1>11 DEF LookupFits, LookingUp, Objects
  <2>4. QED
    BY <1>2, <1>4, <1>5, <1>6, <1>7, <1>11, <2>1, <2>2, <2>3 DEF LookupFits, LookingUp, Changes
<1>13. RowFits(j)'
  BY <1>4 DEF JobInv, RowFits
<1>14. QED
  BY <1>2, <1>4, <1>8, <1>10, <1>11, <1>12, <1>13, LookupMoves

(* The new object is the one that lookups find.                            *)
LEMMA StoreObjectKeeps ==
  ASSUME WebInv, NEW r \in Requests, StoreObject(r)
  PROVE  WebInv'
PROOF
<1>1. request[r].phase = "loaded" /\ ShapeInv
  BY DEF StoreObject, WebInv
<1>2. PICK j \in Jobs : /\ j = request[r].job /\ Of(r, j) /\ LookupFits(j)
                        /\ request[r] \in Asking
  BY <1>1, RequestsJob
<1>3. PICK o \in Objects : o = request[r].object /\ o # 0
  BY <1>1, <1>2 DEF LookupFits, Asking
<1>4. /\ cached' = [cached EXCEPT ![j] = o]
      /\ request' = [request EXCEPT ![r].phase = "found"]
      /\ UNCHANGED <<row, events, run, log, issued, object, queue, worker, servers>>
  BY <1>2, <1>3 DEF StoreObject, disk
<1>5. /\ cached[j] = 0 /\ row[j] # NoJob /\ object[j][o] = row[j]
      /\ request[r].kind = "annotation" /\ JobInv(j)
  BY <1>1, <1>2, <1>3 DEF LookupFits, WebInv
<1>6. /\ request' \in [Requests -> Asking \cup {Free}]
      /\ request'[r] \in Asking /\ request'[r].phase = "found" /\ request'[r].object = o
      /\ request'[r].job = j /\ request'[r].kind = "annotation"
      /\ \A s \in Requests : s # r => request'[s] = request[s]
  <2>1. [request[r] EXCEPT !.phase = "found"] \in Asking
    BY <1>2 DEF Asking
  <2>2. request'[r] = [request[r] EXCEPT !.phase = "found"]
    BY <1>1, <1>4 DEF ShapeInv
  <2>3. /\ request' \in [Requests -> Asking \cup {Free}]
        /\ \A s \in Requests : s # r => request'[s] = request[s]
    BY <1>1, <1>4, <2>1 DEF ShapeInv
  <2>4. QED
    BY <1>2, <1>3, <1>5, <2>1, <2>2, <2>3 DEF Asking
<1>7. /\ cached' \in [Jobs -> Objects \cup {0}] /\ cached'[j] = o
      /\ \A k \in Jobs : k # j => cached'[k] = cached[k]
  BY <1>1, <1>4 DEF ShapeInv
<1>8. GoesOn(r, j)
  BY <1>1, <1>6 DEF GoesOn, Asked
<1>9. ~HasTask(j) /\ ~Active(row[j]) /\ RowFits(j)
  BY <1>1, <1>5, SettledHasNone DEF JobInv, RowFits
<1>10. Finds(j)
  BY <1>1, <1>4, <1>5, <1>7, <1>9 DEF Finds, ShapeInv
<1>11. \A s \in Requests : s # r => ~LookingUp(s)
  BY <1>1 DEF WebInv, OneLookup, LookingUp
<1>12. LookupFits(j)'
  <2>1. \A s \in Requests : s # r => request'[s] = request[s] /\ (Of(s, j)' <=> Of(s, j))
    BY <1>6 DEF Of
  <2>2. Of(r, j)'
    BY <1>6, Kinds DEF Of
  <2>3. \A s \in Requests : request[s].phase = "loaded" => s = r
    BY <1>11 DEF LookingUp
  <2>4. \A i \in Objects : object[j][i] = NoJob \/ i = o
    <3> SUFFICES ASSUME NEW i \in Objects, object[j][i] # NoJob PROVE i = o
      OBVIOUS
    <3>1. i # cached[j]
      BY <1>5 DEF Objects
    <3>2. QED
      BY <1>2, <1>3, <2>3, <3>1 DEF LookupFits
  <2>5. QED
    BY <1>2, <1>3, <1>4, <1>6, <1>7, <1>11, <2>1, <2>2, <2>4 DEF LookupFits, LookingUp
<1>13. RowFits(j)'
  <2>1. Current(j)' = row[j]
    BY <1>4, <1>5, <1>7 DEF Current
  <2>2. QED
    BY <1>3, <1>4, <1>5, <1>7, <1>9, <2>1 DEF RowFits
<1>14. QED
  BY <1>2, <1>4, <1>8, <1>10, <1>11, <1>12, <1>13, LookupMoves

(* The change under the lock: the job, which was settled, is queued, and   *)
(* its task is with the request.                                           *)
LEMMA AcceptAnnotationKeeps ==
  ASSUME WebInv, NEW r \in Requests, AcceptAnnotation(r)
  PROVE  WebInv'
PROOF
<1>1. request[r].phase = "found" /\ ShapeInv /\ OnePerJob(queue) /\ OneLookup
  BY DEF AcceptAnnotation, WebInv
<1>2. PICK j \in Jobs : /\ j = request[r].job /\ Of(r, j) /\ LookupFits(j)
                        /\ request[r] \in Asking
  BY <1>1, RequestsJob
<1>3. PICK o \in Objects : o = request[r].object /\ o # 0
  BY <1>1, <1>2 DEF LookupFits, Asking
<1> DEFINE job == [object[j][o] EXCEPT !.state = "queued", !.stage = "annotate"]
<1>4. /\ ~Active(object[j][o]) /\ Change(j, o, job) /\ Persist(j, job)
      /\ events' = [events EXCEPT ![j] = 0]
      /\ request' = [request EXCEPT ![r].phase = "submit"]
      /\ UNCHANGED <<issued, run, log, cached, queue, worker, servers>>
  BY <1>2, <1>3 DEF AcceptAnnotation, Annotatable
<1>5. /\ cached[j] = o /\ object[j][o] = Current(j) /\ JobInv(j)
      /\ request[r].kind = "annotation"
  BY <1>1, <1>2, <1>3 DEF LookupFits, WebInv, Current
<1>6. object[j][o] \in Job /\ j \in issued
  <2>1. object[j][o] \in Job \cup {NoJob} /\ RowFits(j)
    BY <1>1, <1>5 DEF ShapeInv, JobInv
  <2>2. QED
    BY <1>3, <1>5, <2>1 DEF RowFits
<1>7. job \in Job /\ job.state = "queued" /\ job.stage = "annotate"
  BY <1>6 DEF Job, JobState, JobStage
<1> HIDE DEF job
<1>8. Changes(j, o) /\ object'[j][o] = job /\ Persists(j) /\ row'[j] = job /\ job # NoJob
  BY <1>1, <1>4, <1>7, ChangeSets, PersistSets, Kinds
<1>9. /\ request' \in [Requests -> Asking \cup {Free}]
      /\ request'[r].phase = "submit" /\ request'[r].object = o
      /\ request'[r].job = j /\ request'[r].kind = "annotation"
      /\ \A s \in Requests : s # r => request'[s] = request[s]
  <2>1. [request[r] EXCEPT !.phase = "submit"] \in Asking
    BY <1>2 DEF Asking
  <2>2. request'[r] = [request[r] EXCEPT !.phase = "submit"]
    BY <1>1, <1>4 DEF ShapeInv
  <2>3. /\ request' \in [Requests -> Asking \cup {Free}]
        /\ \A s \in Requests : s # r => request'[s] = request[s]
    BY <1>1, <1>4, <2>1 DEF ShapeInv
  <2>4. QED
    BY <1>2, <1>3, <1>5, <2>1, <2>2, <2>3 DEF Asking
<1>10. /\ events' \in [Jobs -> 0..MaxEvents] /\ events'[j] = 0
       /\ \A k \in Jobs : k # j => events'[k] = events[k]
  BY <1>1, <1>4, BoundsAreNats DEF ShapeInv
<1>11. ShapeInv'
  <2>1. \A v \in Workers : AtWork(v)' <=> TaskOf(v)' \in Task
    BY <1>1, <1>4 DEF ShapeInv, AtWork, TaskOf
  <2>2. QED
    BY <1>1, <1>4, <1>8, <1>9, <1>10, <2>1 DEF ShapeInv, Changes, Persists
<1>12. /\ \A s \in Requests : s # r => ~LookingUp(s)
       /\ \A s \in Requests : ~LookingUp(s)'
  BY <1>1, <1>9 DEF OneLookup, LookingUp
<1>13. OnePerJob(queue)' /\ OneLookup'
  BY <1>1, <1>4, <1>12 DEF OneLookup
<1>14. \A k \in Jobs : k # j => Elsewhere(k)
  <2> SUFFICES ASSUME NEW k \in Jobs, k # j PROVE Elsewhere(k)
    OBVIOUS
  <2>1. ~Of(r, k) /\ ~Of(r, k)'
    BY <1>2, <1>9 DEF Of
  <2>2. QED
    BY <1>4, <1>8, <1>9, <1>10, <2>1 DEF Elsewhere, Changes, Persists
<1>15. /\ \A t \in Pending : t.job # j
       /\ \A w \in Workers : ~On(w, j)
       /\ \A s \in Requests : ~Asked(s, j)
  <2>1. ~HasTask(j)
    BY <1>1, <1>4, <1>5, SettledHasNone
  <2>2. QED
    BY <2>1, UnknownIsFree
<1>16. /\ \A t \in Pending' : t.job # j
       /\ \A w \in Workers : ~On(w, j)'
       /\ \A s \in Requests : Asked(s, j)' <=> s = r
  BY <1>4, <1>9, <1>15 DEF Pending, On, AtWork, TaskOf, Asked
<1>17. OneTask(j)'
  BY <1>16 DEF OneTask
<1>18. TasksFit(j)'
  <2>1. Fits(j, o, "annotation")'
    BY <1>3, <1>4, <1>5, <1>7, <1>8, <1>10 DEF Fits, Active
  <2>2. HasTask(j)'
    BY <1>16 DEF HasTask
  <2>3. QED
    BY <1>9, <1>16, <2>1, <2>2 DEF TasksFit
<1>19. LookupFits(j)'
  <2>1. \A s \in Requests : Of(s, j)' => /\ request'[s].phase = "submit"
                                         /\ request'[s].phase \notin {"missed", "loaded", "found"}
    BY <1>9, <1>12, Kinds DEF Of, LookingUp, Asking
  <2>2. \A i \in Objects : object[j][i] = NoJob \/ i = o
    BY <1>1, <1>2, <1>5, <1>12 DEF LookupFits, LookingUp
  <2>3. \A i \in Objects : object'[j][i] = NoJob \/ i = cached'[j]
    BY <1>4, <1>5, <1>8, <2>2 DEF Changes
  <2>4. QED
    BY <2>1, <2>3 DEF LookupFits
<1>20. RowFits(j)'
  <2>1. Current(j)' = job /\ cached'[j] = o
    BY <1>4, <1>5, <1>8 DEF Current
  <2>2. log[j] \in 0..MaxEvents
    BY <1>1 DEF ShapeInv
  <2>3. QED
    BY <1>3, <1>4, <1>6, <1>7, <1>8, <1>10, <2>1, <2>2, BoundsAreNats DEF RowFits, Active
<1>21. QED
  BY <1>11, <1>13, <1>14, <1>17, <1>18, <1>19, <1>20, OneJobMoves DEF JobInv

(* _submit, outside the lock.                                              *)
LEMMA HandOverKeeps ==
  ASSUME WebInv, NEW r \in Requests, HandOver(r)
  PROVE  WebInv'
PROOF
<1>1. request[r].phase = "submit" /\ ShapeInv /\ OneLookup
  BY DEF HandOver, WebInv
<1>2. PICK j \in Jobs : /\ j = request[r].job /\ Of(r, j) /\ LookupFits(j)
                        /\ request[r] \in Asking
  BY <1>1, RequestsJob
<1>3. PICK kind \in Kind : kind = request[r].kind
  BY <1>2 DEF Asking
<1>4. JobInv(j) /\ Asked(r, j) /\ Fits(j, request[r].object, kind)
  BY <1>1, <1>2, <1>3 DEF WebInv, JobInv, TasksFit, Asked
<1>5. PICK o \in Objects : o = request[r].object
  BY <1>2, <1>4 DEF Fits, Asking
<1>6. /\ Enqueue(j, o, kind) /\ request' = [request EXCEPT ![r] = Free]
      /\ UNCHANGED <<row, events, run, log, issued, object, cached, worker, servers>>
  BY <1>2, <1>3, <1>5 DEF HandOver, disk
<1>7. /\ \A t \in Pending : t.job # j
      /\ \A w \in Workers : ~On(w, j)
      /\ \A s \in Requests : s # r => ~Asked(s, j)
  BY <1>4 DEF JobInv, OneTask
<1>8. /\ queue' \in Seq(Task) /\ OnePerJob(queue)'
      /\ \A t \in Pending' : t \in Pending \/ (t.job = j /\ t.object = o /\ t.kind = kind)
      /\ \E t \in Pending' : t.job = j
      /\ \A t \in Task : t.job # j => (t \in Pending' <=> t \in Pending)
  BY <1>6, <1>7, EnqueueSets
<1>9. /\ request' \in [Requests -> Asking \cup {Free}] /\ request'[r] = Free
      /\ \A s \in Requests : s # r => request'[s] = request[s]
  BY <1>1, <1>6 DEF ShapeInv
<1>10. ShapeInv'
  <2>1. \A v \in Workers : AtWork(v)' <=> TaskOf(v)' \in Task
    BY <1>1, <1>6 DEF ShapeInv, AtWork, TaskOf
  <2>2. QED
    BY <1>1, <1>6, <1>8, <1>9, <2>1 DEF ShapeInv
<1>11. OneLookup'
  BY <1>1, <1>9, Kinds DEF OneLookup, LookingUp
<1>12. \A k \in Jobs : k # j => Elsewhere(k)
  <2> SUFFICES ASSUME NEW k \in Jobs, k # j PROVE Elsewhere(k)
    OBVIOUS
  <2>1. ~Of(r, k) /\ ~Of(r, k)'
    BY <1>2, <1>9 DEF Of
  <2>2. QED
    BY <1>6, <1>8, <1>9, <2>1 DEF Elsewhere, Pending
<1>13. /\ \A w \in Workers : ~On(w, j)'
       /\ \A s \in Requests : ~Asked(s, j)'
  BY <1>6, <1>7, <1>9, Kinds DEF On, AtWork, TaskOf, Asked
<1>14. OneTask(j)'
  BY <1>13 DEF OneTask
<1>15. TasksFit(j)'
  <2>1. Fits(j, o, kind)'
    BY <1>4, <1>5, <1>6 DEF Fits
  <2>2. HasTask(j)'
    BY <1>8 DEF HasTask
  <2>3. QED
    BY <1>7, <1>8, <1>13, <2>1, <2>2 DEF TasksFit
<1>16. LookupFits(j)'
  <2>1. /\ \A s \in Requests : s # r => request'[s] = request[s] /\ (Of(s, j)' <=> Of(s, j))
        /\ ~Of(r, j)'
    BY <1>9 DEF Of
  <2>2. QED
    BY <1>1, <1>2, <1>6, <2>1 DEF LookupFits
<1>17. RowFits(j)'
  BY <1>4, <1>6 DEF JobInv, RowFits, Current
<1>18. QED
  BY <1>8, <1>10, <1>11, <1>12, <1>14, <1>15, <1>16, <1>17, OneJobMoves DEF JobInv

-----------------------------------------------------------------------------
(* The process dies.                                                       *)

(* Nothing is left in memory, and no row says that something is active.    *)
LEMMA RestartKeeps ==
  ASSUME WebInv, Restart
  PROVE  WebInv'
PROOF
<1>1. /\ servers < MaxServers /\ servers' = servers + 1
      /\ row' = [j \in Jobs |-> Recovered(row[j])]
      /\ object' = [j \in Jobs |-> NoObject] /\ cached' = [j \in Jobs |-> 0]
      /\ request' = [r \in Requests |-> Free]
      /\ queue' = <<>> /\ worker' = [w \in Workers |-> Idle]
      /\ UNCHANGED <<issued, events, run, log>>
      /\ ShapeInv
  BY DEF Restart, WebInv
<1>2. \A j \in Jobs : /\ row'[j] \in Job \cup {NoJob} /\ ~Active(row'[j])
                      /\ row'[j] = NoJob <=> row[j] = NoJob
                      /\ row'[j].stage = row[j].stage \/ row[j] = NoJob
                      /\ row'[j] = row[j] \/ row'[j].state = "failed"
  <2> SUFFICES ASSUME NEW j \in Jobs
               PROVE  /\ row'[j] \in Job \cup {NoJob} /\ ~Active(row'[j])
                      /\ row'[j] = NoJob <=> row[j] = NoJob
                      /\ row'[j].stage = row[j].stage \/ row[j] = NoJob
                      /\ row'[j] = row[j] \/ row'[j].state = "failed"
    OBVIOUS
  <2>1. row[j] \in Job \cup {NoJob} /\ row'[j] = Recovered(row[j])
    BY <1>1 DEF ShapeInv
  <2>2. CASE Active(row[j])
    <3>1. row[j] \in Job /\ row'[j] = [row[j] EXCEPT !.state = "failed"]
      BY <2>1, <2>2, Kinds DEF Recovered
    <3>2. row'[j] \in Job /\ row'[j].state = "failed" /\ row'[j].stage = row[j].stage
      BY <3>1 DEF Job, JobState
    <3>3. QED
      BY <3>1, <3>2, Kinds DEF Active
  <2>3. CASE ~Active(row[j])
    BY <2>1, <2>3 DEF Recovered
  <2>4. QED
    BY <2>2, <2>3
<1>3. /\ \A w \in Workers : ~AtWork(w)' /\ TaskOf(w)' \notin Task /\ worker'[w] = Idle
      /\ \A r \in Requests : request'[r] = Free
      /\ Pending' = {}
  BY <1>1, Kinds DEF AtWork, TaskOf, Pending, Elements
<1>4. ShapeInv'
  <2>1. object' \in [Jobs -> [Objects -> Job \cup {NoJob}]]
    BY <1>1 DEF NoObject
  <2>2. Idle \in [phase : Phases, task : Task \cup {NoTask}]
    BY DEF Idle, Phases
  <2>3. servers' \in 1..MaxServers
    BY <1>1, BoundsAreNats DEF ShapeInv
  <2>4. QED
    BY <1>1, <1>2, <1>3, <2>1, <2>2, <2>3 DEF ShapeInv
<1>5. OnePerJob(queue)' /\ OneLookup'
  BY <1>1, <1>3, Kinds DEF OnePerJob, OneLookup, LookingUp
<1>6. ASSUME NEW j \in Jobs PROVE JobInv(j)'
  <2>1. OneTask(j)' /\ TasksFit(j)' /\ LookupFits(j)'
    BY <1>1, <1>3, Kinds DEF OneTask, TasksFit, LookupFits, On, Asked, Of, NoObject
  <2>2. RowFits(j)
    BY DEF WebInv, JobInv
  <2>3. RowFits(j)'
    BY <1>1, <1>2, <2>2, Kinds DEF RowFits
  <2>4. QED
    BY <2>1, <2>3 DEF JobInv
<1>7. QED
  BY <1>4, <1>5, <1>6 DEF WebInv

-----------------------------------------------------------------------------
(* The invariant and what follows from it.                                 *)

(* A backend that starts on an empty store.                                *)
LEMMA InitIsSound ==
  ASSUME Init
  PROVE  WebInv
PROOF
<1>1. /\ \A w \in Workers : ~AtWork(w) /\ TaskOf(w) \notin Task /\ worker[w] = Idle
      /\ \A r \in Requests : request[r] = Free
      /\ Pending = {} /\ queue = <<>>
  BY Kinds DEF Init, AtWork, TaskOf, Pending, Elements
<1>2. ShapeInv
  <2>1. object \in [Jobs -> [Objects -> Job \cup {NoJob}]]
    BY DEF Init, NoObject
  <2>2. Idle \in [phase : Phases, task : Task \cup {NoTask}]
    BY DEF Idle, Phases
  <2>3. queue \in Seq(Task) /\ 0 \in 0..MaxEvents /\ servers \in 1..MaxServers
    BY <1>1, BoundsAreNats DEF Init
  <2>4. QED
    BY <1>1, <2>1, <2>2, <2>3 DEF Init, ShapeInv
<1>3. OnePerJob(queue) /\ OneLookup
  BY <1>1, Kinds DEF OnePerJob, OneLookup, LookingUp
<1>4. ASSUME NEW j \in Jobs PROVE JobInv(j)
  <2>1. OneTask(j) /\ TasksFit(j) /\ LookupFits(j)
    BY <1>1, Kinds DEF Init, OneTask, TasksFit, LookupFits, On, Asked, Of, NoObject
  <2>2. RowFits(j)
    BY Kinds DEF Init, RowFits
  <2>3. QED
    BY <2>1, <2>2 DEF JobInv
<1>5. QED
  BY <1>2, <1>3, <1>4 DEF WebInv

(* Every step keeps the invariant when nothing passes a lookup.            *)
LEMMA StepKeeps ==
  ASSUME ~Overlap, WebInv, [Next]_vars
  PROVE  WebInv'
PROOF
<1>1. CASE UNCHANGED vars
  <2>1. ShapeInv' /\ OnePerJob(queue)' /\ OneLookup'
    BY <1>1 DEF vars, WebInv, ShapeInv, AtWork, TaskOf, OneLookup, LookingUp
  <2>2. ASSUME NEW j \in Jobs PROVE JobInv(j)'
    <3>1. Elsewhere(j)
      BY <1>1 DEF vars, Elsewhere
    <3>2. QED
      BY <2>1, <3>1, OthersKeep DEF WebInv
  <2>3. QED
    BY <2>1, <2>2 DEF WebInv
<1>2. CASE \E j \in Jobs, r \in Requests : SubmitAnalysis(j, r) \/ AskAnnotation(j, r)
  BY <1>2, SubmitAnalysisKeeps, AskAnnotationKeeps
<1>3. CASE \E j \in Jobs : Load(j) \/ Resume(j) \/ Delete(j)
  BY <1>3, LoadKeeps, ResumeKeeps, DeleteKeeps
<1>4. CASE \E j \in Jobs, new \in Jobs : RestartJob(j, new)
  BY <1>4, RestartJobKeeps
<1>5. CASE \E r \in Requests : RequestStep(r)
  BY <1>5, ReadRowKeeps, NotFoundKeeps, StoreObjectKeeps, AcceptAnnotationKeeps,
     RefuseAnnotationKeeps, HandOverKeeps DEF RequestStep
<1>6. CASE \E w \in Workers : WorkerStep(w)
  BY <1>6, TakeKeeps, MarkRunningKeeps, AnalyzedKeeps, EnterStageKeeps, BeginRunKeeps,
     ReachCheckpointKeeps, EmitKeeps, RecordProgressKeeps, AnnotatedKeeps, TaskRaisesKeeps,
     FinishKeeps DEF WorkerStep
<1>7. CASE Restart
  BY <1>7, RestartKeeps
<1>8. QED
  BY <1>1, <1>2, <1>3, <1>4, <1>5, <1>6, <1>7 DEF Next

(* If no handler passes an annotate request in its lookup, every task is   *)
(* the only one of its job and is of the object that lookups find, and a   *)
(* row is behind its object only in what a thread has not written yet.     *)
THEOREM Invariant == ~Overlap => (Spec => []WebInv)
PROOF
<1> SUFFICES ASSUME ~Overlap PROVE Spec => []WebInv
  OBVIOUS
<1>1. Init => WebInv
  BY InitIsSound
<1>2. WebInv /\ [Next]_vars => WebInv'
  BY StepKeeps
<1>3. QED
  BY <1>1, <1>2, PTL DEF Spec

(* The tasks of a job are one if it has a task and none otherwise.         *)
LEMMA TasksOfJob ==
  ASSUME WebInv, NEW j \in Jobs
  PROVE  TaskCount(j) = IF HasTask(j) THEN 1 ELSE 0
PROOF
<1>1. ShapeInv /\ OnePerJob(queue) /\ OneTask(j) /\ Pending \subseteq Task
  BY ElementsAreTasks DEF WebInv, JobInv, ShapeInv, Pending
<1>2. \A w \in Workers : w \in Working(j) <=> On(w, j)
  <2> SUFFICES ASSUME NEW w \in Workers PROVE w \in Working(j) <=> On(w, j)
    OBVIOUS
  <2>1. TaskOf(w) \in Task \cup {NoTask} /\ (AtWork(w) <=> TaskOf(w) \in Task)
    BY <1>1 DEF ShapeInv, TaskOf
  <2>2. QED
    BY <2>1, Kinds DEF Working, On
<1>3. \A x, y \in Working(j) : x = y
  BY <1>1, <1>2 DEF OneTask, Working
<1>4. \A x, y \in Waiting(j) : x = y
  BY <1>1 DEF OnePerJob, Waiting
<1>5. \A x, y \in Submitting(j) : x = y
  BY <1>1 DEF OneTask, Submitting, Asked
<1>6. /\ Waiting(j) # {} <=> \E t \in Pending : t.job = j
      /\ Working(j) # {} <=> \E w \in Workers : On(w, j)
      /\ Submitting(j) # {} <=> \E r \in Requests : Asked(r, j)
  <2>1. Waiting(j) # {} <=> \E t \in Pending : t.job = j
    BY DEF Waiting, Pending, Elements
  <2>2. Working(j) # {} <=> \E w \in Workers : On(w, j)
    BY <1>2 DEF Working
  <2>3. Submitting(j) # {} <=> \E r \in Requests : Asked(r, j)
    BY DEF Submitting, Asked
  <2>4. QED
    BY <2>1, <2>2, <2>3
<1>7. /\ Cardinality(Waiting(j)) = IF Waiting(j) = {} THEN 0 ELSE 1
      /\ Cardinality(Working(j)) = IF Working(j) = {} THEN 0 ELSE 1
      /\ Cardinality(Submitting(j)) = IF Submitting(j) = {} THEN 0 ELSE 1
  BY <1>3, <1>4, <1>5, OneAtMost
<1>8. /\ Waiting(j) # {} => Working(j) = {} /\ Submitting(j) = {}
      /\ Working(j) # {} => Submitting(j) = {}
  BY <1>1, <1>6 DEF OneTask
<1>9. HasTask(j) <=> Waiting(j) # {} \/ Working(j) # {} \/ Submitting(j) # {}
  BY <1>6 DEF HasTask
<1>10. QED
  BY <1>7, <1>8, <1>9 DEF TaskCount

(* Never do two runs annotate one job and write one progress log.          *)
THEOREM OneRun == ~Overlap => (Spec => []OneRunPerJob)
PROOF
<1> SUFFICES ASSUME ~Overlap PROVE Spec => []OneRunPerJob
  OBVIOUS
<1>1. WebInv => OneRunPerJob
  BY TasksOfJob DEF OneRunPerJob
<1>2. QED
  BY <1>1, Invariant, PTL

(* What a user is shown of a job is what the threads are doing.            *)
THEOREM Status == ~Overlap => (Spec => []StatusIsTrue)
PROOF
<1> SUFFICES ASSUME ~Overlap PROVE Spec => []StatusIsTrue
  OBVIOUS
<1>1. ASSUME WebInv PROVE TypeOK
  <2>1. ShapeInv
    BY <1>1 DEF WebInv
  <2>2. \A r \in Requests : request[r].phase \in {"free", "missed", "loaded", "found", "submit"}
    BY <2>1, Kinds DEF ShapeInv, Asking
  <2>3. \A w \in Workers : /\ worker[w].phase \in Phases
                           /\ At(w, "idle") <=> TaskOf(w) = NoTask
    BY <2>1, Kinds DEF ShapeInv, At, AtWork, TaskOf
  <2>4. ASSUME NEW w \in Workers, ~At(w, "idle") PROVE ObjectOf(w) # NoJob
    <3>1. PICK j \in Jobs, o \in Objects : WorksOn(w, j, o)
      BY <1>1, <2>4, WorkersObject DEF At, AtWork
    <3>2. QED
      BY <3>1, Kinds DEF WorksOn
  <2>5. QED
    BY <2>1, <2>2, <2>3, <2>4 DEF ShapeInv, TypeOK
<1>2. ASSUME WebInv PROVE ShownIsScheduled
  <2> SUFFICES ASSUME NEW j \in Jobs PROVE Active(Shown(j)) <=> TaskCount(j) > 0
    BY DEF ShownIsScheduled
  <2>1. ShapeInv /\ JobInv(j)
    BY <1>2 DEF WebInv
  <2>2. Active(Shown(j)) <=> cached[j] # 0 /\ Active(Current(j))
    BY <2>1 DEF Shown, Current, JobInv, RowFits
  <2>3. QED
    BY <1>2, <2>1, <2>2, SettledHasNone, TasksOfJob
<1>3. WebInv => StatusIsTrue
  BY <1>1, <1>2 DEF StatusIsTrue
<1>4. QED
  BY <1>3, Invariant, PTL

(* What was completed can be served, and what reached its checkpoint can   *)
(* be resumed.                                                             *)
THEOREM Results == ~Overlap => (Spec => []ResultsAreOffered)
PROOF
<1> SUFFICES ASSUME ~Overlap PROVE Spec => []ResultsAreOffered
  OBVIOUS
<1>1. ASSUME WebInv PROVE CompletedIsServed
  BY <1>1 DEF WebInv, JobInv, RowFits, Sound, CompletedIsServed
<1>2. ASSUME WebInv PROVE CheckpointIsOffered
  <2> SUFFICES ASSUME NEW j \in Jobs, row[j] # NoJob, run[j] = "checkpoint"
               PROVE  Active(Shown(j)) \/ CanResume(j)
    BY DEF CheckpointIsOffered
  <2>1. RowFits(j)
    BY <1>2 DEF WebInv, JobInv
  <2>2. Shown(j).stage = "annotate"
    BY <2>1 DEF RowFits, Shown, Current
  <2>3. QED
    BY <2>2 DEF CanResume
<1>3. WebInv => ResultsAreOffered
  BY <1>1, <1>2 DEF ResultsAreOffered
<1>4. QED
  BY <1>3, Invariant, PTL

(* A reader of the event stream misses nothing.                            *)
THEOREM Events == ~Overlap => (Spec => EventsAppended)
PROOF
<1> SUFFICES ASSUME ~Overlap PROVE Spec => EventsAppended
  OBVIOUS
<1> DEFINE Appended == \A j \in Jobs : events'[j] \in {events[j], 0} \/ events'[j] > events[j]
<1>1. UNCHANGED events => Appended
  OBVIOUS
<1>2. ASSUME WebInv, [Next]_vars PROVE Appended
  <2>1. ShapeInv
    BY <1>2 DEF WebInv
  <2>2. ASSUME NEW w \in Workers, RecordProgress(w) PROVE Appended
    <3>1. PICK j \in Jobs, o \in Objects : WorksOn(w, j, o)
      BY <1>2, <2>2, WorkersObject DEF RecordProgress, At, AtWork
    <3>2. events' = [events EXCEPT ![j] = log[j]]
      BY <2>2, <3>1 DEF RecordProgress, WorksOn
    <3>3. events[j] <= log[j] /\ events[j] \in Nat /\ log[j] \in Nat
      BY <2>1, <3>1, BoundsAreNats DEF WorksOn, JobInv, RowFits, ShapeInv
    <3>4. QED
      BY <2>1, <3>2, <3>3 DEF ShapeInv
  <2>3. ASSUME NEW r \in Requests, AcceptAnnotation(r) PROVE Appended
    <3>1. PICK j \in Jobs : events' = [events EXCEPT ![j] = 0]
      BY <1>2, <2>3, RequestsJob DEF AcceptAnnotation
    <3>2. QED
      BY <2>1, <3>1 DEF ShapeInv
  <2>4. ASSUME NEW j \in Jobs, Delete(j) PROVE Appended
    BY <2>1, <2>4 DEF Delete, ShapeInv
  <2>5. ASSUME NEW w \in Workers, WorkerStep(w), ~RecordProgress(w) PROVE UNCHANGED events
    BY <2>5 DEF WorkerStep, Take, MarkRunning, Analyzed, EnterStage, BeginRun, ReachCheckpoint,
                Emit, Annotated, TaskRaises, Finish, disk
  <2>6. ASSUME NEW r \in Requests, RequestStep(r), ~AcceptAnnotation(r) PROVE UNCHANGED events
    BY <2>6 DEF RequestStep, ReadRow, NotFound, StoreObject, RefuseAnnotation, HandOver, disk
  <2>7. ASSUME NEW j \in Jobs, Load(j) \/ Resume(j) PROVE UNCHANGED events
    BY <2>7 DEF Load, Resume, disk
  <2>8. ASSUME NEW j \in Jobs, NEW r \in Requests, SubmitAnalysis(j, r) \/ AskAnnotation(j, r)
        PROVE  UNCHANGED events
    BY <2>8 DEF SubmitAnalysis, AskAnnotation, disk
  <2>9. ASSUME Restart \/ UNCHANGED vars \/ \E j \in Jobs, new \in Jobs : RestartJob(j, new)
        PROVE  UNCHANGED events
    BY <2>9 DEF Restart, RestartJob, vars
  <2>10. Next \/ UNCHANGED vars
    BY <1>2
  <2>11. QED
    BY <1>1, <2>2, <2>3, <2>4, <2>5, <2>6, <2>7, <2>8, <2>9, <2>10 DEF Next
<1>3. WebInv /\ [Next]_vars => [Appended]_events
  BY <1>2
<1>4. QED
  BY <1>3, Invariant, PTL DEF Spec, EventsAppended
=============================================================================
