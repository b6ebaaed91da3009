-------------------------- MODULE SchedulerProofs --------------------------
(***************************************************************************)
(* Proofs about the scheduler, for any number of threads and tasks.        *)
(***************************************************************************)
EXTENDS Scheduler, TLAPS

Place == {"new", "wait", "timed", "run", "again", "ran", "done"}

TypeOK ==
    /\ pool \subseteq Thread
    /\ pc \in [Thread -> Place]
    /\ until \in [Thread -> Int]
    /\ task \in [Thread -> Task \cup {NoTask}]
    /\ taskQueue \subseteq Task
    /\ when \in [Task -> Int]
    /\ requested \subseteq Task
    /\ owed \in [Task -> Int]

\* A thread in a task has one, which it took off the queue. Only tasks that were
\* given to the scheduler are in either place.
Running ==
    /\ \A t \in Thread : pc[t] = "run" => task[t] \in Task
    /\ \A t \in Thread : task[t] # NoTask => task[t] \in requested \ taskQueue
    /\ taskQueue \subseteq requested

TasksInv == TypeOK /\ Running /\ TasksExact

Alone == \A s, t \in pool : s = t

\* The task a lone thread waits for, or an earlier one, is in the queue.
Expects ==
    /\ \A t \in Thread : pc[t] # "new" => t \in pool
    /\ Alone => \A t \in pool : pc[t] = "timed" => \E k \in taskQueue : when[k] <= until[t]

TimesInv == TasksInv /\ Expects /\ AtOrAfter

-----------------------------------------------------------------------------
(* What the loop of serviceQueue does to a thread.                         *)

\* The loop leaves the thread waiting or done, and the other threads where they
\* are; a thread that waits for a time waits for that of a queued task.
LEMMA LoopStep ==
    ASSUME TypeOK, NEW t \in Thread, NEW n, Loop(t, n)
    PROVE  /\ pc' \in [Thread -> Place]
           /\ until' \in [Thread -> Int]
           /\ pc'[t] \in {"wait", "timed", "done"}
           /\ \A s \in Thread \ {t} : pc'[s] = pc[s] /\ until'[s] = until[s]
           /\ pc'[t] = "timed" => \E k \in taskQueue : when[k] <= until'[t]
<1>1. CASE pc' = [pc EXCEPT ![t] = "done"] /\ until' = [until EXCEPT ![t] = 0]
  BY <1>1 DEF TypeOK, Place
<1>2. CASE pc' = [pc EXCEPT ![t] = "wait"] /\ until' = [until EXCEPT ![t] = 0]
  BY <1>2 DEF TypeOK, Place
<1>3. CASE /\ pc' = [pc EXCEPT ![t] = "timed"]
           /\ \E k \in First : until' = [until EXCEPT ![t] = when[k]]
  <2>1. PICK k \in First : until' = [until EXCEPT ![t] = when[k]]
    BY <1>3
  <2>2. k \in taskQueue /\ when[k] \in Int
    BY <2>1 DEF First, TypeOK
  <2>3. until'[t] = when[k]
    BY <2>1 DEF TypeOK, Place
  <2>. QED  BY <1>3, <2>1, <2>2, <2>3 DEF TypeOK, Place
<1>. QED  BY <1>1, <1>2, <1>3 DEF Loop

-----------------------------------------------------------------------------
(* Every task is taken once for each time it was scheduled.                *)

LEMMA InitTasks == Init => TasksInv
<1>. SUFFICES ASSUME Init PROVE TasksInv
  OBVIOUS
<1>1. TypeOK
  <2>1. pool \subseteq Thread
    BY SchedulerAssumption DEF Init
  <2>. QED  BY <2>1 DEF Init, TypeOK, Place
<1>2. Running
  BY SchedulerAssumption DEF Init, Running
<1>3. TasksExact
  BY DEF Init, TasksExact
<1>. QED  BY <1>1, <1>2, <1>3 DEF TasksInv

\* Steps that leave tasks, queue and history alone need only keep pc typed and
\* bring no thread into a task.
LEMMA QuietStep ==
    ASSUME TasksInv,
           UNCHANGED <<pool, task, taskQueue, requested, owed>>,
           when' \in [Task -> Int],
           pc' \in [Thread -> Place],
           until' \in [Thread -> Int],
           \A s \in Thread : pc'[s] = "run" => pc[s] = "run"
    PROVE  TasksInv'
<1>1. TypeOK'
  BY DEF TasksInv, TypeOK
<1>2. Running'
  BY DEF TasksInv, Running
<1>3. TasksExact'
  BY DEF TasksInv, TasksExact
<1>. QED  BY <1>1, <1>2, <1>3 DEF TasksInv

\* Taking the first task keeps the account.
LEMMA TakeTasks ==
    ASSUME TasksInv, NEW t \in Thread, Take(t),
           pc' = [pc EXCEPT ![t] = "run"], until' = [until EXCEPT ![t] = 0],
           UNCHANGED <<pool, requested>>
    PROVE  TasksInv'
<1>1. PICK k \in First :
         /\ taskQueue' = taskQueue \ {k} /\ when' = [when EXCEPT ![k] = 0]
         /\ task' = [task EXCEPT ![t] = k]
         /\ owed' = [owed EXCEPT ![k] = @ - 1]
  BY DEF Take
<1>2. k \in taskQueue /\ k \in Task /\ k # NoTask
  BY SchedulerAssumption DEF First, TasksInv, TypeOK
<1>3. TypeOK'
  BY <1>1, <1>2 DEF TasksInv, TypeOK, Place
<1>4. \A s \in Thread : task[s] # k
  BY <1>2 DEF TasksInv, Running
<1>5. Running'
  <2>1. ASSUME NEW s \in Thread, pc'[s] = "run" PROVE task'[s] \in Task
    BY <1>1, <1>2, <2>1 DEF TasksInv, TypeOK, Running
  <2>2. ASSUME NEW s \in Thread, task'[s] # NoTask
        PROVE  task'[s] \in requested' \ taskQueue'
    BY <1>1, <1>2, <1>4, <2>2 DEF TasksInv, TypeOK, Running
  <2>3. taskQueue' \subseteq requested'
    BY <1>1 DEF TasksInv, Running
  <2>. QED  BY <2>1, <2>2, <2>3 DEF Running
<1>6. TasksExact'
  <2>1. ASSUME NEW j \in Task
        PROVE  owed'[j] = (IF j \in taskQueue' THEN 1 ELSE 0)
    BY <1>1, <1>2 DEF TasksInv, TypeOK, TasksExact
  <2>2. ASSUME NEW r \in Thread, NEW s \in Thread, task'[r] = task'[s], task'[r] # NoTask
        PROVE  r = s
    BY <1>1, <1>4, <2>2 DEF TasksInv, TypeOK, TasksExact
  <2>. QED  BY <2>1, <2>2 DEF TasksExact
<1>. QED  BY <1>3, <1>5, <1>6 DEF TasksInv

\* Queueing a task that is neither in the queue nor, afterwards, run by a thread
\* keeps the account.
LEMMA InsertTasks ==
    ASSUME TasksInv, NEW k \in Task, k \notin taskQueue, NEW at \in Int, Insert(k, at),
           pc' \in [Thread -> Place],
           task' \in [Thread -> Task \cup {NoTask}],
           \A s \in Thread : task'[s] \in {task[s], NoTask} \ {k},
           \A s \in Thread : pc'[s] = "run" => pc[s] = "run" /\ task'[s] = task[s],
           requested \subseteq requested', requested' \subseteq Task, k \in requested',
           UNCHANGED <<pool, until>>
    PROVE  TasksInv'
<1>1. TypeOK'
  BY DEF TasksInv, TypeOK, Insert
<1>2. Running'
  <2>1. ASSUME NEW s \in Thread, pc'[s] = "run" PROVE task'[s] \in Task
    BY <2>1 DEF TasksInv, Running
  <2>2. ASSUME NEW s \in Thread, task'[s] # NoTask
        PROVE  task'[s] \in requested' \ taskQueue'
    <3>1. task'[s] = task[s] /\ task'[s] # k
      BY <2>2
    <3>. QED  BY <2>2, <3>1 DEF TasksInv, Running, Insert
  <2>3. taskQueue' \subseteq requested'
    BY DEF TasksInv, Running, Insert
  <2>. QED  BY <2>1, <2>2, <2>3 DEF Running
<1>3. TasksExact'
  <2>1. ASSUME NEW j \in Task
        PROVE  owed'[j] = (IF j \in taskQueue' THEN 1 ELSE 0)
    BY DEF TasksInv, TypeOK, TasksExact, Insert
  <2>2. ASSUME NEW r \in Thread, NEW s \in Thread, task'[r] = task'[s], task'[r] # NoTask
        PROVE  r = s
    <3>1. task'[r] = task[r] /\ task'[s] = task[s]
      BY <2>2
    <3>. QED  BY <2>2, <3>1 DEF TasksInv, TasksExact
  <2>. QED  BY <2>1, <2>2 DEF TasksExact
<1>. QED  BY <1>1, <1>2, <1>3 DEF TasksInv

LEMMA StepTasks == TasksInv /\ [Next]_vars => TasksInv'
<1>. SUFFICES ASSUME TasksInv, [Next]_vars PROVE TasksInv'
  OBVIOUS
<1>0. TypeOK
  BY DEF TasksInv
<1>1. ASSUME NEW t \in Thread, Loop(t, nThreadsServicingQueue) \/ Loop(t, nThreadsServicingQueue + 1),
             UNCHANGED <<pool, task, taskQueue, when, requested, owed>>
      PROVE  TasksInv'
  <2>1. /\ pc' \in [Thread -> Place] /\ until' \in [Thread -> Int]
        /\ \A s \in Thread : pc'[s] = "run" => pc[s] = "run"
    BY <1>0, <1>1, LoopStep
  <2>2. when' \in [Task -> Int]
    BY <1>0, <1>1 DEF TypeOK, Place
  <2>. QED  BY <1>1, <2>1, <2>2, QuietStep
<1>2. ASSUME NEW t \in Thread, Enter(t) PROVE TasksInv'
  BY <1>1, <1>2 DEF Enter, history
<1>3. ASSUME NEW t \in Thread, Wake(t) PROVE TasksInv'
  BY <1>1, <1>3 DEF Wake, history
<1>4. ASSUME NEW t \in Thread, TimedOut(t) PROVE TasksInv'
  <2>1. CASE Loop(t, nThreadsServicingQueue) /\ UNCHANGED <<task, taskQueue, when, owed, early>>
    BY <1>1, <1>4, <2>1 DEF TimedOut
  <2>2. CASE Take(t) /\ pc' = [pc EXCEPT ![t] = "run"] /\ until' = [until EXCEPT ![t] = 0]
    BY <1>4, <2>2, TakeTasks DEF TimedOut
  <2>. QED  BY <1>4, <2>1, <2>2 DEF TimedOut
<1>5. ASSUME NEW t \in Thread, Run(t) PROVE TasksInv'
  <2>1. /\ pc' = [pc EXCEPT ![t] = "again"] \/ pc' = [pc EXCEPT ![t] = "ran"]
        /\ task' = [task EXCEPT ![t] = NoTask]
        /\ pc[t] = "run" /\ UNCHANGED <<pool, until, requested>>
    BY <1>5 DEF Run
  <2>2. task[t] \in requested \ taskQueue /\ task[t] \in Task /\ task[t] # NoTask
    BY <2>1, SchedulerAssumption DEF TasksInv, Running
  <2>3. /\ pc' \in [Thread -> Place] /\ task' \in [Thread -> Task \cup {NoTask}]
        /\ \A s \in Thread : pc'[s] = "run" => pc[s] = "run" /\ s # t
    BY <1>0, <2>1 DEF TypeOK, Place
  <2>4. \A s \in Thread : s # t => task'[s] = task[s]
    BY <1>0, <2>1 DEF TypeOK, Place
  <2>5. task'[t] = NoTask
    BY <1>0, <2>1 DEF TypeOK, Place
  <2>6. CASE Insert(task[t], Delta)
    <3>1. Delta \in Int
      BY SchedulerAssumption
    <3>2. \A s \in Thread : task'[s] \in {task[s], NoTask} \ {task[t]}
      BY <2>2, <2>4, <2>5 DEF TasksInv, TasksExact
    <3>3. \A s \in Thread : pc'[s] = "run" => pc[s] = "run" /\ task'[s] = task[s]
      BY <2>3, <2>4
    <3>4. requested' \subseteq Task
      BY <1>0, <2>1 DEF TypeOK, Place
    <3>. QED  BY <2>1, <2>2, <2>3, <2>6, <3>1, <3>2, <3>3, <3>4, InsertTasks
  <2>7. CASE UNCHANGED <<taskQueue, when, owed>>
    <3>1. TypeOK'
      BY <1>0, <2>1, <2>3, <2>7 DEF TypeOK, Place
    <3>2. Running'
      BY <2>1, <2>3, <2>4, <2>5, <2>7 DEF TasksInv, Running
    <3>3. TasksExact'
      BY <2>1, <2>4, <2>5, <2>7 DEF TasksInv, TasksExact
    <3>. QED  BY <3>1, <3>2, <3>3 DEF TasksInv
  <2>. QED  BY <1>5, <2>6, <2>7 DEF Run
<1>6. ASSUME NEW t \in Thread, Resume(t) PROVE TasksInv'
  BY <1>1, <1>6 DEF Resume, history
<1>7. ASSUME NEW t \in Thread, Interrupted(t) PROVE TasksInv'
  <2>1. /\ pc' = [pc EXCEPT ![t] = "done"] /\ task' = [task EXCEPT ![t] = NoTask]
        /\ UNCHANGED <<pool, until, taskQueue, when, requested, owed>>
    BY <1>7 DEF Interrupted, history
  <2>2. \A s \in Thread : s # t => task'[s] = task[s] /\ pc'[s] = pc[s]
    BY <1>0, <2>1 DEF TypeOK, Place
  <2>3. task'[t] = NoTask /\ pc'[t] = "done"
    BY <1>0, <2>1 DEF TypeOK, Place
  <2>4. TypeOK'
    BY <1>0, <2>1 DEF TypeOK, Place
  <2>5. Running'
    BY <2>1, <2>2, <2>3 DEF TasksInv, Running
  <2>6. TasksExact'
    BY <2>1, <2>2, <2>3 DEF TasksInv, TasksExact
  <2>. QED  BY <2>4, <2>5, <2>6 DEF TasksInv
<1>8. ASSUME NEW k \in Task, NEW at \in 0 .. MaxAhead, Schedule(k, at) PROVE TasksInv'
  <2>1. /\ k \notin requested /\ requested' = requested \cup {k} /\ Insert(k, at)
        /\ UNCHANGED <<pool, pc, until, task>>
    BY <1>8 DEF Schedule
  <2>2. k \notin taskQueue /\ \A s \in Thread : task[s] # k
    BY <2>1, SchedulerAssumption DEF TasksInv, Running
  <2>3. at \in Int
    BY <1>8, SchedulerAssumption
  <2>4. /\ pc' \in [Thread -> Place] /\ task' \in [Thread -> Task \cup {NoTask}]
        /\ requested' \subseteq Task
    BY <1>0, <2>1 DEF TypeOK, Place
  <2>5. \A s \in Thread : /\ task'[s] \in {task[s], NoTask} \ {k}
                          /\ pc'[s] = "run" => pc[s] = "run" /\ task'[s] = task[s]
    BY <2>1, <2>2
  <2>. QED  BY <2>1, <2>2, <2>3, <2>4, <2>5, InsertTasks
<1>9. ASSUME NEW t \in Thread, NotifyAgain(t) PROVE TasksInv'
  <2>1. pc' = [pc EXCEPT ![t] = "ran"] /\ UNCHANGED <<pool, until, task, taskQueue, when, requested, owed>>
    BY <1>9 DEF NotifyAgain, history
  <2>2. /\ when' \in [Task -> Int] /\ pc' \in [Thread -> Place] /\ until' \in [Thread -> Int]
        /\ \A s \in Thread : pc'[s] = "run" => pc[s] = "run"
    BY <1>0, <2>1 DEF TypeOK, Place
  <2>. QED  BY <2>1, <2>2, QuietStep
<1>10. CASE Tick
  <2>1. /\ when' = [k \in Task |-> IF k \in taskQueue THEN when[k] - 1 ELSE when[k]]
        /\ until' = [t \in Thread |-> IF until[t] > 0 THEN until[t] - 1 ELSE until[t]]
        /\ UNCHANGED <<pool, pc, task, taskQueue, requested, owed>>
    BY <1>10 DEF Tick, history
  <2>2. when' \in [Task -> Int]
    BY <1>0, <2>1 DEF TypeOK, Place
  <2>3. until' \in [Thread -> Int]
    BY <1>0, <2>1 DEF TypeOK, Place
  <2>4. pc' \in [Thread -> Place] /\ \A s \in Thread : pc'[s] = "run" => pc[s] = "run"
    BY <1>0, <2>1 DEF TypeOK, Place
  <2>. QED  BY <2>1, <2>2, <2>3, <2>4, QuietStep
<1>11. CASE \/ \E drain \in BOOLEAN : Stop(drain)
            \/ InterruptAll \/ NotifyOne \/ NotifyAll \/ UNCHANGED vars
  <2>1. UNCHANGED <<pool, pc, until, task, taskQueue, when, requested, owed>>
    BY <1>11 DEF Stop, InterruptAll, NotifyOne, NotifyAll, vars, history
  <2>2. /\ when' \in [Task -> Int] /\ pc' \in [Thread -> Place] /\ until' \in [Thread -> Int]
        /\ \A s \in Thread : pc'[s] = "run" => pc[s] = "run"
    BY <1>0, <2>1 DEF TypeOK, Place
  <2>. QED  BY <2>1, <2>2, QuietStep
<1>. QED
  BY <1>2, <1>3, <1>4, <1>5, <1>6, <1>7, <1>8, <1>9, <1>10, <1>11 DEF Next, Serve

\* However the threads, the callers of schedule, stop and interrupt_all, the
\* notifications and the clock interleave, a task is taken off the queue once for
\* each time it was scheduled and no two threads of serviceQueue run the same one.
THEOREM TasksAlwaysExact == Spec => []TasksExact
<1>1. TasksInv => TasksExact
  BY DEF TasksInv
<1>. QED  BY <1>1, InitTasks, StepTasks, PTL DEF Spec

-----------------------------------------------------------------------------
(* A lone thread takes no task before its time.                            *)

LEMMA InitTimes == Init => TimesInv
<1>. SUFFICES ASSUME Init PROVE TimesInv
  OBVIOUS
<1>1. Expects
  <2>1. pool \subseteq Thread /\ \A t \in Thread : pc[t] = "new"
    BY InitTasks DEF Init, TasksInv, TypeOK
  <2>2. \A t \in pool : pc[t] # "timed"
    BY <2>1
  <2>. QED  BY <2>1, <2>2 DEF Expects
<1>2. AtOrAfter
  BY DEF Init, AtOrAfter
<1>. QED  BY <1>1, <1>2, InitTasks DEF TimesInv

LEMMA StepTimes == TimesInv /\ [Next]_vars => TimesInv'
<1>. SUFFICES ASSUME TimesInv, [Next]_vars PROVE TimesInv'
  OBVIOUS
<1>0. TypeOK /\ TasksInv /\ TasksInv'
  BY StepTasks DEF TimesInv, TasksInv
<1>. SUFFICES Expects' /\ AtOrAfter'
  BY <1>0 DEF TimesInv
<1>1. ASSUME NEW t \in Thread, t \in pool,
             Loop(t, nThreadsServicingQueue) \/ Loop(t, nThreadsServicingQueue + 1),
             UNCHANGED <<pool, taskQueue, when, early>>
      PROVE  Expects' /\ AtOrAfter'
  <2>1. /\ \A s \in Thread \ {t} : pc'[s] = pc[s]
        /\ pc'[t] = "timed" => \E k \in taskQueue : when[k] <= until'[t]
    BY <1>0, <1>1, LoopStep
  <2>2. \A s \in Thread : pc'[s] # "new" => s \in pool
    BY <1>1, <2>1 DEF TimesInv, Expects
  <2>3. Alone => \A s \in pool : s = t
    BY <1>1 DEF Alone
  <2>4. Expects'
    BY <1>1, <2>1, <2>2, <2>3 DEF Expects, Alone
  <2>5. AtOrAfter'
    BY <1>1 DEF TimesInv, AtOrAfter
  <2>. QED  BY <2>4, <2>5
\* A thread that leaves its wait, or did not wait, for one in which it expects nothing.
<1>2. ASSUME NEW t \in Thread, t \in pool,
             pc' \in [Thread -> Place],
             pc'[t] # "timed", \A s \in Thread \ {t} : pc'[s] = pc[s],
             UNCHANGED <<pool, until>>, Alone => early' = early
      PROVE  Expects' /\ AtOrAfter'
  <2>1. Alone => \A s \in pool : s = t
    BY <1>2 DEF Alone
  <2>2. \A s \in Thread : pc'[s] # "new" => s \in pool
    BY <1>2 DEF TimesInv, Expects
  <2>. QED  BY <1>2, <2>1, <2>2 DEF TimesInv, Expects, AtOrAfter, Alone
<1>3. ASSUME NEW t \in Thread, Enter(t) PROVE Expects' /\ AtOrAfter'
  BY <1>1, <1>3 DEF Enter, history
<1>4. ASSUME NEW t \in Thread, Wake(t) PROVE Expects' /\ AtOrAfter'
  <2>1. t \in pool
    BY <1>4 DEF TimesInv, Expects, Wake
  <2>. QED  BY <1>1, <1>4, <2>1 DEF Wake, history
<1>5. ASSUME NEW t \in Thread, TimedOut(t) PROVE Expects' /\ AtOrAfter'
  <2>1. t \in pool /\ pc[t] = "timed" /\ until[t] <= 0 /\ UNCHANGED pool
    BY <1>5 DEF TimesInv, Expects, TimedOut
  <2>2. CASE Loop(t, nThreadsServicingQueue) /\ UNCHANGED <<task, taskQueue, when, owed, early>>
    BY <1>1, <2>1, <2>2
  <2>3. CASE Take(t) /\ pc' = [pc EXCEPT ![t] = "run"] /\ until' = [until EXCEPT ![t] = 0]
    <3>1. PICK k \in First : early' = (early \/ when[k] > 0)
      BY <2>3 DEF Take
    <3>2. Alone => ~(when[k] > 0)
      <4>1. SUFFICES ASSUME Alone PROVE when[k] <= 0
        BY <1>0, <3>1 DEF TypeOK, First
      <4>2. PICK j \in taskQueue : when[j] <= until[t]
        BY <2>1, <4>1 DEF TimesInv, Expects
      <4>3. when[k] <= when[j]
        BY <3>1, <4>2 DEF First
      <4>4. when[k] \in Int /\ when[j] \in Int /\ until[t] \in Int
        BY <1>0, <3>1, <4>2 DEF TypeOK, First
      <4>. QED  BY <2>1, <4>2, <4>3, <4>4
    <3>3. /\ pc'[t] = "run" /\ \A s \in Thread \ {t} : pc'[s] = pc[s]
      BY <1>0, <2>3 DEF TypeOK, Place
    <3>4. \A s \in Thread : pc'[s] # "new" => s \in pool
      BY <2>1, <3>3 DEF TimesInv, Expects
    <3>5. Alone => \A s \in pool : s = t
      BY <2>1 DEF Alone
    <3>6. Expects'
      BY <2>1, <3>3, <3>4, <3>5 DEF Expects, Alone
    <3>7. AtOrAfter'
      BY <2>1, <3>1, <3>2 DEF TimesInv, AtOrAfter, Alone
    <3>. QED  BY <3>6, <3>7
  <2>. QED  BY <1>5, <2>2, <2>3 DEF TimedOut
<1>6. ASSUME NEW t \in Thread, Run(t) PROVE Expects' /\ AtOrAfter'
  <2>1. /\ t \in pool
        /\ pc' = [pc EXCEPT ![t] = "again"] \/ pc' = [pc EXCEPT ![t] = "ran"]
        /\ UNCHANGED <<pool, until, early>>
    BY <1>6 DEF TimesInv, Expects, Run
  <2>2. /\ pc' \in [Thread -> Place]
        /\ pc'[t] # "timed" /\ \A s \in Thread \ {t} : pc'[s] = pc[s]
    BY <1>0, <2>1 DEF TypeOK, Place
  <2>. QED  BY <1>2, <2>1, <2>2
<1>7. ASSUME NEW t \in Thread, Resume(t) PROVE Expects' /\ AtOrAfter'
  <2>1. t \in pool
    BY <1>7 DEF TimesInv, Expects, Resume
  <2>. QED  BY <1>1, <1>7, <2>1 DEF Resume, history
<1>8. ASSUME NEW t \in Thread, Interrupted(t) PROVE Expects' /\ AtOrAfter'
  <2>1. /\ t \in pool /\ pc' = [pc EXCEPT ![t] = "done"]
        /\ UNCHANGED <<pool, until, early>>
    BY <1>8 DEF TimesInv, Expects, Interrupted, history
  <2>2. /\ pc' \in [Thread -> Place]
        /\ pc'[t] = "done" /\ \A s \in Thread \ {t} : pc'[s] = pc[s]
    BY <1>0, <2>1 DEF TypeOK, Place
  <2>. QED  BY <1>2, <2>1, <2>2
<1>9. ASSUME NEW k \in Task, NEW at \in 0 .. MaxAhead, Schedule(k, at) PROVE Expects' /\ AtOrAfter'
  <2>1. k \notin requested /\ Insert(k, at) /\ UNCHANGED <<pool, pc, until, early>>
    BY <1>9 DEF Schedule
  <2>3. k \notin taskQueue
    BY <1>0, <2>1 DEF TasksInv, Running
  <2>4. \A j \in taskQueue : j \in taskQueue' /\ when'[j] = when[j]
    BY <1>0, <2>1, <2>3 DEF TypeOK, Insert
  <2>. QED  BY <2>1, <2>4 DEF TimesInv, Expects, AtOrAfter, Alone
<1>10. ASSUME NEW t \in Thread, NotifyAgain(t) PROVE Expects' /\ AtOrAfter'
  <2>1. /\ t \in pool /\ pc' = [pc EXCEPT ![t] = "ran"]
        /\ UNCHANGED <<pool, until, early>>
    BY <1>10 DEF TimesInv, Expects, NotifyAgain, history
  <2>2. /\ pc' \in [Thread -> Place]
        /\ pc'[t] = "ran" /\ \A s \in Thread \ {t} : pc'[s] = pc[s]
    BY <1>0, <2>1 DEF TypeOK, Place
  <2>. QED  BY <1>2, <2>1, <2>2
\* Time brings a task at least as much closer as the end of the wait for it.
<1>11. CASE Tick
  <2>1. /\ when' = [k \in Task |-> IF k \in taskQueue THEN when[k] - 1 ELSE when[k]]
        /\ until' = [t \in Thread |-> IF until[t] > 0 THEN until[t] - 1 ELSE until[t]]
        /\ UNCHANGED <<pool, pc, taskQueue, early>>
    BY <1>11 DEF Tick, history
  <2>2. ASSUME NEW t \in Thread, NEW k \in taskQueue, when[k] <= until[t]
        PROVE  when'[k] <= until'[t]
    <3>1. when[k] \in Int /\ until[t] \in Int /\ k \in Task
      BY <1>0 DEF TypeOK, Place
    <3>2. when'[k] = when[k] - 1 /\ until'[t] = (IF until[t] > 0 THEN until[t] - 1 ELSE until[t])
      BY <2>1, <3>1
    <3>. QED  BY <2>2, <3>1, <3>2
  <2>3. pool \subseteq Thread
    BY <1>0 DEF TypeOK, Place
  <2>. QED  BY <2>1, <2>2, <2>3 DEF TimesInv, Expects, AtOrAfter, Alone
<1>12. CASE \/ \E drain \in BOOLEAN : Stop(drain)
            \/ InterruptAll \/ NotifyOne \/ NotifyAll \/ UNCHANGED vars
  <2>1. UNCHANGED <<pool, pc, until, taskQueue, when, early>>
    BY <1>12 DEF Stop, InterruptAll, NotifyOne, NotifyAll, vars, history
  <2>. QED  BY <2>1 DEF TimesInv, Expects, AtOrAfter, Alone
<1>. QED
  BY <1>3, <1>4, <1>5, <1>6, <1>7, <1>8, <1>9, <1>10, <1>11, <1>12 DEF Next, Serve

\* "Call func at/after time t" (scheduler.h): when one thread runs serviceQueue, as
\* AppInitMain has it, no task is taken before the time it was scheduled for, though
\* the thread takes whatever is first when its own wait has run out.
THEOREM NeverEarlyAlone == Spec => []AtOrAfter
<1>1. TimesInv => AtOrAfter
  BY DEF TimesInv
<1>. QED  BY <1>1, InitTimes, StepTimes, PTL DEF Spec
=============================================================================
