----------------------------- MODULE Scheduler -----------------------------
(***************************************************************************)
(* CScheduler (scheduler.cpp): a queue of tasks ordered by time, served by *)
(* threads that wait on one condition variable.                            *)
(*                                                                         *)
(* newTaskMutex is held except while a thread waits or runs a task, so     *)
(* what a thread does between two of those is one step. notify_one and     *)
(* notify_all come after the mutex is given up, as steps of their own.     *)
(* (The one at the end of serviceQueue comes before that, and is given no  *)
(* less time.)                                                             *)
(*                                                                         *)
(* Times are counted from now, so that the system may run for ever: when a *)
(* second passes, all of them come one closer.                             *)
(***************************************************************************)
EXTENDS Integers, FiniteSets

CONSTANTS
    Thread,             \* threads that may run serviceQueue
    Pools,              \* the sets of them to consider
    Task,               \* tasks
    Repeating,          \* those given to scheduleEvery
    Delta,              \* their deltaSeconds
    MaxAhead,           \* bound on how far ahead a task is scheduled
    MaxLate,            \* bound on how late a task in the queue may be
    NoTask

ASSUME SchedulerAssumption ==
    /\ NoTask \notin Task
    /\ Delta \in Nat \ {0} /\ MaxAhead \in Nat /\ MaxLate \in Nat \ {0}
    /\ Pools \subseteq SUBSET Thread

VARIABLES
    pool,               \* the threads that run serviceQueue
    pc,                 \* where a thread is: "new", "wait" (for any task),
                        \* "timed" (for the time until), "run", "again" (the task
                        \* has queued itself again), "ran", "done"
    until,              \* timeToWaitFor, from now
    task,               \* the task a thread runs
    taskQueue, when,    \* the tasks in the queue, and the time of a task, from now
    nThreadsServicingQueue,
    stopRequested, stopWhenEmpty,
    interrupted,        \* interrupt_all was called on the threads
    notifyOne, notifyAll, \* notifications on their way
    woken,              \* threads that have been notified
    requested,          \* tasks that were given to schedule or scheduleEvery
    owed,               \* history: how often a task was queued, less how often taken
    early               \* history: a task was taken before its time

flags == <<stopRequested, stopWhenEmpty, interrupted>>
history == <<requested, owed, early>>
vars == <<pool, pc, until, task, taskQueue, when, nThreadsServicingQueue, flags,
          notifyOne, notifyAll, woken, history>>

Init ==
    /\ pool \in Pools
    /\ pc = [t \in Thread |-> "new"]
    /\ until = [t \in Thread |-> 0]
    /\ task = [t \in Thread |-> NoTask]
    /\ taskQueue = {} /\ when = [k \in Task |-> 0]
    /\ nThreadsServicingQueue = 0
    /\ stopRequested = FALSE /\ stopWhenEmpty = FALSE /\ interrupted = FALSE
    /\ notifyOne = 0 /\ notifyAll = FALSE /\ woken = {}
    /\ requested = {} /\ owed = [k \in Task |-> 0] /\ early = FALSE

-----------------------------------------------------------------------------
shouldStop == stopRequested \/ (stopWhenEmpty /\ taskQueue = {})

\* Mutant: the queue is not ordered by time.
FirstAny == taskQueue

\* The tasks at the front of the queue. (Which of two for the same time is first
\* is left open.)
First == {k \in taskQueue : \A j \in taskQueue : when[k] <= when[j]}

\* The loop of serviceQueue, from its head to where the thread ends or waits; n
\* threads are in service.
Loop(t, n) ==
    \/ /\ shouldStop
       /\ pc' = [pc EXCEPT ![t] = "done"]
       /\ nThreadsServicingQueue' = n - 1
       /\ notifyOne' = notifyOne + 1
       /\ until' = [until EXCEPT ![t] = 0]
    \/ /\ ~shouldStop /\ taskQueue = {}
       /\ pc' = [pc EXCEPT ![t] = "wait"]
       /\ nThreadsServicingQueue' = n
       /\ until' = [until EXCEPT ![t] = 0]
       /\ UNCHANGED notifyOne
    \/ /\ ~shouldStop
       /\ \E k \in First : until' = [until EXCEPT ![t] = when[k]]
       /\ pc' = [pc EXCEPT ![t] = "timed"]
       /\ nThreadsServicingQueue' = n
       /\ UNCHANGED notifyOne

\* serviceQueue is entered.
Enter(t) ==
    /\ t \in pool /\ pc[t] = "new"
    /\ Loop(t, nThreadsServicingQueue + 1)
    /\ UNCHANGED <<pool, task, taskQueue, when, flags, notifyAll, woken, history>>

\* A wait ends before its time: the thread was notified, or for no reason.
Wake(t) ==
    /\ pc[t] \in {"wait", "timed"} /\ ~interrupted
    /\ Loop(t, nThreadsServicingQueue)
    /\ woken' = woken \ {t}
    /\ UNCHANGED <<pool, task, taskQueue, when, flags, notifyAll, history>>

\* Mutant: the task is left in the queue while it runs.
TakeKept(t) ==
    \E k \in First :
       /\ taskQueue' = taskQueue /\ when' = when
       /\ task' = [task EXCEPT ![t] = k]
       /\ owed' = [owed EXCEPT ![k] = @ - 1]
       /\ early' = (early \/ when[k] > 0)

\* The first task is taken off the queue.
Take(t) ==
    \E k \in First :
       /\ taskQueue' = taskQueue \ {k} /\ when' = [when EXCEPT ![k] = 0]
       /\ task' = [task EXCEPT ![t] = k]
       /\ owed' = [owed EXCEPT ![k] = @ - 1]
       /\ early' = (early \/ when[k] > 0)

\* A timed wait ends at its time; whatever is now first in the queue is run.
TimedOut(t) ==
    /\ pc[t] = "timed" /\ until[t] <= 0 /\ ~interrupted
    /\ \/ /\ shouldStop \/ taskQueue = {}
          /\ Loop(t, nThreadsServicingQueue)
          /\ UNCHANGED <<task, taskQueue, when, owed, early>>
       \/ /\ ~shouldStop
          /\ Take(t)
          /\ pc' = [pc EXCEPT ![t] = "run"]
          /\ until' = [until EXCEPT ![t] = 0]
          /\ UNCHANGED <<nThreadsServicingQueue, notifyOne>>
    /\ woken' = woken \ {t}
    /\ UNCHANGED <<pool, flags, notifyAll, requested>>

\* schedule(k, at), but for the notification.
Insert(k, at) ==
    /\ taskQueue' = taskQueue \cup {k}
    /\ when' = [when EXCEPT ![k] = at]
    /\ owed' = [owed EXCEPT ![k] = @ + 1]

\* The task is run. A repeating one schedules itself again (Repeat), always.
Run(t) ==
    /\ pc[t] = "run"
    /\ \/ /\ task[t] \in Repeating
          /\ Insert(task[t], Delta)
          /\ pc' = [pc EXCEPT ![t] = "again"]
       \/ /\ task[t] \notin Repeating
          /\ pc' = [pc EXCEPT ![t] = "ran"]
          /\ UNCHANGED <<taskQueue, when, owed>>
    /\ task' = [task EXCEPT ![t] = NoTask]
    /\ UNCHANGED <<pool, until, nThreadsServicingQueue, flags, notifyOne, notifyAll, woken,
                   requested, early>>

Waiting == {t \in pool : pc[t] \in {"wait", "timed"}} \ woken

\* notify_one reaches one of the threads that wait, if there is one.
WakeOne ==
    \/ Waiting = {} /\ UNCHANGED woken
    \/ \E t \in Waiting : woken' = woken \cup {t}

\* Repeat's call of schedule ends with its notification.
NotifyAgain(t) ==
    /\ pc[t] = "again"
    /\ pc' = [pc EXCEPT ![t] = "ran"]
    /\ WakeOne
    /\ UNCHANGED <<pool, until, task, taskQueue, when, nThreadsServicingQueue, flags, notifyOne,
                   notifyAll, history>>

\* The mutex is taken again after the task.
Resume(t) ==
    /\ pc[t] = "ran"
    /\ Loop(t, nThreadsServicingQueue)
    /\ UNCHANGED <<pool, task, taskQueue, when, flags, notifyAll, woken, history>>

\* boost::thread_interrupted is thrown, where the thread waits or in the task.
Interrupted(t) ==
    /\ interrupted /\ pc[t] \in {"wait", "timed", "run"}
    /\ pc' = [pc EXCEPT ![t] = "done"]
    /\ task' = [task EXCEPT ![t] = NoTask]
    /\ nThreadsServicingQueue' = nThreadsServicingQueue - 1
    /\ woken' = woken \ {t}
    /\ UNCHANGED <<pool, until, taskQueue, when, flags, notifyOne, notifyAll, history>>

-----------------------------------------------------------------------------
(* The others.                                                             *)

\* schedule or scheduleEvery; each task is given to them once.
Schedule(k, at) ==
    /\ k \notin requested
    /\ requested' = requested \cup {k}
    /\ Insert(k, at)
    /\ notifyOne' = notifyOne + 1
    /\ UNCHANGED <<pool, pc, until, task, nThreadsServicingQueue, flags, notifyAll, woken, early>>

\* Mutant: nobody is notified.
StopQuietly(drain) ==
    /\ IF drain THEN ~stopWhenEmpty ELSE ~stopRequested
    /\ stopWhenEmpty' = (stopWhenEmpty \/ drain)
    /\ stopRequested' = (stopRequested \/ ~drain)
    /\ UNCHANGED <<pool, pc, until, task, taskQueue, when, nThreadsServicingQueue, interrupted,
                   notifyOne, notifyAll, woken, history>>

\* stop(drain).
Stop(drain) ==
    /\ IF drain THEN ~stopWhenEmpty ELSE ~stopRequested
    /\ stopWhenEmpty' = (stopWhenEmpty \/ drain)
    /\ stopRequested' = (stopRequested \/ ~drain)
    /\ notifyAll' = TRUE
    /\ UNCHANGED <<pool, pc, until, task, taskQueue, when, nThreadsServicingQueue, interrupted,
                   notifyOne, woken, history>>

\* threadGroup.interrupt_all().
InterruptAll ==
    /\ ~interrupted
    /\ interrupted' = TRUE
    /\ UNCHANGED <<pool, pc, until, task, taskQueue, when, nThreadsServicingQueue,
                   stopRequested, stopWhenEmpty, notifyOne, notifyAll, woken, history>>

NotifyOne ==
    /\ notifyOne > 0
    /\ notifyOne' = notifyOne - 1
    /\ WakeOne
    /\ UNCHANGED <<pool, pc, until, task, taskQueue, when, nThreadsServicingQueue, flags, notifyAll,
                   history>>

NotifyAll ==
    /\ notifyAll
    /\ notifyAll' = FALSE
    /\ woken' = woken \cup Waiting
    /\ UNCHANGED <<pool, pc, until, task, taskQueue, when, nThreadsServicingQueue, flags, notifyOne, history>>

\* A second passes. (A wait that is over stays so.)
Tick ==
    /\ \A k \in taskQueue : when[k] > -MaxLate
    /\ when' = [k \in Task |-> IF k \in taskQueue THEN when[k] - 1 ELSE when[k]]
    /\ until' = [t \in Thread |-> IF until[t] > 0 THEN until[t] - 1 ELSE until[t]]
    /\ UNCHANGED <<pool, pc, task, taskQueue, nThreadsServicingQueue, flags,
                   notifyOne, notifyAll, woken, history>>

Serve(t) ==
    Enter(t) \/ TimedOut(t) \/ Run(t) \/ NotifyAgain(t) \/ Resume(t) \/ Interrupted(t)

Next ==
    \/ \E t \in Thread : Serve(t) \/ Wake(t)
    \/ \E k \in Task, at \in 0 .. MaxAhead : Schedule(k, at)
    \/ \E drain \in BOOLEAN : Stop(drain)
    \/ InterruptAll \/ NotifyOne \/ NotifyAll \/ Tick

\* Threads get to run, tasks return, time passes, and notifications arrive.
Fairness ==
    /\ \A t \in Thread : WF_vars(Serve(t)) /\ WF_vars(t \in woken /\ Wake(t))
    /\ WF_vars(NotifyOne) /\ WF_vars(NotifyAll) /\ WF_vars(Tick)

Spec == Init /\ [][Next]_vars
FairSpec == Spec /\ Fairness

-----------------------------------------------------------------------------
Ended == (\A t \in pool : pc[t] = "done") /\ nThreadsServicingQueue = 0

\* A task that was scheduled is in the queue or has been taken, once for each time
\* it was scheduled, and no two threads run the same one.
TasksExact ==
    /\ \A k \in Task : owed[k] = (IF k \in taskQueue THEN 1 ELSE 0)
    /\ \A s, t \in Thread : task[s] = task[t] /\ task[s] # NoTask => s = t

\* "Call func at/after time t", with one thread as AppInitMain starts it. (Of two
\* threads that time out for the same task, one takes the next one early.)
AtOrAfter == (\A s, t \in pool : s = t) => ~early

\* A queued task is run, however often others repeat, unless the threads end; they all
\* do after stop(false) or an interruption, and the destructor's assertion that none is
\* left in service holds. After stop(true) they do if no repeating task was scheduled:
\* Repeat always queues its task again, and then the queue is never empty for good.
ServedOrEnded ==
    /\ \A k \in Task : k \in taskQueue ~> (k \notin taskQueue \/ Ended)
    /\ (stopRequested \/ interrupted) ~> Ended
    /\ stopWhenEmpty ~> (Ended \/ requested \cap Repeating # {})
=============================================================================
