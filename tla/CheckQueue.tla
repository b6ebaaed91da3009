----------------------------- MODULE CheckQueue -----------------------------
(***************************************************************************)
(* The queue of script checks: ConnectBlock (the master) adds the checks   *)
(* of a block while worker threads execute them, joins the workers, and    *)
(* gets the verdict on the whole block. The threads share one mutex; a     *)
(* section under it is one step here, and a wait on a condition variable   *)
(* ends it. A wait may end without a notification.                         *)
(*                                                                         *)
(* A check is one that succeeds or one of the set Bad. The queue is a      *)
(* stack in the code; which checks a batch gets does not matter, and any   *)
(* may be taken here.                                                      *)
(***************************************************************************)
EXTENDS Integers, FiniteSets

CONSTANTS
    Worker,             \* the threads in ThreadScriptCheck
    Master,             \* the thread in ConnectBlock
    Check,              \* the checks of a block
    Bad,                \* the checks that fail
    nBatchSize          \* the most checks of one batch: 128

ASSUME QueueAssumption ==
    /\ IsFiniteSet(Worker) /\ Master \notin Worker
    /\ IsFiniteSet(Check) /\ Bad \subseteq Check
    /\ nBatchSize \in Nat \ {0}

Thread == Worker \cup {Master}

VARIABLES
    queue,              \* checks nobody has taken yet
    nIdle, nTotal,      \* threads that wait, and threads inside Loop
    fAllOk,             \* no check has failed so far
    nTodo,              \* number of checks not accounted for yet
    pc,                 \* of each thread: before the lock, waiting, woken, working;
                        \* of the master also adding and returned
    batch,              \* of each thread: the checks it took and did not account for
    fOk,                \* of each thread: the verdict on its batch
    added,              \* the checks of this block the master has added
    result              \* what Wait returned

vars == <<queue, nIdle, nTotal, fAllOk, nTodo, pc, batch, fOk, added, result>>

Init ==
    /\ queue = {}
    /\ nIdle = 0 /\ nTotal = 0
    /\ fAllOk = TRUE
    /\ nTodo = 0
    /\ pc = [t \in Thread |-> IF t = Master THEN "adding" ELSE "lock"]
    /\ batch = [t \in Thread |-> {}]
    /\ fOk = [t \in Thread |-> TRUE]
    /\ added = {}
    /\ result = TRUE

-----------------------------------------------------------------------------
\* The workers that notify_one or notify_all wakes for so many new checks.
Woken(n) ==
    LET asleep == {w \in Worker : pc[w] = "wait"}
    IN  IF n > 1 \/ asleep = {} THEN {asleep} ELSE {{w} : w \in asleep}

\* The master adds the checks of the block's next transaction.
Add(checks) ==
    /\ pc[Master] = "adding"
    /\ checks # {} /\ checks \subseteq Check \ added
    /\ queue' = queue \cup checks
    /\ added' = added \cup checks
    /\ nTodo' = nTodo + Cardinality(checks)
    /\ \E W \in Woken(Cardinality(checks)) :
          pc' = [t \in Thread |-> IF t \in W THEN "woken" ELSE pc[t]]
    /\ UNCHANGED <<nIdle, nTotal, fAllOk, batch, fOk, result>>

\* The master calls Wait, or leaves early and its control object does.
Wait ==
    /\ pc[Master] = "adding"
    /\ pc' = [pc EXCEPT ![Master] = "lock"]
    /\ UNCHANGED <<queue, nIdle, nTotal, fAllOk, nTodo, batch, fOk, added, result>>

-----------------------------------------------------------------------------
(* Loop. A thread that gets the lock first accounts for its last batch; one *)
(* that comes in without a batch is new; one that was woken is idle no more. *)

Running(t) == pc[t] \in {"lock", "woken"}
Accounts(t) == pc[t] = "lock" /\ batch[t] # {}

\* Mutant: the last verdict replaces the others.
AllOkLast(t) == IF Accounts(t) THEN fOk[t] ELSE fAllOk

AllOk(t) == IF Accounts(t) THEN fAllOk /\ fOk[t] ELSE fAllOk

Todo(t) == IF Accounts(t) THEN nTodo - Cardinality(batch[t]) ELSE nTodo

Total(t) == IF pc[t] = "lock" /\ batch[t] = {} THEN nTotal + 1 ELSE nTotal

Idle(t) == IF pc[t] = "woken" THEN nIdle - 1 ELSE nIdle

\* Mutant: nobody tells the master.
NotifiedNone(t) == {}

\* A worker that accounts for the last check wakes the master.
Notified(t) ==
    IF t # Master /\ Accounts(t) /\ Todo(t) = 0 /\ pc[Master] = "wait" THEN {Master} ELSE {}

\* Mutant: the master leaves when the queue is empty.
MayReturnEmpty(t) == t = Master

MayReturn(t) == t = Master /\ Todo(t) = 0

\* How many checks to take: fewer the more threads there are to share them.
nNow(t) ==
    LET share == Cardinality(queue) \div (Total(t) + Idle(t) + 1)
        n == IF share < nBatchSize THEN share ELSE nBatchSize
    IN  IF n > 1 THEN n ELSE 1

\* The thread goes on to a new place, and whom it notifies is woken.
Goto(t, place) ==
    pc' = [u \in Thread |-> IF u = t THEN place ELSE IF u \in Notified(t) THEN "woken" ELSE pc[u]]

\* Nothing to take and nothing to wait for: Loop returns the verdict and resets it.
Return(t) ==
    /\ Running(t)
    /\ queue = {} /\ MayReturn(t)
    /\ nTodo' = Todo(t)
    /\ nTotal' = Total(t) - 1
    /\ nIdle' = Idle(t)
    /\ result' = AllOk(t)
    /\ fAllOk' = TRUE
    /\ batch' = [batch EXCEPT ![t] = {}]
    /\ Goto(t, "returned")
    /\ UNCHANGED <<queue, fOk, added>>

Sleep(t) ==
    /\ Running(t)
    /\ queue = {} /\ ~MayReturn(t)
    /\ nTodo' = Todo(t)
    /\ nTotal' = Total(t)
    /\ nIdle' = Idle(t) + 1
    /\ fAllOk' = AllOk(t)
    /\ batch' = [batch EXCEPT ![t] = {}]
    /\ Goto(t, "wait")
    /\ UNCHANGED <<queue, fOk, added, result>>

Take(t) ==
    /\ Running(t)
    /\ queue # {}
    /\ nTodo' = Todo(t)
    /\ nTotal' = Total(t)
    /\ nIdle' = Idle(t)
    /\ fAllOk' = AllOk(t)
    /\ \E S \in SUBSET queue :
          /\ S # {}
          /\ Cardinality(S) = nNow(t)
          /\ batch' = [batch EXCEPT ![t] = S]
          /\ queue' = queue \ S
    /\ fOk' = [fOk EXCEPT ![t] = AllOk(t)]
    /\ Goto(t, "work")
    /\ UNCHANGED <<added, result>>

\* Outside the lock: the checks of the batch, up to the first that fails; none if
\* another batch had failed already.
Execute(t) ==
    /\ pc[t] = "work"
    /\ fOk' = [fOk EXCEPT ![t] = fOk[t] /\ batch[t] \cap Bad = {}]
    /\ pc' = [pc EXCEPT ![t] = "lock"]
    /\ UNCHANGED <<queue, nIdle, nTotal, fAllOk, nTodo, batch, added, result>>

\* A wait ends although nobody notified.
WakeUp(t) ==
    /\ pc[t] = "wait"
    /\ pc' = [pc EXCEPT ![t] = "woken"]
    /\ UNCHANGED <<queue, nIdle, nTotal, fAllOk, nTodo, batch, fOk, added, result>>

\* The control object is gone; the next block's comes.
NextBlock ==
    /\ pc[Master] = "returned"
    /\ pc' = [pc EXCEPT ![Master] = "adding"]
    /\ added' = {}
    /\ UNCHANGED <<queue, nIdle, nTotal, fAllOk, nTodo, batch, fOk, result>>

Step(t) == Return(t) \/ Sleep(t) \/ Take(t) \/ Execute(t)

Next ==
    \/ \E checks \in SUBSET Check : Add(checks)
    \/ Wait
    \/ NextBlock
    \/ \E t \in Thread : Step(t) \/ WakeUp(t)

Spec == Init /\ [][Next]_vars

\* Every thread that can run is scheduled; waits end by notifications only.
FairSpec == Spec /\ \A t \in Thread : WF_vars(Step(t))

-----------------------------------------------------------------------------
TypeOK ==
    /\ queue \subseteq Check
    /\ nIdle \in 0 .. Cardinality(Thread)
    /\ nTotal \in 0 .. Cardinality(Thread)
    /\ fAllOk \in BOOLEAN
    /\ nTodo \in 0 .. Cardinality(Check)
    /\ pc \in [Thread -> {"lock", "wait", "woken", "work", "adding", "returned"}]
    /\ batch \in [Thread -> SUBSET Check]
    /\ fOk \in [Thread -> BOOLEAN]
    /\ added \subseteq Check
    /\ result \in BOOLEAN

\* ConnectBlock learns the truth about its block: Wait returns true if and only if
\* every check that was added succeeds. No verdict is lost between two workers, and
\* none is left over from a block before.
ResultExact == pc[Master] = "returned" => result = (added \cap Bad = {})

\* When Wait has returned, nothing of the block is still queued, being executed or
\* waiting to be accounted for, so a late verdict cannot reach the next block.
NothingLeft ==
    pc[Master] = "returned" => nTodo = 0 /\ queue = {} /\ \A t \in Thread : batch[t] = {}

\* Wait returns: the last worker's notification is never missed, and no check stays
\* queued while everybody sleeps.
MasterReturns == pc[Master] = "lock" ~> pc[Master] = "returned"
=============================================================================
