-------------------------- MODULE CheckQueueProofs --------------------------
(***************************************************************************)
(* ConnectBlock gets the exact verdict on a block, for any number of       *)
(* worker threads, checks and blocks and any batch size. The argument:     *)
(* nTodo is the number of checks that are queued or in somebody's hands,   *)
(* and fAllOk speaks for all the others.                                   *)
(***************************************************************************)
EXTENDS CheckQueue, FiniteSetTheorems, TLAPS

\* The checks nobody has accounted for, and those left once t has.
Pending == queue \cup UNION {batch[t] : t \in Thread}
Rest(t) == queue \cup UNION {batch[u] : u \in Thread \ {t}}

\* The types the argument needs.
Shape ==
    /\ queue \subseteq Check
    /\ fAllOk \in BOOLEAN
    /\ pc \in [Thread -> {"lock", "wait", "woken", "work", "adding", "returned"}]
    /\ batch \in [Thread -> SUBSET Check]
    /\ fOk \in [Thread -> BOOLEAN]
    /\ added \subseteq Check

\* Every check that is not accounted for is in one place only, and counted.
Places ==
    /\ \A t \in Thread : batch[t] \cap queue = {}
    /\ \A t \in Thread, u \in Thread : t # u => batch[t] \cap batch[u] = {}
    /\ \A t \in Thread : batch[t] # {} => pc[t] \in {"lock", "work"}
    /\ Pending \subseteq added
    /\ nTodo = Cardinality(Pending)

\* What the flags say: fAllOk of the checks accounted for, fOk of a batch that was
\* executed; neither is ever false without a reason. Wait's return resets fAllOk.
Verdicts ==
    /\ fAllOk /\ pc[Master] # "returned" => (added \ Pending) \cap Bad = {}
    /\ ~fAllOk => added \cap Bad # {}
    /\ \A t \in Thread : batch[t] # {} /\ pc[t] = "lock" /\ fOk[t] => batch[t] \cap Bad = {}
    /\ \A t \in Thread : batch[t] # {} /\ ~fOk[t] => added \cap Bad # {}

\* What holds between Wait's return and the next block.
Returned ==
    /\ \A w \in Worker : pc[w] \notin {"adding", "returned"}
    /\ pc[Master] = "returned" =>
          Pending = {} /\ fAllOk /\ result = (added \cap Bad = {})

\* The inductive invariant.
IInv == Shape /\ Places /\ Verdicts /\ Returned

-----------------------------------------------------------------------------
\* Sets of checks are finite.
LEMMA FiniteChecks == \A S \in SUBSET Check : IsFiniteSet(S) /\ Cardinality(S) \in Nat
  BY QueueAssumption, FS_Subset, FS_CardinalityType

\* What is pending is a set of checks.
LEMMA PendingType ==
  ASSUME Shape
  PROVE  Pending \in SUBSET Check /\ \A t \in Thread : Rest(t) \in SUBSET Check
  BY DEF Shape, Pending, Rest

\* A thread that has the lock in Loop: what its cleaning up leaves pending, counted
\* and spoken for.
LEMMA Accounted ==
  ASSUME IInv, NEW t \in Thread, Running(t)
  PROVE  /\ Todo(t) = Cardinality(Rest(t))
         /\ AllOk(t) \in BOOLEAN
         /\ AllOk(t) /\ pc[Master] # "returned" => (added \ Rest(t)) \cap Bad = {}
         /\ ~AllOk(t) => added \cap Bad # {}
<1>1. Pending = Rest(t) \cup batch[t] /\ Rest(t) \cap batch[t] = {}
  BY DEF IInv, Places, Pending, Rest
<1>2. CASE Accounts(t)
  <2>1. Cardinality(Pending) = Cardinality(Rest(t)) + Cardinality(batch[t])
    <3>1. IsFiniteSet(Rest(t)) /\ IsFiniteSet(batch[t])
      BY FiniteChecks, PendingType DEF IInv, Shape
    <3>2. Cardinality(Rest(t) \cup batch[t])
            = Cardinality(Rest(t)) + Cardinality(batch[t]) - Cardinality(Rest(t) \cap batch[t])
      BY <3>1, FS_Union
    <3>3. Cardinality(Rest(t) \cap batch[t]) = 0
      BY <1>1, FS_EmptySet
    <3>4. Cardinality(Rest(t)) \in Nat /\ Cardinality(batch[t]) \in Nat
      BY <3>1, FS_CardinalityType
    <3> QED
      BY <1>1, <3>2, <3>3, <3>4
  <2>2. Cardinality(Rest(t)) \in Nat /\ Cardinality(batch[t]) \in Nat
    BY FiniteChecks, PendingType DEF IInv, Shape
  <2>3. Todo(t) = Cardinality(Rest(t))
    BY <1>2, <2>1, <2>2 DEF IInv, Places, Todo
  <2>4. AllOk(t) = (fAllOk /\ fOk[t])
    BY <1>2 DEF AllOk
  <2> QED
    BY <1>1, <1>2, <2>3, <2>4 DEF IInv, Shape, Verdicts, Accounts
<1>3. CASE ~Accounts(t)
  <2>1. batch[t] = {}
    BY <1>3 DEF IInv, Places, Shape, Accounts, Running
  <2>2. Rest(t) = Pending
    BY <1>1, <2>1
  <2> QED
    BY <1>3, <2>2 DEF IInv, Places, Shape, Verdicts, Todo, AllOk
<1> QED
  BY <1>2, <1>3

\* Nothing is pending before the first block.
LEMMA InitIInv == Init => IInv
<1> SUFFICES ASSUME Init PROVE IInv
  OBVIOUS
<1>1. Pending = {}
  BY DEF Init, Pending
<1>2. Shape
  BY DEF Init, Shape
<1>3. Places
  BY <1>1, FS_EmptySet DEF Init, Places
<1>4. Verdicts
  BY <1>1 DEF Init, Verdicts
<1>5. Returned
  BY QueueAssumption DEF Init, Returned, Thread
<1> QED
  BY <1>2, <1>3, <1>4, <1>5 DEF IInv

\* Adding checks.
LEMMA AddIInv == ASSUME IInv, NEW checks \in SUBSET Check, Add(checks) PROVE IInv'
<1> USE DEF IInv
<1>1. PICK W \in Woken(Cardinality(checks)) :
         pc' = [u \in Thread |-> IF u \in W THEN "woken" ELSE pc[u]]
  BY DEF Add
<1>2. W \subseteq {w \in Worker : pc[w] = "wait"}
  BY <1>1 DEF Woken
<1>3. \A u \in Thread : pc'[u] = pc[u] \/ (pc[u] = "wait" /\ pc'[u] = "woken")
  BY <1>1, <1>2 DEF Thread
<1>4. Shape'
  BY <1>1 DEF Add, Shape
<1>5. Pending' = Pending \cup checks /\ Pending \cap checks = {}
  BY DEF Add, Pending, Places
<1>6. Cardinality(Pending') = Cardinality(Pending) + Cardinality(checks)
  <2>1. IsFiniteSet(Pending) /\ IsFiniteSet(checks)
    BY FiniteChecks, PendingType
  <2>2. Cardinality(Pending \cup checks)
          = Cardinality(Pending) + Cardinality(checks) - Cardinality(Pending \cap checks)
    BY <2>1, FS_Union
  <2>3. Cardinality(Pending \cap checks) = 0
    BY <1>5, FS_EmptySet
  <2>4. Cardinality(Pending) \in Nat /\ Cardinality(checks) \in Nat
    BY <2>1, FS_CardinalityType
  <2> QED
    BY <1>5, <2>2, <2>3, <2>4
<1>7. Places'
  BY <1>3, <1>5, <1>6 DEF Add, Places, Pending
<1>8. Verdicts'
  BY <1>3, <1>5 DEF Add, Verdicts, Shape
<1>9. Returned'
  BY <1>3 DEF Add, Returned, Thread
<1> QED
  BY <1>4, <1>7, <1>8, <1>9

\* A thread that goes on in Loop changes nobody else's place except by waking a
\* master that waits.
LEMMA GotoOthers ==
  ASSUME Shape, NEW t \in Thread, NEW place, Goto(t, place)
  PROVE  /\ pc'[t] = place
         /\ \A u \in Thread \ {t} : pc'[u] = pc[u] \/ (pc[u] = "wait" /\ pc'[u] = "woken")
  BY DEF Goto, Notified, Thread

\* Loop returns: every check is accounted for.
LEMMA ReturnIInv == ASSUME IInv, NEW t \in Thread, Return(t) PROVE IInv'
<1> USE DEF IInv
<1>1. t = Master /\ Todo(t) = 0
  BY DEF Return, MayReturn
<1>2. Rest(t) = {}
  BY <1>1, Accounted, FiniteChecks, PendingType, FS_EmptySet DEF Return
<1>3. pc'[t] = "returned" /\ \A u \in Thread \ {t} : pc'[u] = pc[u] \/ (pc[u] = "wait" /\ pc'[u] = "woken")
  BY GotoOthers DEF Return
<1>4a. \A u \in Thread : batch'[u] = {}
  BY <1>2 DEF Return, Rest, Shape
<1>4. queue' = {} /\ Pending' = {}
  BY <1>4a DEF Return, Pending
<1>5. Shape'
  BY <1>4 DEF Return, Shape, Goto
<1>6. Places'
  BY <1>1, <1>2, <1>4, <1>4a, Accounted DEF Return, Places
<1>7. AllOk(t) = (added \cap Bad = {})
  BY <1>1, <1>2, Accounted DEF Return, Running
<1>8. fAllOk' = TRUE /\ added' = added /\ result' = AllOk(t)
  BY DEF Return
<1>9. Verdicts'
  BY <1>1, <1>3, <1>4a, <1>8 DEF Verdicts
<1>10. Returned'
  BY <1>1, <1>3, <1>4, <1>7, <1>8, QueueAssumption DEF Returned, Thread
<1> QED
  BY <1>5, <1>6, <1>9, <1>10

\* A thread that finds nothing to take waits.
LEMMA SleepIInv == ASSUME IInv, NEW t \in Thread, Sleep(t) PROVE IInv'
<1> USE DEF IInv
<1>1. pc'[t] = "wait" /\ \A u \in Thread \ {t} : pc'[u] = pc[u] \/ (pc[u] = "wait" /\ pc'[u] = "woken")
  BY GotoOthers DEF Sleep
<1>2. batch'[t] = {} /\ \A u \in Thread \ {t} : batch'[u] = batch[u]
  BY DEF Sleep, Shape
<1>3. Pending' = Rest(t)
  BY <1>2 DEF Sleep, Rest, Pending
<1>4. Shape'
  BY Accounted DEF Sleep, Shape, Goto
<1>5. Rest(t) \subseteq Pending
  BY DEF Rest, Pending
<1>6. Places'
  BY <1>1, <1>2, <1>3, <1>5, Accounted DEF Sleep, Places
<1>6a. pc[Master] = "returned" => pc'[Master] = "returned"
  BY <1>1 DEF Sleep, Running, Thread
<1>7. Verdicts'
  BY <1>1, <1>2, <1>3, <1>6a, Accounted DEF Sleep, Verdicts
<1>8. ASSUME pc[Master] = "returned" PROVE fAllOk' = fAllOk
  BY <1>8 DEF Returned, Pending, Sleep, AllOk, Accounts
<1>9. Returned'
  BY <1>1, <1>3, <1>5, <1>8 DEF Sleep, Returned, Thread
<1> QED
  BY <1>4, <1>6, <1>7, <1>9

\* A thread takes a batch.
LEMMA TakeIInv == ASSUME IInv, NEW t \in Thread, Take(t) PROVE IInv'
<1> USE DEF IInv
<1>1. pc'[t] = "work" /\ \A u \in Thread \ {t} : pc'[u] = pc[u] \/ (pc[u] = "wait" /\ pc'[u] = "woken")
  BY GotoOthers DEF Take
<1>2. PICK S \in SUBSET queue : batch' = [batch EXCEPT ![t] = S] /\ queue' = queue \ S
  BY DEF Take
<1>3. batch'[t] = S /\ \A u \in Thread \ {t} : batch'[u] = batch[u]
  BY <1>2 DEF Shape
<1>4. Pending' = Rest(t)
  BY <1>2, <1>3 DEF Rest, Pending
<1>5. Shape'
  BY <1>2, Accounted DEF Take, Shape, Goto
<1>6. Rest(t) \subseteq Pending
  BY DEF Rest, Pending
<1>7. fOk'[t] = AllOk(t) /\ \A u \in Thread \ {t} : fOk'[u] = fOk[u]
  BY DEF Take, Shape
<1>8. Places'
  BY <1>1, <1>2, <1>3, <1>4, <1>6, Accounted DEF Take, Places
<1>9. pc[Master] # "returned"
  BY DEF Take, Returned, Pending
<1>10. Verdicts'
  BY <1>1, <1>3, <1>4, <1>7, <1>9, Accounted DEF Take, Verdicts
<1>11. Returned'
  BY <1>1, <1>9 DEF Returned, Thread
<1> QED
  BY <1>5, <1>8, <1>10, <1>11

\* The checks of a batch are executed outside the lock.
LEMMA ExecuteIInv == ASSUME IInv, NEW t \in Thread, Execute(t) PROVE IInv'
<1> USE DEF IInv
<1>1. Pending' = Pending
  BY DEF Execute, Pending
<1>2. pc'[t] = "lock" /\ pc[t] = "work" /\ \A u \in Thread \ {t} : pc'[u] = pc[u]
  BY DEF Execute, Shape
<1>3. fOk'[t] = (fOk[t] /\ batch[t] \cap Bad = {}) /\ \A u \in Thread \ {t} : fOk'[u] = fOk[u]
  BY DEF Execute, Shape
<1>4. Shape'
  BY DEF Execute, Shape
<1>5. Places'
  BY <1>1, <1>2 DEF Execute, Places
<1>6. batch[t] \subseteq added
  BY DEF Places, Pending
<1>6a. pc[Master] = "returned" => pc'[Master] = "returned"
  BY <1>2 DEF Thread
<1>7. Verdicts'
  BY <1>1, <1>2, <1>3, <1>6, <1>6a DEF Execute, Verdicts
<1>8. Returned'
  BY <1>1, <1>2 DEF Execute, Returned, Thread
<1> QED
  BY <1>4, <1>5, <1>7, <1>8

\* Steps that only move the master or wake a thread, and the start of a new block.
LEMMA OtherIInv ==
  ASSUME IInv, Wait \/ NextBlock \/ \E t \in Thread : WakeUp(t)
  PROVE  IInv'
<1> USE DEF IInv
<1>1. CASE Wait
  BY <1>1, QueueAssumption DEF Wait, Shape, Places, Verdicts, Returned, Pending, Thread
<1>2. CASE NextBlock
  <2>1. Pending' = Pending /\ Pending = {}
    BY <1>2 DEF NextBlock, Pending, Returned
  <2>2. \A t \in Thread : batch[t] = {}
    BY <2>1 DEF Pending
  <2>3. \A w \in Worker : pc'[w] = pc[w]
    BY <1>2, QueueAssumption DEF NextBlock, Shape, Thread
  <2>4. pc'[Master] = "adding" /\ fAllOk
    BY <1>2 DEF NextBlock, Shape, Thread, Returned
  <2> QED
    BY <1>2, <2>1, <2>2, <2>3, <2>4 DEF NextBlock, Shape, Places, Verdicts, Returned
<1>3. ASSUME NEW t \in Thread, WakeUp(t) PROVE IInv'
  BY <1>3 DEF WakeUp, Shape, Places, Verdicts, Returned, Pending, Thread
<1> QED
  BY <1>1, <1>2, <1>3

\* IInv holds in every reachable state.
THEOREM QueueInvariance == Spec => []IInv
<1>1. IInv /\ [Next]_vars => IInv'
  <2>1. ASSUME IInv, Next PROVE IInv'
    BY <2>1, AddIInv, ReturnIInv, SleepIInv, TakeIInv, ExecuteIInv, OtherIInv DEF Next, Step
  <2>2. ASSUME IInv, UNCHANGED vars PROVE IInv'
    BY <2>2 DEF vars, IInv, Shape, Places, Verdicts, Returned, Pending
  <2> QED
    BY <2>1, <2>2
<1> QED
  BY InitIInv, <1>1, PTL DEF Spec

\* CCheckQueueControl::Wait returns true exactly if every check added for the block
\* succeeds, whatever the workers' interleaving.
THEOREM ResultExactHolds == Spec => []ResultExact
<1>1. IInv => ResultExact
  BY DEF IInv, Returned, ResultExact
<1> QED
  BY <1>1, QueueInvariance, PTL

\* Nothing of a block is queued, executing or unaccounted for once Wait returned.
THEOREM NothingLeftHolds == Spec => []NothingLeft
<1>1. IInv => NothingLeft
  BY FS_EmptySet DEF IInv, Returned, Places, Pending, NothingLeft
<1> QED
  BY <1>1, QueueInvariance, PTL
=============================================================================
