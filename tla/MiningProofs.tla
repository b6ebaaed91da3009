---------------------------- MODULE MiningProofs ----------------------------
(***************************************************************************)
(* Proofs about merged mining. The difficulty bookkeeping is safe for one  *)
(* caller of ProcessNewBlock, for every period length, every sequence of   *)
(* calls and restarts at every step: the argument is the invariant IInv of *)
(* MergedMining. The template cache is safe under cs_auxblockCache, for    *)
(* any number of threads, tips and templates: the argument is LockInv.     *)
(***************************************************************************)
EXTENDS MergedMining, AuxTemplates, TLAPS

-----------------------------------------------------------------------------
(* The bookkeeping.                                                        *)

USE DEF Bits

\* A counter stays one, and does not wrap below its largest value.
LEMMA CountTypes ==
  ASSUME NEW c1 \in Count, NEW c2 \in Count, NEW work
  PROVE  Counted(c1, c2, work)[1] \in Count /\ Counted(c1, c2, work)[2] \in Count
<1>1. CountMod \in Nat /\ CountMod > 0
  BY ConstantAssumption
<1>2. \A c \in Count : (c + 1) % CountMod \in Count
  BY <1>1 DEF Count
<1> QED
  BY <1>2 DEF Counted

LEMMA CountAddsOne ==
  ASSUME NEW c1 \in Count, NEW c2 \in Count, NEW work, c1 + c2 < CountMod - 1
  PROVE  LET n == Counted(c1, c2, work)
         IN  n[1] >= c1 /\ n[2] >= c2 /\ n[1] + n[2] = c1 + c2 + 1
<1>1. CountMod \in Nat /\ c1 \in Nat /\ c2 \in Nat /\ CountMod > 0
  BY ConstantAssumption DEF Count
<1>2. (c1 + 1) % CountMod = c1 + 1 /\ (c2 + 1) % CountMod = c2 + 1
  BY <1>1
<1> QED
  BY <1>1, <1>2 DEF Counted

\* At the genesis block nothing is counted and nothing is on file.
LEMMA InitIInv == MiningInit => IInv
<1> SUFFICES ASSUME MiningInit PROVE IInv
  OBVIOUS
<1>1. torn \in BOOLEAN /\ recounted \in BOOLEAN
  BY DEF MiningInit
<1>2. /\ height \in 0 .. MaxHeight /\ nHeight \in 0 .. MaxHeight
      /\ calls \in 0 .. MaxCalls /\ crashes \in 0 .. MaxCrash
      /\ count1 \in Count /\ count2 \in Count
  BY ConstantAssumption DEF MiningInit, Count
<1>3. MiningTypeOK
  BY <1>1, <1>2 DEF MiningInit, MiningTypeOK
<1>4. BitsFollow /\ FilesFollow
  BY DEF MiningInit, BitsFollow, FilesFollow
<1>5. NoMixtureOver /\ NoCallForgotten
  BY DEF MiningInit, NoMixtureOver, NoCallForgotten
<1> QED
  BY <1>3, <1>4, <1>5 DEF IInv

\* A call of ProcessNewBlock counts its block on top of counters that hold no more
\* than the calls before it, and no fewer than those that left a trace.
LEMMA CountNewBlockIInv ==
  ASSUME IInv, NEW jump \in Jumps, NEW work \in {"none", "ltc", "btc"},
         CountNewBlock(jump, work)
  PROVE  IInv'
<1> DEFINE h == height + jump
           r == Reloads(h)
<1>0. /\ place = "idle" /\ place' = "save1" /\ calls < MaxCalls /\ calls' = calls + 1
      /\ lost' = (IF Forgets(h) THEN calls ELSE lost)
      /\ torn' = (torn \/ (r /\ EMPTY \in {fCount1, fCount2}))
      /\ UNCHANGED <<fCount1, fCount2, recounted>>
  BY DEF CountNewBlock, files
<1>1. (IF r THEN ReadCount(fCount1) ELSE {count1}) \subseteq Count
      /\ (IF r THEN ReadCount(fCount2) ELSE {count2}) \subseteq Count
  BY ConstantAssumption DEF IInv, MiningTypeOK, ReadCount, Count
<1>2. PICK c1 \in Count, c2 \in Count :
           /\ c1 \in (IF r THEN ReadCount(fCount1) ELSE {count1})
           /\ c2 \in (IF r THEN ReadCount(fCount2) ELSE {count2})
           /\ count1' = Counted(c1, c2, work)[1]
           /\ count2' = Counted(c1, c2, work)[2]
  BY <1>1 DEF CountNewBlock
<1>3. PICK n1 \in Count, n2 \in Count : n1 = count1' /\ n2 = count2'
  BY <1>2, CountTypes
<1>4. MiningTypeOK'
  BY <1>3, ConstantAssumption
  DEF CountNewBlock, IInv, MiningTypeOK, files, bits, history
<1>5. BitsFollow' /\ FilesFollow'
  BY DEF CountNewBlock, IInv, BitsFollow, FilesFollow, bits, history
<1>6. /\ c1 \in Nat /\ c2 \in Nat /\ n1 \in Nat /\ n2 \in Nat /\ calls \in Nat /\ lost \in Nat
      /\ fCount1 \in Nat \cup {EMPTY} /\ fCount2 \in Nat \cup {EMPTY}
      /\ count1 \in Nat /\ count2 \in Nat
  BY ConstantAssumption DEF IInv, MiningTypeOK, Count
<1>7. ASSUME Sound' PROVE Sound /\ (r => fCount1 # EMPTY /\ fCount2 # EMPTY)
  BY <1>0, <1>7 DEF Sound
<1>8. ASSUME Sound' PROVE c1 \in {count1, fCount1} \ {EMPTY} /\ c2 \in {count2, fCount2} \ {EMPTY}
  BY <1>2, <1>6, <1>7, <1>8, ConstantAssumption DEF ReadCount
<1>9. ASSUME Sound'
      PROVE  /\ \A x \in {c1, fCount1} \ {EMPTY}, y \in {c2, fCount2} \ {EMPTY} : x + y <= calls
             /\ n1 \in {c1, c1 + 1} /\ n2 \in {c2, c2 + 1} /\ n1 + n2 = c1 + c2 + 1
  <2>1. \A x \in {count1, fCount1} \ {EMPTY}, y \in {count2, fCount2} \ {EMPTY} : x + y <= calls
    BY <1>7, <1>9 DEF IInv, NoMixtureOver
  <2>2. c1 + c2 < CountMod - 1
    BY <1>0, <1>6, <1>8, <1>9, <2>1, ConstantAssumption
  <2> QED
    BY <1>2, <1>3, <1>6, <1>8, <1>9, <2>1, <2>2, CountAddsOne
<1>10. NoMixtureOver'
  <2>1. SUFFICES ASSUME Sound'
                 PROVE  \A x \in {n1, fCount1} \ {EMPTY},
                           y \in {n2, fCount2} \ {EMPTY} : x + y <= calls + 1
    BY <1>0, <1>3 DEF NoMixtureOver
  <2>2. c1 \in {c1, fCount1} \ {EMPTY} /\ c2 \in {c2, fCount2} \ {EMPTY}
    BY <1>6, ConstantAssumption
  <2>3. ASSUME fCount2 # EMPTY PROVE n1 + fCount2 <= calls + 1
    BY <1>6, <1>9, <2>1, <2>2, <2>3
  <2>4. ASSUME fCount1 # EMPTY PROVE fCount1 + n2 <= calls + 1
    BY <1>6, <1>9, <2>1, <2>2, <2>4
  <2>5. ASSUME fCount1 # EMPTY, fCount2 # EMPTY PROVE fCount1 + fCount2 <= calls + 1
    BY <1>6, <1>9, <2>1, <2>5
  <2>6. n1 + n2 <= calls + 1
    BY <1>6, <1>9, <2>1, <2>2
  <2> QED
    BY <2>3, <2>4, <2>5, <2>6
\* What is counted on, and any mixture with a file, lacks only what was lost.
<1>11. ASSUME Sound', fCount2 # EMPTY, NEW x \in {c1, fCount1} \ {EMPTY}
       PROVE  x + fCount2 >= calls - lost'
  <2>1. CASE Forgets(h)
    BY <1>0, <1>6, <1>11, <2>1
  <2>2. CASE ~Forgets(h)
    <3>1. fCount1 = c1 /\ fCount2 = c2 /\ fCount1 # EMPTY
      BY <1>0, <1>2, <1>6, <1>7, <1>11, <2>2, ConstantAssumption
      DEF Forgets, ReadCount, IInv, FilesFollow
    <3>2. fCount1 + fCount2 >= calls - lost
      BY <1>0, <1>7, <1>11, <3>1 DEF IInv, NoCallForgotten
    <3> QED
      BY <1>0, <1>11, <2>2, <3>1, <3>2
  <2> QED
    BY <2>1, <2>2
<1>12. ASSUME Sound' PROVE c1 + c2 >= calls - lost'
  <2>1. CASE Forgets(h)
    BY <1>0, <1>6, <2>1
  <2>2. CASE ~Forgets(h)
    <3>1. fCount1 = c1 /\ fCount2 = c2
      BY <1>0, <1>2, <1>6, <1>7, <1>12, <2>2, ConstantAssumption
      DEF Forgets, ReadCount, IInv, FilesFollow
    <3> QED
      BY <1>6, <1>11, <1>12, <3>1, ConstantAssumption
  <2> QED
    BY <2>1, <2>2
<1>13. NoCallForgotten'
  <2>1. SUFFICES ASSUME Sound'
                 PROVE  /\ n1 + n2 >= calls + 1 - lost'
                        /\ fCount2 # EMPTY => \A x \in {n1, fCount1} \ {EMPTY} :
                                                 x + fCount2 >= calls - lost'
    <3>1. lost' \in Nat /\ calls' - 1 - lost' = calls - lost' /\ calls' - lost' = calls + 1 - lost'
      BY <1>0, <1>6
    <3> QED
      BY <1>0, <1>3, <3>1 DEF NoCallForgotten
  <2>2. n1 + n2 >= calls + 1 - lost'
    BY <1>0, <1>6, <1>9, <1>12, <2>1
  <2>3. ASSUME fCount2 # EMPTY PROVE n1 + fCount2 >= calls - lost'
    <3>1. c1 + fCount2 >= calls - lost'
      BY <1>6, <1>11, <2>1, <2>3, ConstantAssumption
    <3> QED
      BY <1>0, <1>6, <1>9, <2>1, <2>3, <3>1
  <2>4. ASSUME fCount2 # EMPTY, fCount1 # EMPTY PROVE fCount1 + fCount2 >= calls - lost'
    BY <1>11, <2>1, <2>4
  <2> QED
    BY <2>2, <2>3, <2>4
<1> QED
  BY <1>4, <1>5, <1>10, <1>13 DEF IInv

\* The steps that write a file or move the counts along: each conjunct needs only
\* the step's own assignments.
LEMMA TailIInv ==
  ASSUME IInv,
         Save1 \/ Save2 \/ Push \/ Append1 \/ Append2 \/ Retarget \/ SaveBits1
         \/ SaveBits2 \/ Reset1 \/ Reset2
  PROVE  IInv'
<1> USE ConstantAssumption, BitsAssumption
        DEF IInv, MiningTypeOK, Count, BitsFollow, NoMixtureOver, FilesFollow, NoCallForgotten,
            Sound, counters, history, bits, files, ghosts
<1>1. CASE Save1
  BY <1>1 DEF Save1
<1>2. CASE Save2
  BY <1>2 DEF Save2
<1>3. CASE Push
  <2>1. /\ nLtc' = nLtc + 1 /\ nBtc' \in Nat /\ nBtc' >= nLtc'
    BY <1>3 DEF Push, Reloaded
  <2> QED
    BY <1>3, <2>1 DEF Push
<1>4. CASE Append1
  BY <1>4 DEF Append1
<1>5. CASE Append2
  BY <1>5 DEF Append2
<1>6. CASE Retarget
  BY <1>6 DEF Retarget, NextBits
<1>7. CASE SaveBits1
  BY <1>7 DEF SaveBits1
<1>8. CASE SaveBits2
  BY <1>8 DEF SaveBits2
<1>9. CASE Reset1
  BY <1>9 DEF Reset1
<1>10. CASE Reset2
  <2>1. /\ count1' = 0 /\ count2' = 0 /\ fCount1' = 0 /\ fCount2' = 0 /\ place' = "idle"
        /\ calls' = 0 /\ lost' = 0 /\ torn' = FALSE /\ recounted' = FALSE
    BY <1>10 DEF Reset2
  <2>2. torn' \in BOOLEAN /\ recounted' \in BOOLEAN
    BY Zenon, <2>1
  <2>3. MiningTypeOK'
    BY <1>10, <2>1, <2>2 DEF Reset2
  <2>4. BitsFollow'
    BY <1>10 DEF Reset2
  <2> QED
    BY <2>1, <2>3, <2>4
<1> QED
  BY <1>1, <1>2, <1>3, <1>4, <1>5, <1>6, <1>7, <1>8, <1>9, <1>10

\* createauxblock only fills in missing difficulties.
LEMMA NewAuxMiningCreateBlockIInv == ASSUME IInv, NewAuxMiningCreateBlock PROVE IInv'
<1>1. MiningTypeOK' /\ BitsFollow'
  BY ConstantAssumption, BitsAssumption
  DEF IInv, MiningTypeOK, BitsFollow, NewAuxMiningCreateBlock,
      AssemblerBits, OrElse, counters, history, files, ghosts
<1>2. NoMixtureOver' /\ FilesFollow' /\ NoCallForgotten'
  BY DEF IInv, NoMixtureOver, FilesFollow, NoCallForgotten, Sound, NewAuxMiningCreateBlock,
         counters, files, ghosts
<1> QED
  BY <1>1, <1>2 DEF IInv

\* A restart forgets the globals and may leave a count file empty.
LEMMA RestartIInv == ASSUME IInv, Restart PROVE IInv'
<1> USE ConstantAssumption, BitsAssumption DEF IInv, MiningTypeOK
<1>1. /\ fCount1' \in {fCount1, EMPTY} /\ fCount2' \in {fCount2, EMPTY}
      /\ count1' = 0 /\ count2' = 0 /\ nLtc' = 0 /\ nBtc' = 0 /\ place' = "idle"
      /\ torn' = torn /\ recounted' = (recounted \/ Recorded)
      /\ calls' = (IF Recorded THEN 0 ELSE calls)
      /\ lost' = (IF Recorded THEN 0 ELSE IF place \in {"save1", "save2"} THEN lost + 1 ELSE lost)
  BY DEF Restart, Cut
<1>2. MiningTypeOK'
  BY <1>1 DEF Restart, Count
<1>3. BitsFollow' /\ FilesFollow'
  BY <1>1 DEF BitsFollow, FilesFollow
<1>4. ASSUME Sound' PROVE Sound /\ ~Recorded /\ calls' = calls
  BY <1>1, <1>4 DEF Sound
<1>5. NoMixtureOver'
  BY <1>1, <1>4 DEF NoMixtureOver, Count
<1>6. NoCallForgotten'
  <2>1. SUFFICES ASSUME Sound', fCount1 # EMPTY, fCount2 # EMPTY,
                        fCount1' = fCount1, fCount2' = fCount2
                 PROVE  fCount1 + fCount2 >= calls - lost'
    BY <1>1, <1>4 DEF NoCallForgotten
  <2>2. place \in {"idle", "save1", "save2", "push", "append1"}
    BY <1>4, <2>1 DEF Recorded
  <2>3. fCount1 \in Nat /\ fCount2 \in Nat /\ calls \in Nat /\ lost \in Nat
    BY <2>1 DEF Count
  <2>4. CASE place \in {"save1", "save2"}
    <3>1. fCount1 + fCount2 >= calls - 1 - lost
      BY <1>4, <2>1, <2>4 DEF NoCallForgotten
    <3>2. lost' = lost + 1
      BY <1>1, <1>4, <2>1, <2>4
    <3> QED
      BY <2>3, <3>1, <3>2
  <2>5. CASE place = "idle"
    BY <1>1, <1>4, <2>1, <2>5 DEF NoCallForgotten
  <2>6. CASE place \in {"push", "append1"}
    BY <1>1, <1>4, <2>1, <2>6 DEF NoCallForgotten, FilesFollow
  <2> QED
    BY <2>2, <2>4, <2>5, <2>6
<1> QED
  BY <1>2, <1>3, <1>5, <1>6

\* IInv holds in every reachable state.
THEOREM MiningInvariance == MiningSpec => []IInv
<1>1. IInv /\ [MiningNext]_miningVars => IInv'
  <2>1. ASSUME IInv, MiningNext PROVE IInv'
    BY <2>1, CountNewBlockIInv, TailIInv, NewAuxMiningCreateBlockIInv, RestartIInv DEF MiningNext
  <2>2. ASSUME IInv, UNCHANGED miningVars PROVE IInv'
    BY <2>2 DEF miningVars, counters, history, bits, files, ghosts, IInv, MiningTypeOK,
                BitsFollow, NoMixtureOver, FilesFollow, NoCallForgotten, Sound
  <2> QED
    BY <2>1, <2>2
<1> QED
  BY InitIInv, <1>1, PTL DEF MiningSpec

\* The retarget at the end of a period never reads a history out of range: where
\* CalculatecoinNextWorkRequired_only_aux takes the last four entries of both, both
\* have four.
THEOREM HistoryInRangeHolds == MiningSpec => []HistoryInRange
<1>1. IInv => HistoryInRange
  BY ConstantAssumption DEF IInv, MiningTypeOK, BitsFollow, HistoryInRange
<1> QED
  BY <1>1, MiningInvariance, PTL

\* The counts that ProcessNewBlock enters into the histories are those of its calls
\* since the last entry, but for the calls that a crash or a restart made it forget.
THEOREM PeriodCountedHolds == MiningSpec => []PeriodCounted
<1>1. IInv => PeriodCounted
  <2> SUFFICES ASSUME IInv, place = "push", Sound PROVE count1 + count2 \in calls - lost .. calls
    BY DEF PeriodCounted
  <2>1. count1 \in Nat /\ count2 \in Nat /\ calls \in Nat /\ lost \in Nat
    BY ConstantAssumption DEF IInv, MiningTypeOK, Count
  <2>2. count1 + count2 >= calls - lost /\ count1 + count2 <= calls
    BY <2>1, ConstantAssumption DEF IInv, NoMixtureOver, NoCallForgotten
  <2> QED
    BY <2>1, <2>2
<1> QED
  BY <1>1, MiningInvariance, PTL

\* A retarget always has a previous difficulty to start from.
THEOREM RetargetHasPreviousHolds == MiningSpec => []RetargetHasPrevious
<1>1. IInv => RetargetHasPrevious
  BY ConstantAssumption DEF IInv, MiningTypeOK, BitsFollow, RetargetHasPrevious, OrElse
<1> QED
  BY <1>1, MiningInvariance, PTL

\* The counts on file, which ProcessNewBlock goes on from after a restart, never exceed
\* its calls since a period was last recorded, unless a crash cut off the end of one or
\* left a file empty.
THEOREM NoOvercountHolds == MiningSpec => []NoOvercount
<1>1. IInv => NoOvercount
  BY DEF IInv, NoMixtureOver, NoOvercount
<1> QED
  BY <1>1, MiningInvariance, PTL

-----------------------------------------------------------------------------
(* The template cache.                                                     *)

Busy(t) == pc[t] # "idle"

Types ==
    /\ pc \in [Thread -> {"idle", "update", "answer", "set", "copy"}]
    /\ call \in [Thread -> Creation \cup Submission \cup {None}]
    /\ blk \in [Thread -> Template \cup {None}]
    /\ auxpow \in [Template -> Thread \cup {None}]
    /\ base \in [Template -> Tip \cup {None}]
    /\ prev \in [Creation -> Tip \cup {None}]
    /\ tip \in Tip
    /\ owned \subseteq Template
    /\ pblock \in Template \cup {None}
    /\ made \in 0 .. MaxTemplates

\* A call that goes on is one of the two that lock, by the thread with the lock.
Exclusive ==
    /\ \A t \in Thread : Busy(t) => cs_auxblockCache = t
    /\ \A t \in Thread : pc[t] \in {"update", "answer"} => call[t] = "getauxblock"

\* The static pblock of getauxblock is owned, and builds on its pindexPrev.
StaticKept ==
    prev["getauxblock"] # None =>
       pblock \in owned /\ base[pblock] = prev["getauxblock"]

\* What a call points to.
PointersKept ==
    \A t \in Thread :
       /\ pc[t] = "answer" => blk[t] = pblock /\ prev["getauxblock"] # None
       /\ pc[t] \in {"set", "copy"} => blk[t] \in owned
       /\ pc[t] = "copy" => auxpow[blk[t]] = t

\* Templates for this tip are out only after getauxblock has seen the tip.
HandedForPrev ==
    /\ handed \subseteq owned
    /\ handed # {} => prev["getauxblock"] = tip

LockInv == Types /\ Exclusive /\ StaticKept /\ PointersKept /\ HandedForPrev

\* The deployment never changes.
LEMMA SameDeployment == [Next]_vars => deployment' = deployment
BY DEF Next, vars, GetAuxBlock, Reuse, Answer, CreateAuxBlock, Create, CreateFails, Find,
       SetAuxpow, ProcessNewBlock, NewTip

LEMMA InitLock == Init => LockInv
<1>. SUFFICES ASSUME Init PROVE LockInv
  OBVIOUS
<1>1. Types
  BY TemplatesAssumption DEF Init, Types, Creation
<1>2. Exclusive /\ PointersKept
  BY DEF Init, Exclusive, PointersKept, Busy
<1>3. StaticKept /\ HandedForPrev
  BY DEF Init, StaticKept, HandedForPrev, Creation
<1>. QED  BY <1>1, <1>2, <1>3 DEF LockInv

\* What is wanted follows.
LEMMA LockKeeps == LockInv => TemplatesKept /\ HandedOutKnown
BY DEF LockInv, StaticKept, PointersKept, HandedForPrev, TemplatesKept, HandedOutKnown

-----------------------------------------------------------------------------
(* Steps.                                                                  *)

\* A call that locks begins, at p.
LEMMA BeginStep ==
    ASSUME LockInv, NEW t \in Thread, NEW c \in Creation \cup Submission,
           NEW p \in {"update", "set"}, Begin(t, c, p),
           p = "update" => c = "getauxblock",
           cs_auxblockCache = None, cs_auxblockCache' = t,
           blk' \in [Thread -> Template \cup {None}], p = "set" => blk'[t] \in owned,
           \A s \in Thread \ {t} : blk'[s] = blk[s],
           UNCHANGED <<tip, templates, auxpow, handed>>
    PROVE  LockInv'
<1>1. \A s \in Thread : pc[s] = "idle"
  BY TemplatesAssumption DEF LockInv, Exclusive, Busy
<1>2. /\ pc' \in [Thread -> {"idle", "update", "answer", "set", "copy"}]
      /\ call' \in [Thread -> Creation \cup Submission \cup {None}]
      /\ pc'[t] = p /\ call'[t] = c /\ \A s \in Thread \ {t} : pc'[s] = "idle"
  BY <1>1 DEF Begin, LockInv, Types
<1>3. Types'
  BY <1>2 DEF LockInv, Types, templates
<1>4. Exclusive'
  BY <1>2 DEF Exclusive, Busy
<1>5. StaticKept' /\ HandedForPrev'
  BY DEF LockInv, StaticKept, HandedForPrev, templates
<1>6. PointersKept'
  BY <1>2 DEF PointersKept, templates
<1>. QED  BY <1>3, <1>4, <1>5, <1>6 DEF LockInv

\* The thread with the lock goes on or returns, and the others stay idle.
LEMMA OthersIdle ==
    ASSUME LockInv, NEW t \in Thread, Busy(t)
    PROVE  /\ cs_auxblockCache = t
           /\ \A s \in Thread \ {t} : pc[s] = "idle"
BY DEF LockInv, Exclusive, Busy

LEMMA ReturnStep ==
    ASSUME LockInv, NEW t \in Thread, Busy(t), Return(t),
           blk' = [blk EXCEPT ![t] = None], UNCHANGED <<templates, auxpow>>,
           tip' \in Tip, handed' \subseteq owned,
           handed' # {} => prev["getauxblock"] = tip'
    PROVE  LockInv'
<1>1. \A s \in Thread : pc'[s] = "idle"
  BY OthersIdle DEF Return, LockInv, Types
<1>2. Types'
  BY DEF LockInv, Types, Return, templates
<1>3. Exclusive' /\ PointersKept'
  BY <1>1 DEF Exclusive, PointersKept, Busy
<1>4. StaticKept' /\ HandedForPrev'
  BY DEF LockInv, StaticKept, HandedForPrev, templates
<1>. QED  BY <1>2, <1>3, <1>4 DEF LockInv

LEMMA ReuseStep ==
    ASSUME LockInv, NEW t \in Thread, Reuse(t)
    PROVE  LockInv'
<1>1. /\ pc[t] = "update" /\ call[t] = "getauxblock" /\ Busy(t)
      /\ pc' = [pc EXCEPT ![t] = "answer"] /\ blk' = [blk EXCEPT ![t] = pblock]
      /\ prev["getauxblock"] = tip
      /\ UNCHANGED <<tip, templates, auxpow, cs_auxblockCache, call, handed>>
  BY DEF Reuse, MustCreate, Cached, LockInv, Exclusive, Busy
<1>2. \A s \in Thread \ {t} : pc'[s] = "idle"
  BY <1>1, OthersIdle DEF LockInv, Types
<1>3. pc'[t] = "answer" /\ blk'[t] = pblock
  BY <1>1 DEF LockInv, Types
<1>4. Types'
  BY <1>1 DEF LockInv, Types, templates
<1>5. Exclusive'
  BY <1>1, <1>2, <1>3, OthersIdle DEF Exclusive, Busy
<1>6. StaticKept' /\ HandedForPrev'
  BY <1>1 DEF LockInv, StaticKept, HandedForPrev, templates
<1>7. prev["getauxblock"] # None
  BY <1>1, TemplatesAssumption DEF LockInv, Types
<1>8. PointersKept'
  BY <1>1, <1>2, <1>3, <1>7 DEF PointersKept, templates
<1>. QED  BY <1>4, <1>5, <1>6, <1>8 DEF LockInv

LEMMA CreateStep ==
    ASSUME LockInv, NEW t \in Thread, NEW stale \in BOOLEAN, Create(t, stale)
    PROVE  LockInv'
<1>. DEFINE b == made + 1
<1>1. /\ pc[t] = "update" /\ call[t] = "getauxblock" /\ Busy(t)
      /\ pc' = [pc EXCEPT ![t] = "answer"] /\ blk' = [blk EXCEPT ![t] = b]
      /\ made < MaxTemplates /\ made' = b
      /\ base' = [base EXCEPT ![b] = tip]
      /\ owned' = Kept(t) \cup {b}
      /\ prev' = [prev EXCEPT !["getauxblock"] = tip]
      /\ UNCHANGED <<tip, auxpow, cs_auxblockCache, call, handed>>
  BY DEF Create, LockInv, Exclusive, Busy
<1>2. b \in Template /\ b \in 0 .. MaxTemplates /\ b # None
  <2>1. made \in 0 .. MaxTemplates /\ made < MaxTemplates
    BY <1>1 DEF LockInv, Types
  <2>2. MaxTemplates \in Nat /\ None \notin Template
    BY TemplatesAssumption
  <2>3. b \in 1 .. MaxTemplates /\ b \in 0 .. MaxTemplates
    BY <2>1, <2>2
  <2>. QED  BY <2>2, <2>3 DEF Template
<1>3. pblock' = b
  BY <1>1, <1>2 DEF Create, SaveOwn
<1>4. \A s \in Thread \ {t} : pc'[s] = "idle"
  BY <1>1, OthersIdle DEF LockInv, Types
<1>5. /\ pc'[t] = "answer" /\ blk'[t] = b /\ base'[b] = tip
      /\ prev'["getauxblock"] = tip /\ tip # None
  BY <1>1, <1>2, TemplatesAssumption DEF LockInv, Types, Creation
<1>6. Kept(t) \subseteq owned /\ (handed # {} => Kept(t) = owned)
  BY <1>1 DEF Kept, LockInv, HandedForPrev
<1>7. Types'
  <2>1. owned' \subseteq Template /\ made' \in 0 .. MaxTemplates /\ pblock' \in Template
    BY <1>1, <1>2, <1>3, <1>6 DEF LockInv, Types
  <2>2. /\ pc' \in [Thread -> {"idle", "update", "answer", "set", "copy"}]
        /\ blk' \in [Thread -> Template \cup {None}]
        /\ base' \in [Template -> Tip \cup {None}]
        /\ prev' \in [Creation -> Tip \cup {None}]
    BY <1>1, <1>2 DEF LockInv, Types
  <2>. QED  BY <1>1, <2>1, <2>2 DEF LockInv, Types
<1>8. Exclusive'
  BY <1>1, <1>4, OthersIdle DEF Exclusive, Busy
<1>9. StaticKept'
  BY <1>1, <1>3, <1>5 DEF StaticKept
<1>10. HandedForPrev'
  BY <1>1, <1>5, <1>6 DEF LockInv, HandedForPrev
<1>11. PointersKept'
  BY <1>3, <1>4, <1>5 DEF PointersKept
<1>. QED  BY <1>7, <1>8, <1>9, <1>10, <1>11 DEF LockInv

LEMMA SetStep ==
    ASSUME LockInv, NEW t \in Thread, SetAuxpow(t)
    PROVE  LockInv'
<1>1. /\ pc[t] = "set" /\ Busy(t) /\ blk[t] \in owned
      /\ pc' = [pc EXCEPT ![t] = "copy"] /\ auxpow' = [auxpow EXCEPT ![blk[t]] = t]
      /\ UNCHANGED <<tip, templates, cs_auxblockCache, call, blk, handed>>
  BY DEF SetAuxpow, LockInv, PointersKept, Busy
<1>2. \A s \in Thread \ {t} : pc'[s] = "idle"
  BY <1>1, OthersIdle DEF LockInv, Types
<1>3. pc'[t] = "copy" /\ blk[t] \in Template /\ auxpow'[blk[t]] = t
  BY <1>1 DEF LockInv, Types
<1>4. Types'
  BY <1>1, <1>3 DEF LockInv, Types, templates
<1>5. Exclusive'
  BY <1>1, <1>2, <1>3, OthersIdle DEF Exclusive, Busy
<1>6. StaticKept' /\ HandedForPrev'
  BY <1>1 DEF LockInv, StaticKept, HandedForPrev, templates
<1>7. PointersKept'
  BY <1>1, <1>2, <1>3 DEF PointersKept, templates
<1>. QED  BY <1>4, <1>5, <1>6, <1>7 DEF LockInv

LEMMA StepLock == UnderLock /\ LockInv /\ [Next]_vars => LockInv'
<1>. SUFFICES ASSUME UnderLock, LockInv, [Next]_vars PROVE LockInv'
  OBVIOUS
<1>1. ASSUME NEW t \in Thread, GetAuxBlock(t) PROVE LockInv'
  <2>1. blk' = blk /\ "getauxblock" \in Creation \cup Submission
    BY <1>1 DEF GetAuxBlock, Creation
  <2>2. blk' \in [Thread -> Template \cup {None}]
    BY <2>1 DEF LockInv, Types
  <2>. QED  BY <1>1, <2>1, <2>2, BeginStep DEF GetAuxBlock
<1>2. ASSUME NEW t \in Thread, Reuse(t) PROVE LockInv'
  BY <1>2, ReuseStep
<1>3. ASSUME NEW t \in Thread, Answer(t) PROVE LockInv'
  <2>1. /\ Busy(t) /\ pc[t] = "answer" /\ blk[t] = pblock /\ pblock \in owned
        /\ base[pblock] = prev["getauxblock"]
    BY <1>3 DEF Answer, Busy, LockInv, PointersKept, StaticKept
  <2>2. handed' \subseteq owned /\ (handed' # {} => prev["getauxblock"] = tip)
    BY <1>3, <2>1 DEF Answer, LockInv, HandedForPrev
  <2>3. tip' = tip /\ tip \in Tip
    BY <1>3 DEF Answer, LockInv, Types
  <2>. QED  BY <1>3, <2>1, <2>2, <2>3, ReturnStep DEF Answer
<1>4. ASSUME NEW t \in Thread, NEW s \in Script, CreateAuxBlock(t, s) PROVE FALSE
  BY <1>4 DEF CreateAuxBlock, Begin, UnderLock
<1>5. ASSUME NEW t \in Thread, NEW stale \in BOOLEAN, Create(t, stale) PROVE LockInv'
  BY <1>5, CreateStep
<1>6. ASSUME NEW t \in Thread, NEW stale \in BOOLEAN, CreateFails(t, stale) PROVE FALSE
  BY <1>6 DEF CreateFails, UnderLock
<1>7. ASSUME NEW t \in Thread, NEW c \in Submission, NEW b \in Template, Find(t, c, b) PROVE LockInv'
  <2>1. c = "submitauxblock" /\ c # "SubmitAuxBlock" /\ c \in Creation \cup Submission
    BY <1>7 DEF Find, Begin, UnderLock, Submission
  <2>2. cs_auxblockCache = None /\ cs_auxblockCache' = t
    BY <1>7, <2>1 DEF Find
  <2>3. /\ blk' \in [Thread -> Template \cup {None}] /\ blk'[t] \in owned
        /\ \A s \in Thread \ {t} : blk'[s] = blk[s]
    BY <1>7 DEF Find, LockInv, Types
  <2>. QED  BY <1>7, <2>1, <2>2, <2>3, BeginStep DEF Find
<1>8. ASSUME NEW t \in Thread, SetAuxpow(t) PROVE LockInv'
  BY <1>8, SetStep
<1>9. ASSUME NEW t \in Thread, ProcessNewBlock(t) PROVE LockInv'
  <2>1. Busy(t)
    BY <1>9 DEF ProcessNewBlock, Busy
  <2>2. handed' \subseteq owned /\ (handed' # {} => prev["getauxblock"] = tip')
    BY <1>9 DEF ProcessNewBlock, LockInv, HandedForPrev
  <2>. QED  BY <1>9, <2>1, <2>2, ReturnStep DEF ProcessNewBlock
<1>10. CASE NewTip \/ UNCHANGED vars
  <2>1. /\ UNCHANGED <<templates, auxpow, cs_auxblockCache, pc, call, blk>>
        /\ tip' \in Tip /\ (handed' = {} \/ (handed' = handed /\ tip' = tip))
    BY <1>10 DEF NewTip, vars, LockInv, Types
  <2>2. Types'
    BY <2>1 DEF LockInv, Types, templates
  <2>3. Exclusive'
    BY <2>1 DEF LockInv, Exclusive, Busy
  <2>4. StaticKept' /\ PointersKept'
    BY <2>1 DEF LockInv, StaticKept, PointersKept, templates
  <2>5. HandedForPrev'
    BY <2>1 DEF LockInv, HandedForPrev, templates
  <2>. QED  BY <2>2, <2>3, <2>4, <2>5 DEF LockInv
<1>. QED  BY <1>1, <1>2, <1>3, <1>4, <1>5, <1>6, <1>7, <1>8, <1>9, <1>10 DEF Next

LEMMA LockInvHolds == Spec => [](UnderLock => LockInv)
<1>1. Init => (UnderLock => LockInv)
  BY InitLock
<1>2. (UnderLock => LockInv) /\ [Next]_vars => (UnderLock => LockInv)'
  <2>. SUFFICES ASSUME UnderLock => LockInv, [Next]_vars, UnderLock' PROVE LockInv'
    OBVIOUS
  <2>1. UnderLock
    BY SameDeployment DEF UnderLock
  <2>. QED  BY <2>1, StepLock
<1>. QED  BY <1>1, <1>2, PTL DEF Spec

\* While every call takes cs_auxblockCache and CreateNewBlock does not fail, no call
\* of getauxblock or submitauxblock touches a freed template, and a submission
\* processes the proof of work it was given: for any number of threads, templates and
\* changes of the tip.
THEOREM LockKeepsTemplates == Spec => [](UnderLock => TemplatesKept)
  BY LockInvHolds, LockKeeps, PTL

\* Under the same conditions a template that getauxblock handed out for the current tip
\* stays known to submitauxblock, whichever calls other threads make in between.
THEOREM HandedOutKnownHolds == Spec => [](UnderLock => HandedOutKnown)
  BY LockInvHolds, LockKeeps, PTL
=============================================================================
