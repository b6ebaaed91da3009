---------------------------- MODULE MergedMining ----------------------------
(***************************************************************************)
(* The bookkeeping behind the difficulty of merged mining: how many blocks *)
(* of the period were mined with Litecoin's and with Bitcoin's work        *)
(* (count1, count2), the history of those counts and the two difficulties  *)
(* derived from it, all kept in globals of pqcoin.cpp and in text files    *)
(* beside the block chain.                                                 *)
(*                                                                         *)
(* ProcessNewBlock does this after ActivateBestChain, without a lock. One  *)
(* caller is modelled; it writes its files one at a time, and the node may *)
(* go down before, between and in the middle of the writes.                *)
(*                                                                         *)
(* Of a vector or a file with one number to a line, only the length and    *)
(* the last entry matter here; of a difficulty, whether it is the initial  *)
(* one or one that CalculatecoinNextWorkRequired_only_aux computed.        *)
(***************************************************************************)
EXTENDS Integers

CONSTANTS
    Interval,           \* DifficultyAdjustmentInterval(), 2016; also the literal 2016
    CountMod,           \* the counters are of type uint32_t: 2^32
    Needed,             \* entries of the history a retarget looks at: 4
    Jumps,              \* by how much a call of ProcessNewBlock may raise the height
    MaxHeight,          \* bound on the height of the active chain
    MaxCalls,           \* bound on the calls of ProcessNewBlock in a period
    MaxPeriods,         \* bound on the length of the histories
    MaxCrash,           \* bound on the number of restarts
    MaxLost,            \* blocks at the tip a restart may find not flushed
    EMPTY               \* the last entry of an empty vector or file

ASSUME ConstantAssumption ==
    /\ Interval \in Nat \ {0}
    /\ Needed \in Nat /\ Needed >= 2
    /\ Jumps \subseteq Int
    /\ MaxHeight \in Nat
    /\ MaxCalls \in Nat /\ CountMod \in Nat /\ MaxCalls < CountMod
    /\ MaxPeriods \in Nat
    /\ MaxCrash \in Nat
    /\ MaxLost \in Nat
    /\ EMPTY \notin Nat

\* The difficulties: initPowDifficulty, the proof of work limit that
\* newAuxMiningCreateBlock falls back to, and a computed one.
Bits == {"init", "limit", "computed"}

ASSUME BitsAssumption == EMPTY \notin Bits

VARIABLES
    height,             \* chainActive.Height()
    count1, count2,     \* the period's blocks: Litecoin's or no auxiliary work, Bitcoin's
    nLtc, nBtc,         \* sizes of ltc_block_counts and btc_block_counts
    ltcBits, btcBits,   \* last entries of ltc_nBits and btc_nBits
    fCount1, fCount2,   \* the files of count1 and count2
    fnLtc, fnBtc,       \* lengths of the files of the two histories
    fLtcBits, fBtcBits, \* last lines of the files of the two difficulties
    place,              \* where the caller of ProcessNewBlock is
    nHeight,            \* its nHeight
    calls,              \* calls since a period was last recorded
    lost,               \* those of them that left no trace in the counters
    torn,               \* a count was read from a file without one, in this period
    recounted,          \* a restart found the counts of a recorded period on file
    crashes             \* number of restarts

counters == <<count1, count2>>
history == <<nLtc, nBtc>>
bits == <<ltcBits, btcBits>>
files == <<fCount1, fCount2, fnLtc, fnBtc, fLtcBits, fBtcBits>>
ghosts == <<calls, lost, torn, recounted, crashes>>
miningVars == <<height, counters, history, bits, files, place, nHeight, ghosts>>

-----------------------------------------------------------------------------
MiningInit ==
    /\ height = 0
    /\ count1 = 0 /\ count2 = 0
    /\ nLtc = 0 /\ nBtc = 0
    /\ ltcBits = EMPTY /\ btcBits = EMPTY
    /\ fCount1 = EMPTY /\ fCount2 = EMPTY
    /\ fnLtc = 0 /\ fnBtc = 0
    /\ fLtcBits = EMPTY /\ fBtcBits = EMPTY
    /\ place = "idle"
    /\ nHeight = 0
    /\ calls = 0 /\ lost = 0
    /\ torn = FALSE /\ recounted = FALSE
    /\ crashes = 0

\* readToTxtCount: the number in the file. Without one the function ends without
\* a return statement, and the value is whatever the register holds.
ReadCount(f) == IF f = EMPTY THEN 0 .. CountMod - 1 ELSE {f}

\* ProcessNewBlock reads the counters back after a restart; not for the first
\* block and not where a period ends.
Reloads(h) == h # 1 /\ h % Interval # 0 /\ count1 = 0 /\ count2 = 0

\* Mutant: a block without auxiliary work is not counted.
CountedAux(c1, c2, work) ==
    CASE work = "btc" -> <<c1, (c2 + 1) % CountMod>>
      [] work = "ltc" -> <<(c1 + 1) % CountMod, c2>>
      [] OTHER        -> <<c1, c2>>

\* The counters after a block with this work; a block without auxiliary work
\* counts as Litecoin's.
Counted(c1, c2, work) ==
    IF work = "btc" THEN <<c1, (c2 + 1) % CountMod>> ELSE <<(c1 + 1) % CountMod, c2>>

\* The counters start from nothing, whatever is on file.
Forgets(h) == count1 = 0 /\ count2 = 0 /\ ~Reloads(h)

\* ProcessNewBlock, from ActivateBestChain to the counters: the block may extend
\* the chain, complete a longer one, or be one that was there already.
CountNewBlock(jump, work) ==
    /\ place = "idle"
    /\ calls < MaxCalls /\ fnLtc < MaxPeriods
    /\ height + jump \in 0 .. MaxHeight
    /\ height' = height + jump
    /\ nHeight' = height + jump
    /\ \E c1 \in IF Reloads(height + jump) THEN ReadCount(fCount1) ELSE {count1},
          c2 \in IF Reloads(height + jump) THEN ReadCount(fCount2) ELSE {count2} :
          /\ count1' = Counted(c1, c2, work)[1]
          /\ count2' = Counted(c1, c2, work)[2]
    /\ torn' = (torn \/ (Reloads(height + jump) /\ EMPTY \in {fCount1, fCount2}))
    /\ calls' = calls + 1
    /\ lost' = IF Forgets(height + jump) THEN calls ELSE lost
    /\ place' = "save1"
    /\ UNCHANGED <<history, bits, files, recounted, crashes>>

Save1 ==
    /\ place = "save1"
    /\ fCount1' = count1
    /\ place' = "save2"
    /\ UNCHANGED <<height, counters, history, bits, fCount2, fnLtc, fnBtc, fLtcBits,
                   fBtcBits, nHeight, ghosts>>

\* With the counters saved, the period may have ended.
Save2 ==
    /\ place = "save2"
    /\ fCount2' = count2
    /\ place' = IF nHeight % Interval = 0 THEN "push" ELSE "idle"
    /\ UNCHANGED <<height, counters, history, bits, fCount1, fnLtc, fnBtc, fLtcBits,
                   fBtcBits, nHeight, ghosts>>

\* Mutant: only the first history is read back after a restart.
ReloadedLtc == IF nHeight > Interval /\ nLtc = 0 THEN <<fnLtc, nBtc>> ELSE <<nLtc, nBtc>>

\* The histories after the attempt to read them back: both lines assign
\* btc_block_counts, the first one from the file of Litecoin's counts.
Reloaded ==
    LET first == IF nLtc = 0 THEN fnLtc ELSE nBtc
        second == IF first = 0 THEN fnBtc ELSE first
    IN  IF nHeight > Interval THEN <<nLtc, second>> ELSE <<nLtc, nBtc>>

\* The counts of the period enter the histories.
Push ==
    /\ place = "push"
    /\ nLtc' = Reloaded[1] + 1
    /\ nBtc' = Reloaded[2] + 1
    /\ place' = "append1"
    /\ UNCHANGED <<height, counters, bits, files, nHeight, ghosts>>

Append1 ==
    /\ place = "append1"
    /\ fnLtc' = fnLtc + 1
    /\ place' = "append2"
    /\ UNCHANGED <<height, counters, history, bits, fCount1, fCount2, fnBtc, fLtcBits,
                   fBtcBits, nHeight, ghosts>>

Append2 ==
    /\ place = "append2"
    /\ fnBtc' = fnBtc + 1
    /\ place' = "retarget"
    /\ UNCHANGED <<height, counters, history, bits, fCount1, fCount2, fnLtc, fLtcBits,
                   fBtcBits, nHeight, ghosts>>

\* Mutant: without enough history the difficulties are left as they are.
NextBitsNone == IF nLtc >= Needed THEN <<"computed", "computed">> ELSE bits

\* The next difficulties: computed from the last ones and the histories, or the
\* initial ones while there is too little history.
NextBits == IF nLtc >= Needed THEN <<"computed", "computed">> ELSE <<"init", "init">>

Retarget ==
    /\ place = "retarget"
    /\ ltcBits' = NextBits[1]
    /\ btcBits' = NextBits[2]
    /\ place' = "bits1"
    /\ UNCHANGED <<height, counters, history, files, nHeight, ghosts>>

SaveBits1 ==
    /\ place = "bits1"
    /\ fLtcBits' = ltcBits
    /\ place' = "bits2"
    /\ UNCHANGED <<height, counters, history, bits, fCount1, fCount2, fnLtc, fnBtc,
                   fBtcBits, nHeight, ghosts>>

SaveBits2 ==
    /\ place = "bits2"
    /\ fBtcBits' = btcBits
    /\ place' = "reset1"
    /\ UNCHANGED <<height, counters, history, bits, fCount1, fCount2, fnLtc, fnBtc,
                   fLtcBits, nHeight, ghosts>>

\* Mutant: the file keeps the old count.
Reset1Memory ==
    /\ place = "reset1"
    /\ count1' = 0
    /\ count2' = 0
    /\ place' = "reset2"
    /\ UNCHANGED <<height, history, bits, files, nHeight, ghosts>>

Reset1 ==
    /\ place = "reset1"
    /\ count1' = 0
    /\ count2' = 0
    /\ fCount1' = 0
    /\ place' = "reset2"
    /\ UNCHANGED <<height, history, bits, fCount2, fnLtc, fnBtc, fLtcBits, fBtcBits,
                   nHeight, ghosts>>

Reset2 ==
    /\ place = "reset2"
    /\ fCount2' = 0
    /\ calls' = 0 /\ lost' = 0
    /\ torn' = FALSE /\ recounted' = FALSE
    /\ place' = "idle"
    /\ UNCHANGED <<height, counters, history, bits, fCount1, fnLtc, fnBtc, fLtcBits,
                   fBtcBits, nHeight, crashes>>

-----------------------------------------------------------------------------
OrElse(b, default) == IF b = EMPTY THEN default ELSE b

\* CreateNewBlock fills in the difficulties it finds missing: from the files once
\* a period has ended, and then Bitcoin's only if Litecoin's is still missing.
AssemblerBits ==
    IF height + 1 > Interval
    THEN LET ltc == OrElse(ltcBits, fLtcBits)
         IN  <<ltc, IF ltc = EMPTY THEN fBtcBits ELSE btcBits>>
    ELSE <<OrElse(ltcBits, "init"), OrElse(btcBits, "init")>>

\* createauxblock: newAuxMiningCreateBlock with a new template. It then fills in
\* what CreateNewBlock left empty. (A template from the cache was made with both
\* difficulties there, and nothing is left to fill in.)
NewAuxMiningCreateBlock ==
    /\ LET a == AssemblerBits
       IN  /\ ltcBits' = OrElse(a[1], IF nLtc >= Needed THEN fLtcBits ELSE "limit")
           /\ btcBits' = OrElse(a[2], IF nLtc >= Needed THEN fBtcBits ELSE "limit")
    /\ UNCHANGED <<height, counters, history, files, place, nHeight, ghosts>>

\* What a file that is being truncated and written may be left with.
Cut(f, writers) == IF place \in writers THEN {f, EMPTY} ELSE {f}

\* The counts of the period are in a history on file, and the counters not yet reset.
Recorded == place \in {"append2", "retarget", "bits1", "bits2", "reset1", "reset2"}

\* The node goes down, at any moment, and comes up again: the globals start from
\* nothing, and blocks that were not flushed are not on the chain.
Restart ==
    /\ crashes < MaxCrash
    /\ crashes' = crashes + 1
    /\ height' \in {h \in 0 .. height : height - h <= MaxLost}
    /\ fCount1' \in Cut(fCount1, {"save1", "reset1"})
    /\ fCount2' \in Cut(fCount2, {"save2", "reset2"})
    /\ count1' = 0 /\ count2' = 0
    /\ nLtc' = 0 /\ nBtc' = 0
    /\ ltcBits' = EMPTY /\ btcBits' = EMPTY
    /\ place' = "idle"
    /\ nHeight' = 0
    /\ calls' = IF Recorded THEN 0 ELSE calls
    /\ lost' = IF Recorded THEN 0 ELSE IF place \in {"save1", "save2"} THEN lost + 1 ELSE lost
    /\ recounted' = (recounted \/ Recorded)
    /\ UNCHANGED <<fnLtc, fnBtc, fLtcBits, fBtcBits, torn>>

MiningNext ==
    \/ \E jump \in Jumps, work \in {"none", "ltc", "btc"} : CountNewBlock(jump, work)
    \/ Save1 \/ Save2 \/ Push \/ Append1 \/ Append2 \/ Retarget
    \/ SaveBits1 \/ SaveBits2 \/ Reset1 \/ Reset2
    \/ NewAuxMiningCreateBlock
    \/ Restart

MiningSpec == MiningInit /\ [][MiningNext]_miningVars

-----------------------------------------------------------------------------
Count == 0 .. CountMod - 1

MiningTypeOK ==
    /\ height \in 0 .. MaxHeight
    /\ nHeight \in 0 .. MaxHeight
    /\ count1 \in Count /\ count2 \in Count
    /\ nLtc \in Nat /\ nBtc \in Nat
    /\ fnLtc \in Nat /\ fnBtc \in Nat
    /\ fCount1 \in Count \cup {EMPTY} /\ fCount2 \in Count \cup {EMPTY}
    /\ ltcBits \in Bits \cup {EMPTY} /\ btcBits \in Bits \cup {EMPTY}
    /\ fLtcBits \in Bits \cup {EMPTY} /\ fBtcBits \in Bits \cup {EMPTY}
    /\ place \in {"idle", "save1", "save2", "push", "append1", "append2", "retarget",
                  "bits1", "bits2", "reset1", "reset2"}
    /\ calls \in 0 .. MaxCalls /\ lost \in Nat
    /\ torn \in BOOLEAN /\ recounted \in BOOLEAN
    /\ crashes \in 0 .. MaxCrash

\* CalculatecoinNextWorkRequired_only_aux reads the last four entries of both
\* histories when Litecoin's is long enough: Bitcoin's is then long enough too,
\* whatever restarts did to either.
HistoryInRange == place = "retarget" /\ nLtc >= Needed => nBtc >= Needed

\* A computed difficulty starts from an earlier one: btc_nBits.back() and
\* ltc_nBits.back() exist when the retarget reads them.
RetargetHasPrevious ==
    place = "retarget" /\ nLtc >= Needed =>
       OrElse(ltcBits, fLtcBits) # EMPTY /\ OrElse(btcBits, fBtcBits) # EMPTY

\* The counts of the period are sound: since a period was last recorded, no count was
\* read from a file without one, and no restart found recorded counts not yet reset.
Sound == ~torn /\ ~recounted

\* The counts on file, which a restart goes on from, are never more than the calls of
\* ProcessNewBlock since a period was last recorded, whichever writes a crash has cut
\* off, unless it cut off the end of a period or a file was empty; and what that did to
\* the counts is over when the next period is recorded and both are reset.
NoOvercount ==
    Sound /\ EMPTY \notin {fCount1, fCount2} => fCount1 + fCount2 <= calls

\* The counts that ProcessNewBlock enters into the histories are those of its calls
\* since the last entry, over any number of restarts, but for the calls that a crash
\* has cut off before they were saved, and those before a restart after which the
\* counters were not read back.
PeriodCounted == place = "push" /\ Sound => count1 + count2 \in calls - lost .. calls

\* The difficulty is adjusted once in a period of Interval blocks: the counts a
\* retarget works on are those of one period.
PeriodComplete == place = "push" => count1 + count2 = Interval

\* No call is counted in two periods: as NoOvercount, also after a crash between the
\* entry into the histories and the reset.
CountedOnce ==
    ~torn /\ EMPTY \notin {fCount1, fCount2} => fCount1 + fCount2 <= calls

-----------------------------------------------------------------------------
\* Whatever this process has entered into its histories, it also entered
\* difficulties for; the entry in progress excepted.
BitsFollow ==
    /\ nBtc >= nLtc
    /\ nLtc > (IF place \in {"append1", "append2", "retarget"} THEN 1 ELSE 0) =>
          ltcBits # EMPTY /\ btcBits # EMPTY

\* The counters, the files, and any mixture of the two that a restart may leave.
NoMixtureOver ==
    /\ Sound => \A x \in {count1, fCount1} \ {EMPTY}, y \in {count2, fCount2} \ {EMPTY} :
                   x + y <= calls
    /\ place = "reset2" => count1 = 0 /\ count2 = 0 /\ fCount1 = 0

\* How far the files are behind the counters.
FilesFollow ==
    /\ place = "save2" => fCount1 = count1
    /\ \/ place \in {"push", "append1", "append2", "retarget", "bits1", "bits2", "reset1"}
       \/ place = "idle" /\ (count1 # 0 \/ count2 # 0)
       => fCount1 = count1 /\ fCount2 = count2

\* Calls that left a trace are in the counters and, but for the one in progress, in
\* the files and in the mixture that its first write leaves.
NoCallForgotten ==
    Sound =>
       /\ place \in {"save1", "save2", "push", "append1"} => count1 + count2 >= calls - lost
       /\ place \in {"save1", "save2"} /\ fCount2 # EMPTY =>
             \A x \in {count1, fCount1} \ {EMPTY} : x + fCount2 >= calls - 1 - lost
       /\ place = "idle" /\ EMPTY \notin {fCount1, fCount2} => fCount1 + fCount2 >= calls - lost

\* The inductive invariant.
IInv == MiningTypeOK /\ BitsFollow /\ NoMixtureOver /\ FilesFollow /\ NoCallForgotten
=============================================================================
