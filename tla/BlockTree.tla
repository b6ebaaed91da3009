------------------------------ MODULE BlockTree ------------------------------
(***************************************************************************)
(* The block index and the activation of the best chain: mapBlockIndex,    *)
(* setBlockIndexCandidates, mapBlocksUnlinked, gFailedBlocks and           *)
(* chainActive of validation.cpp, with the operations that change them.    *)
(*                                                                         *)
(* Every operation of the code runs under cs_main and is one action here,  *)
(* except ActivateBestChain, which gives the lock up after every           *)
(* ActivateBestChainStep: its loop is a small program run by a thread,     *)
(* and the candidate it is working towards (pindexMostWork) is local to    *)
(* that thread and survives the time the lock is free.                     *)
(*                                                                         *)
(* The tree of all block headers that can ever be received is a constant;  *)
(* the state says which of them the node knows, and what it knows of each. *)
(***************************************************************************)
EXTENDS Integers, FiniteSets

CONSTANTS
    Block,              \* the block headers; a number stands for the address of a CBlockIndex
    Genesis,            \* the genesis block
    Parent,             \* hashPrevBlock of every other block
    Work,               \* nChainWork of every block
    BadContext,         \* blocks that CheckBlock or ContextualCheckBlock refuses
    BadConnect,         \* blocks that ConnectBlock refuses
    MinBlocksToKeep,    \* MIN_BLOCKS_TO_KEEP
    Thread,             \* threads that call into validation: message handler, RPC workers
    Rpc,                \* which of the operator's commands are used
    MaxSeq,             \* bound on nBlockSequenceId
    MaxPrecious,        \* minus the smallest int32_t, where nBlockReverseSequenceId stops
    NULL

ASSUME TreeAssumption ==
    /\ Block \subseteq Nat
    /\ Genesis \in Block
    /\ Parent \in [Block \ {Genesis} -> Block]
    /\ Work \in [Block -> Nat]
    /\ \A b \in Block \ {Genesis} : Work[Parent[b]] < Work[b]

ASSUME VerdictAssumption ==
    /\ BadContext \subseteq Block \ {Genesis}
    /\ BadConnect \subseteq Block \ {Genesis}

ASSUME BoundAssumption ==
    /\ MinBlocksToKeep \in Nat
    /\ MaxSeq \in Nat
    /\ MaxPrecious \in Nat \ {0}
    /\ NULL \notin Block
    /\ Rpc \subseteq {"invalidate", "reconsider", "precious", "prune"}

VARIABLES
    index,              \* mapBlockIndex
    nTx,                \* blocks with nTx # 0, equivalently BLOCK_VALID_TRANSACTIONS
    haveData,           \* BLOCK_HAVE_DATA
    scripts,            \* BLOCK_VALID_SCRIPTS
    failedValid,        \* BLOCK_FAILED_VALID
    failedChild,        \* BLOCK_FAILED_CHILD
    linked,             \* blocks with nChainTx # 0
    seq,                \* nSequenceId
    candidates,         \* setBlockIndexCandidates
    unlinked,           \* the second components of mapBlocksUnlinked
    gFailed,            \* gFailedBlocks
    tip,                \* chainActive.Tip()
    nextSeq,            \* nBlockSequenceId
    nextPrecious,       \* nBlockReverseSequenceId
    lastPreciousWork,   \* nLastPreciousChainwork
    lastFile,           \* the block stored last, hence in the last block file
    pc,                 \* per thread: where it is in ActivateBestChain
    mostWork,           \* per thread: pindexMostWork
    aborted             \* AbortNode was called, the node is going down

status == <<nTx, haveData, scripts, linked>>
failure == <<failedValid, failedChild, gFailed>>
sequence == <<seq, nextSeq, nextPrecious, lastPreciousWork>>
control == <<pc, mostWork>>
vars == <<index, status, failure, sequence, candidates, unlinked, tip,
          lastFile, control, aborted>>

-----------------------------------------------------------------------------
(* The tree. *)

\* A block and all its ancestors: what pprev, pskip and GetAncestor walk over.
\* The smallest set that holds b and the parent of each of its members.
Anc == [b \in Block |->
          {a \in Block : \A S \in SUBSET Block :
             (b \in S /\ \A x \in S \ {Genesis} : Parent[x] \in S) => a \in S}]

Height == [b \in Block |-> Cardinality(Anc[b]) - 1]

failed == failedValid \cup failedChild

\* Mutant: the arrival time decides before the work does.
WorseByArrival(s, a, b) == s[a] < s[b] \/ (s[a] = s[b] /\ Work[a] < Work[b])

\* CBlockIndexWorkComparator: a sorts before b under the sequence numbers s.
Worse(s, a, b) ==
    \/ Work[a] < Work[b]
    \/ Work[a] = Work[b] /\ s[a] > s[b]
    \/ Work[a] = Work[b] /\ s[a] = s[b] /\ a > b

\* c is the last element of setBlockIndexCandidates.
IsBest(c) == c \in candidates /\ \A d \in candidates \ {c} : Worse(seq, d, c)

\* cs_main is held across actions only by a thread inside FindMostWorkChain.
Locked == \E t \in Thread : pc[t] = "find"

\* Thread t may take cs_main to start something new.
Free(t) == pc[t] = "idle" /\ ~Locked /\ ~aborted

-----------------------------------------------------------------------------
Init ==
    /\ index = {Genesis}
    /\ nTx = {Genesis}
    /\ haveData = {Genesis}
    /\ scripts = {}
    /\ linked = {Genesis}
    /\ failedValid = {}
    /\ failedChild = {}
    /\ gFailed = {}
    /\ seq = [b \in Block |-> IF b = Genesis THEN 1 ELSE 0]
    /\ nextSeq = 2
    /\ nextPrecious = -1
    /\ lastPreciousWork = 0
    /\ candidates = {Genesis}
    /\ unlinked = {}
    /\ tip = Genesis
    /\ lastFile = Genesis
    /\ pc = [t \in Thread |-> "idle"]
    /\ mostWork = [t \in Thread |-> NULL]
    /\ aborted = FALSE

-----------------------------------------------------------------------------
(* Headers and blocks from the network. *)

\* Mutant: GetAncestor is not asked whether the failed block is below p.
FailedAnywhere(p) == IF p \in scripts THEN {} ELSE gFailed

\* The failed blocks AcceptBlockHeader looks for below a new header's parent:
\* the walk is skipped when the parent is known to be valid to the scripts.
FailedBelow(p) == IF p \in scripts THEN {} ELSE gFailed \cap Anc[p]

\* AcceptBlockHeader, AddToBlockIndex: a new header whose parent is known and
\* not failed, and above none of the blocks in gFailedBlocks.
AcceptBlockHeader(t, b) ==
    /\ Free(t)
    /\ b \in Block \ index
    /\ Parent[b] \in index \ failed
    /\ FailedBelow(Parent[b]) = {}
    /\ index' = index \cup {b}
    /\ UNCHANGED <<status, failure, sequence, candidates, unlinked, tip,
                   lastFile, control, aborted>>

\* AcceptBlockHeader refuses a header above a block of gFailedBlocks, and marks
\* what lies between as descending from a failed block. It asserts that the block
\* is still marked itself: the node goes down if it is not.
RejectBlockHeader(t, b) ==
    /\ Free(t)
    /\ b \in Block \ index
    /\ Parent[b] \in index \ failed
    /\ \E f \in FailedBelow(Parent[b]) :
          \/ /\ f \in failedValid
             /\ failedChild' = failedChild \cup (Anc[Parent[b]] \ Anc[f])
             /\ UNCHANGED aborted
          \/ /\ f \notin failedValid
             /\ aborted' = TRUE
             /\ UNCHANGED failedChild
    /\ UNCHANGED <<index, status, failedValid, gFailed, sequence, candidates,
                   unlinked, tip, lastFile, control>>

\* Whether AcceptBlock goes on to store a block it has no data for.
Wanted(b, fRequested) ==
    \/ fRequested
    \/ /\ b \notin nTx
       /\ Work[b] > Work[tip]
       /\ Height[b] <= Height[tip] + MinBlocksToKeep

\* Mutant: the blocks waiting in mapBlocksUnlinked are not looked up.
LinkableAlone(b) == {b}

\* The blocks ReceivedBlockTransactions links when b is linked: b and whatever
\* mapBlocksUnlinked holds above it without a gap.
Linkable(b) == {x \in index : b \in Anc[x] /\ Anc[x] \ Anc[b] \subseteq unlinked}

\* The numbers the breadth-first queue of ReceivedBlockTransactions can give to
\* the blocks of L: level by level, the children of an earlier block first.
Numberings(L) ==
    {n \in [L -> nextSeq .. nextSeq + Cardinality(L) - 1] :
       \A x, y \in L :
          /\ x # y => n[x] # n[y]
          /\ Height[x] < Height[y] => n[x] < n[y]
          /\ x # y /\ Height[x] = Height[y] /\ n[Parent[x]] < n[Parent[y]]
                => n[x] < n[y]}

\* Mutant: only the block that arrived becomes a candidate.
LinkBlockAlone(b) ==
    /\ linked' = linked \cup Linkable(b)
    /\ nextSeq' = nextSeq + Cardinality(Linkable(b))
    /\ \E n \in Numberings(Linkable(b)) :
          seq' = [x \in Block |-> IF x \in Linkable(b) THEN n[x] ELSE seq[x]]
    /\ candidates' = candidates \cup {x \in {b} : ~Worse(seq', x, tip)}
    /\ unlinked' = unlinked \ Linkable(b)

\* ReceivedBlockTransactions when every ancestor of b has been received.
LinkBlock(b) ==
    /\ linked' = linked \cup Linkable(b)
    /\ nextSeq' = nextSeq + Cardinality(Linkable(b))
    /\ \E n \in Numberings(Linkable(b)) :
          seq' = [x \in Block |-> IF x \in Linkable(b) THEN n[x] ELSE seq[x]]
    /\ candidates' = candidates \cup {x \in Linkable(b) : ~Worse(seq', x, tip)}
    /\ unlinked' = unlinked \ Linkable(b)

\* ReceivedBlockTransactions when some ancestor of b is still missing.
KeepUnlinked(b) ==
    /\ linked' = linked \ {b}
    /\ unlinked' = IF Parent[b] \in failed THEN unlinked ELSE unlinked \cup {b}
    /\ UNCHANGED <<seq, nextSeq, candidates>>

\* ProcessNewBlock up to ActivateBestChain: AcceptBlock stores the block. A
\* block whose header is new is AcceptBlockHeader followed by this. Callers never
\* ask for a pruned block of the active chain again.
ReceiveBlock(t, b, fRequested) ==
    /\ Free(t)
    /\ b \in index \ (failed \cup haveData \cup BadContext)
    /\ Wanted(b, fRequested)
    /\ b \notin Anc[tip] \cup {Genesis}
    /\ nextSeq + Cardinality(Linkable(b)) \in 1 .. MaxSeq
    /\ nTx' = nTx \cup {b}
    /\ haveData' = haveData \cup {b}
    /\ lastFile' = b
    /\ IF Parent[b] \in linked THEN LinkBlock(b) ELSE KeepUnlinked(b)
    /\ pc' = [pc EXCEPT ![t] = "called"]
    /\ UNCHANGED <<index, scripts, failure, nextPrecious, lastPreciousWork, tip,
                   mostWork, aborted>>

\* Mutant: the block is stored and linked before it is checked, and marked after.
RefuseBlockStored(t, b, fRequested) ==
    /\ Free(t)
    /\ b \in (index \cap BadContext) \ (failed \cup haveData)
    /\ Wanted(b, fRequested)
    /\ nextSeq + Cardinality(Linkable(b)) \in 1 .. MaxSeq
    /\ nTx' = nTx \cup {b}
    /\ haveData' = haveData \cup {b}
    /\ lastFile' = b
    /\ IF Parent[b] \in linked THEN LinkBlock(b) ELSE KeepUnlinked(b)
    /\ failedValid' = failedValid \cup {b}
    /\ UNCHANGED <<index, scripts, failedChild, gFailed, nextPrecious, lastPreciousWork,
                   tip, control, aborted>>

\* AcceptBlock refuses a block that breaks a rule checked without the UTXO set.
RefuseBlock(t, b, fRequested) ==
    /\ Free(t)
    /\ b \in (index \cap BadContext) \ (failed \cup haveData)
    /\ Wanted(b, fRequested)
    /\ failedValid' = failedValid \cup {b}
    /\ UNCHANGED <<index, status, failedChild, gFailed, sequence, candidates,
                   unlinked, tip, lastFile, control, aborted>>

\* ActivateBestChain is called with nothing new: ProcessNewBlock of a block that
\* AcceptBlock has or does not want, or a peer's request for a recent block.
CallActivate(t) ==
    /\ Free(t)
    /\ pc' = [pc EXCEPT ![t] = "called"]
    /\ UNCHANGED <<index, status, failure, sequence, candidates, unlinked, tip,
                   lastFile, mostWork, aborted>>

-----------------------------------------------------------------------------
(* ActivateBestChain. *)

\* Thread t runs inside ActivateBestChain: it holds cs_main or can take it.
Running(t) == /\ ~aborted
              /\ pc[t] = "find" \/ (pc[t] \in {"called", "top"} /\ ~Locked)

\* Mutant: only missing data rules a chain out.
UnusableData(c) == {x \in Anc[c] \ Anc[tip] : x \notin haveData}

\* The blocks between the active chain and c that rule c out.
Unusable(c) == {x \in Anc[c] \ Anc[tip] : x \in failed \/ x \notin haveData}

\* What becomes of the blocks above an unusable block: they descend from a failed
\* block, or wait for the missing data in mapBlocksUnlinked.
DropChain(test, above) ==
    \/ /\ test \in failed
       /\ failedChild' = failedChild \cup above
       /\ UNCHANGED unlinked
    \/ /\ test \notin failed
       /\ unlinked' = unlinked \cup above
       /\ UNCHANGED failedChild

\* One turn of FindMostWorkChain's loop that discards the best candidate c: it and
\* everything down to the first unusable block leave setBlockIndexCandidates.
DiscardCandidate(t) ==
    /\ Running(t)
    /\ mostWork[t] = NULL
    /\ \E c \in candidates : \E test \in Unusable(c) :
          /\ IsBest(c)
          /\ Unusable(c) \subseteq Anc[test]
          /\ candidates' = candidates \ ((Anc[c] \ Anc[test]) \cup {test})
          /\ DropChain(test, Anc[c] \ Anc[test])
    /\ pc' = [pc EXCEPT ![t] = "find"]
    /\ UNCHANGED <<index, status, failedValid, gFailed, sequence, tip, lastFile,
                   mostWork, aborted>>

\* This iteration of ActivateBestChain works towards m: the cached target, or
\* what FindMostWorkChain returns.
Target(t, m) ==
    /\ Running(t)
    /\ \/ mostWork[t] # NULL /\ m = mostWork[t]
       \/ mostWork[t] = NULL /\ IsBest(m) /\ Unusable(m) = {}

\* ActivateBestChain returns: there is nothing to do.
NothingToDo(t) ==
    /\ \/ Running(t) /\ mostWork[t] = NULL /\ candidates = {}
       \/ Target(t, tip)
    /\ pc' = [pc EXCEPT ![t] = "idle"]
    /\ mostWork' = [mostWork EXCEPT ![t] = NULL]
    /\ UNCHANGED <<index, status, failure, sequence, candidates, unlinked, tip,
                   lastFile, aborted>>

\* A block ConnectTip fails on: it cannot be read, or ConnectBlock refuses it.
Refused(c) == c \notin haveData \/ c \in BadConnect

\* The block ActivateBestChainStep tries after new on the way to m; none if new
\* already does better than the old tip.
Tried(m, new) ==
    {c \in Anc[m] \ Anc[new] : Parent[c] = new /\ Work[new] <= Work[tip]}

\* ActivateBestChainStep ends at new: it starts from the fork with the active
\* chain and connects blocks up to the first that does better than the old tip,
\* or to the last one before a block that does not connect.
StepEndsAt(m, new) ==
    /\ Anc[m] \cap Anc[tip] \subseteq Anc[new]
    /\ \A c \in Anc[new] \ Anc[tip] : ~Refused(c) /\ (c # new => Work[c] <= Work[tip])
    /\ \A c \in Tried(m, new) : Refused(c)

\* Mutant: the new tip itself goes too.
PrunedTooMuch(new) == {c \in candidates : Worse(seq, new, c)}

\* PruneBlockIndexCandidates with new as the tip.
Pruned(new) == {c \in candidates : ~Worse(seq, c, new)}

\* Mutant: the cached target is kept after an invalid block was found.
NextTargetKept(m, new, invalid) == IF new = m THEN NULL ELSE m

\* The target for the next iteration; an invalid block wipes the cached one.
NextTarget(m, new, invalid) == IF new = m \/ invalid # {} THEN NULL ELSE m

\* ActivateBestChainStep: DisconnectTip down to the fork, then ConnectTip. A
\* block that does not connect is marked failed and the search starts again; one
\* that cannot be read takes the node down.
ActivateStep(t) ==
    /\ \E m \in Block \ {tip} : \E new \in Anc[m] :
          /\ Target(t, m)
          /\ Anc[tip] \ Anc[m] \subseteq haveData
          /\ StepEndsAt(m, new)
          /\ LET connected == Anc[new] \ Anc[tip]
                 invalid == Tried(m, new) \cap haveData
             IN  /\ tip' = new
                 /\ scripts' = scripts \cup (connected \ failed)
                 /\ failedValid' = failedValid \cup invalid
                 /\ gFailed' = gFailed \cup invalid
                 /\ candidates' = (IF connected = {} THEN candidates
                                   ELSE Pruned(new)) \ invalid
                 /\ mostWork' = [mostWork EXCEPT ![t] = NextTarget(m, new, invalid)]
                 /\ pc' = [pc EXCEPT ![t] = IF new = m THEN "idle" ELSE "top"]
                 /\ aborted' = ~(Tried(m, new) \subseteq haveData)
    /\ UNCHANGED <<index, nTx, haveData, linked, failedChild, sequence, unlinked,
                   lastFile>>

\* DisconnectTip, asked to disconnect these blocks, comes to one it cannot read:
\* AbortNode.
DisconnectAbort(blocks) ==
    /\ \E stuck \in blocks \ haveData :
          /\ blocks \ haveData \subseteq Anc[stuck]
          /\ tip' = stuck
    /\ aborted' = TRUE
    /\ UNCHANGED <<index, status, failure, sequence, candidates, unlinked,
                   lastFile, control>>

ActivateAbort(t) ==
    \E m \in Block \ {tip} : Target(t, m) /\ DisconnectAbort(Anc[tip] \ Anc[m])

-----------------------------------------------------------------------------
(* The operator's commands; each but pruning ends in ActivateBestChain. *)

\* Mutant: nothing is put back.
ReaddedNone(new, gone) == {}

\* What InvalidateBlock puts back into setBlockIndexCandidates when new is the tip
\* that is left and the blocks gone have been marked: PruneBlockIndexCandidates has
\* dropped the blocks that were worse than the old tip.
Readded(new, gone) ==
    {x \in (index \cap nTx \cap linked) \ (failed \cup gone) : ~Worse(seq, x, new)}

\* InvalidateBlock: disconnect b if it is active, then mark it and what was above
\* it on the active chain.
InvalidateBlock(t, b) ==
    /\ Free(t)
    /\ "invalidate" \in Rpc
    /\ b \in index \ {Genesis}
    /\ LET active == b \in Anc[tip]
           above == IF active THEN Anc[tip] \ Anc[b] ELSE {}
           new == IF active THEN Parent[b] ELSE tip
           readded == Readded(new, above \cup {b})
       IN  /\ active => above \cup {b} \subseteq haveData
           /\ tip' = new
           /\ failedChild' = failedChild \cup above
           /\ failedValid' = failedValid \cup {b}
           /\ candidates' = (candidates \ (above \cup {b})) \cup readded
           /\ gFailed' = (gFailed \cup {b}) \ readded
    /\ pc' = [pc EXCEPT ![t] = "top"]
    /\ UNCHANGED <<index, status, sequence, unlinked, lastFile, mostWork, aborted>>

\* InvalidateBlock has to disconnect a block that was pruned.
InvalidateAbort(t, b) ==
    /\ Free(t)
    /\ "invalidate" \in Rpc
    /\ b \in Anc[tip]
    /\ DisconnectAbort((Anc[tip] \ Anc[b]) \cup {b})

\* InvalidateBlock of the genesis block: everything above it is disconnected,
\* then DisconnectBlock finds no undo data for it and nothing is marked.
InvalidateGenesis(t) ==
    /\ Free(t)
    /\ "invalidate" \in Rpc
    /\ Anc[tip] \subseteq haveData
    /\ tip' = Genesis
    /\ pc' = [pc EXCEPT ![t] = "top"]
    /\ UNCHANGED <<index, status, failure, sequence, candidates, unlinked,
                   lastFile, mostWork, aborted>>

\* ResetBlockFailureFlags, for reconsiderblock.
ReconsiderBlock(t, b) ==
    /\ Free(t)
    /\ "reconsider" \in Rpc
    /\ b \in index
    /\ LET cleared == {x \in failed : b \in Anc[x]}
       IN  /\ failedValid' = failedValid \ (cleared \cup Anc[b])
           /\ failedChild' = failedChild \ (cleared \cup Anc[b])
           /\ candidates' = candidates \cup
                {x \in cleared \cap nTx \cap linked : Worse(seq, tip, x)}
    /\ pc' = [pc EXCEPT ![t] = "top"]
    /\ UNCHANGED <<index, status, gFailed, sequence, unlinked, tip, lastFile,
                   mostWork, aborted>>

\* Mutants: b is erased from the set and not inserted again; it is inserted and
\* the worse ones are left in.
PreciousErased(s, b) == candidates \ {b}

PreciousNotPruned(s, b) ==
    IF b \in (nTx \cap linked) \ failed THEN candidates \cup {b} ELSE candidates \ {b}

\* setBlockIndexCandidates once b has its new place in the order s.
PreciousCandidates(s, b) ==
    IF b \in (nTx \cap linked) \ failed
    THEN {c \in candidates \cup {b} : ~Worse(s, c, tip)}
    ELSE candidates \ {b}

\* PreciousBlock when b has at least the work of the tip.
PreciousBlock(t, b) ==
    /\ Free(t)
    /\ "precious" \in Rpc
    /\ b \in index
    /\ Work[b] >= Work[tip]
    /\ LET id == IF Work[tip] > lastPreciousWork THEN -1 ELSE nextPrecious
       IN  /\ lastPreciousWork' = Work[tip]
           /\ nextPrecious' = IF id > -MaxPrecious THEN id - 1 ELSE id
           /\ seq' = [seq EXCEPT ![b] = id]
           /\ candidates' = PreciousCandidates(seq', b)
    /\ pc' = [pc EXCEPT ![t] = "top"]
    /\ UNCHANGED <<index, status, failure, nextSeq, unlinked, tip, lastFile,
                   mostWork, aborted>>

\* Mutant: pruned blocks stay in mapBlocksUnlinked.
PruneToKeepsUnlinked(t, h) ==
    /\ Free(t)
    /\ "prune" \in Rpc
    /\ LET gone == {b \in haveData \ {lastFile} : Height[b] <= h}
       IN  /\ gone # {}
           /\ haveData' = haveData \ gone
    /\ UNCHANGED <<index, nTx, scripts, linked, failure, sequence, candidates,
                   unlinked, tip, lastFile, control, aborted>>

\* pruneblockchain: every block file but the last whose blocks lie at most at
\* height h is deleted; one block to a file.
PruneTo(t, h) ==
    /\ Free(t)
    /\ "prune" \in Rpc
    /\ LET gone == {b \in haveData \ {lastFile} : Height[b] <= h}
       IN  /\ gone # {}
           /\ haveData' = haveData \ gone
           /\ unlinked' = unlinked \ gone
    /\ UNCHANGED <<index, nTx, scripts, linked, failure, sequence, candidates,
                   tip, lastFile, control, aborted>>

PruneBlockFilesManual(t) ==
    \E h \in 1 .. Height[tip] - MinBlocksToKeep : PruneTo(t, h)

-----------------------------------------------------------------------------
Activate(t) ==
    \/ DiscardCandidate(t)
    \/ NothingToDo(t)
    \/ ActivateStep(t)
    \/ ActivateAbort(t)

Command(t) ==
    \/ \E b \in Block : InvalidateBlock(t, b)
    \/ \E b \in Block : InvalidateAbort(t, b)
    \/ InvalidateGenesis(t)
    \/ \E b \in Block : ReconsiderBlock(t, b)
    \/ \E b \in Block : PreciousBlock(t, b)
    \/ PruneBlockFilesManual(t)

Network(t) ==
    \/ \E b \in Block : AcceptBlockHeader(t, b)
    \/ \E b \in Block : RejectBlockHeader(t, b)
    \/ \E b \in Block, fRequested \in BOOLEAN : ReceiveBlock(t, b, fRequested)
    \/ \E b \in Block, fRequested \in BOOLEAN : RefuseBlock(t, b, fRequested)
    \/ CallActivate(t)

ShutDown ==
    /\ aborted
    /\ UNCHANGED vars

Next ==
    \/ \E t \in Thread : Network(t) \/ Activate(t) \/ Command(t)
    \/ ShutDown

Spec == Init /\ [][Next]_vars

\* A thread inside ActivateBestChain keeps running: it waits for nothing but
\* cs_main. (Used with one thread; then the lock is always free to it.)
Fairness == \A t \in Thread : WF_vars(Activate(t))

FairSpec == Spec /\ Fairness

-----------------------------------------------------------------------------
(* Properties. *)

\* The state is well typed: what is known of blocks concerns blocks of mapBlockIndex,
\* and candidates and the tip are blocks whose ancestors have all been received.
TypeOK ==
    /\ index \subseteq Block
    /\ nTx \subseteq index
    /\ haveData \subseteq nTx
    /\ scripts \subseteq nTx
    /\ linked \subseteq nTx
    /\ failedValid \subseteq index
    /\ failedChild \subseteq index
    /\ gFailed \subseteq index
    /\ seq \in [Block -> Int]
    /\ nextSeq \in Nat
    /\ nextPrecious \in -MaxPrecious .. -1
    /\ lastPreciousWork \in Nat
    /\ candidates \subseteq linked
    /\ unlinked \subseteq nTx
    /\ tip \in linked
    /\ lastFile \in nTx
    /\ pc \in [Thread -> {"idle", "called", "top", "find"}]
    /\ mostWork \in [Thread -> Block \cup {NULL}]
    /\ aborted \in BOOLEAN

\* No thread is inside ActivateBestChain, and the node is up.
Quiet == ~aborted /\ \A t \in Thread : pc[t] = "idle"

\* x heads a chain the node could switch to: every block of it has been
\* received, none is marked failed, and what is not active yet is on disk.
Usable(x) ==
    /\ x \in linked
    /\ Anc[x] \cap failed = {}
    /\ Anc[x] \ Anc[tip] \subseteq haveData

\* The moments CheckBlockIndex is called at when a single thread runs: after a
\* header or a block was accepted and after ActivateBestChain.
Settled == ~aborted /\ \A t \in Thread : pc[t] \in {"idle", "called"}

\* No block that breaks a consensus rule is ever part of the active chain, whatever the
\* interleaving of threads and the operator's commands. ConnectBlock does not repeat the
\* checks of ContextualCheckBlock: for a block that fails those it matters that AcceptBlock
\* never stored it, so that neither it nor what is above it is linked, and reconsiderblock,
\* which clears its mark, makes no candidate of it.
NoBadBlockActive == Anc[tip] \cap (BadConnect \cup BadContext) = {}

\* The active chain holds no block that is marked failed: FindMostWorkChain
\* relies on it when it stops its walk at the active chain.
ActiveChainNotFailed == Anc[tip] \cap failed = {}

\* When ActivateBestChain has returned, no usable chain is better than the
\* active one by the order of CBlockIndexWorkComparator.
BestChainActive == Quiet => \A x \in Block : Usable(x) => ~Worse(seq, tip, x)

\* The best usable chain is the active one or a candidate: it is never lost for
\* good and the next call of ActivateBestChain finds it, even after a thread with
\* an outdated target has moved the tip back, or reconsiderblock has come between
\* two steps of one. (A chain with a block that was once found invalid comes back
\* only as far as reconsiderblock puts it back.)
BestIsCandidate ==
    \A x \in Block :
       /\ Usable(x) /\ Anc[x] \cap gFailed = {}
       /\ \A y \in Block : Usable(y) => ~Worse(seq, x, y)
       => x \in candidates \cup {tip}

\* ActivateBestChainStep lowers the work of the active chain only when it finds
\* out that a block is invalid, or cannot read one: no reorganisation to a chain
\* with less work otherwise.
NoRegression ==
    [][\A t \in Thread :
          ActivateStep(t) /\ Work[tip'] < Work[tip]
             => failedValid' # failedValid \/ aborted']_vars

\* When a block is connected, PruneBlockIndexCandidates leaves the tip or a
\* successor of it that is being worked towards (asserted there).
PruneLeavesCandidate == [][tip' \notin Anc[tip] => Pruned(tip') # {}]_vars

\* nChainTx is set exactly for the blocks all of whose ancestors have been
\* received, in whatever order the blocks came (asserted by CheckBlockIndex).
LinkedExact == linked = {x \in index : Anc[x] \subseteq nTx}

\* setBlockIndexCandidates holds every block that is as good as the tip, is not
\* known to be invalid and has all its data, and nothing worse than the tip
\* (asserted by CheckBlockIndex).
CandidatesExact ==
    Settled =>
      /\ \A x \in index :
            /\ ~Worse(seq, x, tip)
            /\ Anc[x] \subseteq nTx
            /\ Anc[x] \cap failedValid = {}
            /\ Anc[x] \subseteq haveData \/ x = tip
            => x \in candidates
      /\ \A x \in candidates : ~Worse(seq, x, tip)

\* mapBlocksUnlinked holds the blocks on disk that wait for an ancestor, and
\* no others (asserted by CheckBlockIndex).
UnlinkedExact ==
    Settled =>
      /\ \A x \in haveData :
            ~(Anc[x] \subseteq nTx) /\ Anc[x] \cap failedValid = {} => x \in unlinked
      /\ \A x \in unlinked : x \in haveData /\ ~(Anc[x] \subseteq haveData)
      /\ \A x \in haveData :
            /\ Anc[x] \subseteq nTx
            /\ ~(Anc[x] \subseteq haveData)
            /\ ~Worse(seq, x, tip)
            /\ Anc[x] \cap failedValid = {}
            => x \in candidates \cup unlinked

\* A block is marked failed only if it or an ancestor failed validation
\* (asserted by CheckBlockIndex).
FailedHasCause == \A x \in failed : Anc[x] \cap failedValid # {}

\* BLOCK_VALID_SCRIPTS of a block implies that of all its ancestors (asserted by
\* CheckBlockIndex): AcceptBlockHeader skips its search for failed ancestors on
\* the strength of it.
ScriptsClosed == \A x \in scripts : Anc[x] \ {Genesis} \subseteq scripts

\* A block in gFailedBlocks that AcceptBlockHeader meets below a new header is
\* still marked as invalid (asserted there).
GFailedMarked ==
    Quiet => \A b \in Block \ index :
                Parent[b] \in index \ failed =>
                   FailedBelow(Parent[b]) \subseteq failedValid

\* ActivateBestChain terminates: a thread that enters it returns, or the node
\* goes down.
ActivationTerminates ==
    \A t \in Thread : pc[t] # "idle" ~> (pc[t] = "idle" \/ aborted)
=============================================================================
