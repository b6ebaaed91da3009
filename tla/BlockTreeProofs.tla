--------------------------- MODULE BlockTreeProofs ---------------------------
(***************************************************************************)
(* Proofs about BlockTree, for every tree of blocks and every sequence of  *)
(* network messages: that no bad block is active, whatever commands are    *)
(* given, and what CheckBlockIndex asserts of the block index, under the   *)
(* conditions that each theorem states.                                    *)
(*                                                                         *)
(* The second half is about the choice of the chain. With one thread, and  *)
(* preciousblock as the only command: the best valid chain is active       *)
(* whenever ActivateBestChain has returned, and setBlockIndexCandidates is *)
(* exact. With any number of threads, and reconsiderblock as the only      *)
(* command: the best valid chain is always a candidate, and no active      *)
(* block is marked failed.                                                 *)
(***************************************************************************)
EXTENDS BlockTree, WellFoundedInduction, TLAPS

\* Zenon proves a leaf unless the leaf names the SMT solver.
USE Zenon

-----------------------------------------------------------------------------
(* The tree. *)

\* A set of blocks that holds the parent of each of its members: what a walk
\* over pprev cannot leave.
Closed(S) == \A x \in S \ {Genesis} : Parent[x] \in S

\* The ancestors of a block are blocks.
LEMMA AncType == \A b \in Block : Anc[b] \in SUBSET Block
  BY DEF Anc

\* A walk over pprev that starts inside a set closed under pprev stays in it.
LEMMA AncLeast ==
  ASSUME NEW b \in Block, NEW S \in SUBSET Block, b \in S, Closed(S)
  PROVE  Anc[b] \subseteq S
  BY DEF Anc, Closed

\* A block is among its own ancestors, as GetAncestor of its own height is.
LEMMA AncSelf == \A b \in Block : b \in Anc[b]
  BY DEF Anc

\* The ancestors of a block are closed under pprev.
LEMMA AncClosed == \A b \in Block : Closed(Anc[b])
<1> SUFFICES ASSUME NEW b \in Block, NEW x \in Anc[b] \ {Genesis}
             PROVE  Parent[x] \in Anc[b]
  BY DEF Closed
<1>1. x \in Block /\ Parent[x] \in Block
  BY AncType, TreeAssumption
<1>2. ASSUME NEW S \in SUBSET Block, b \in S, \A y \in S \ {Genesis} : Parent[y] \in S
      PROVE  Parent[x] \in S
  BY <1>2 DEF Anc
<1> QED
  BY <1>1, <1>2 DEF Anc

\* The ancestors of an ancestor are ancestors.
LEMMA AncTrans ==
  ASSUME NEW b \in Block, NEW a \in Anc[b]
  PROVE  a \in Block /\ Anc[a] \subseteq Anc[b]
  BY AncType, AncClosed, AncLeast

\* The genesis block has no other ancestor.
LEMMA AncGenesis == Anc[Genesis] = {Genesis}
<1>1. Closed({Genesis})
  BY DEF Closed
<1>2. {Genesis} \in SUBSET Block
  BY TreeAssumption
<1> QED
  BY SMT, <1>1, <1>2, AncLeast, AncSelf, TreeAssumption

\* The ancestors of a block are the block and the ancestors of its parent.
LEMMA AncStep ==
  ASSUME NEW b \in Block \ {Genesis}
  PROVE  /\ Parent[b] \in Block
         /\ Anc[b] = {b} \cup Anc[Parent[b]]
<1>1. Parent[b] \in Block /\ Parent[b] \in Anc[b] /\ b \in Anc[b]
  BY TreeAssumption, AncSelf, AncClosed DEF Closed
<1>2. Anc[Parent[b]] \subseteq Anc[b]
  BY <1>1, AncTrans
<1>3. Closed({b} \cup Anc[Parent[b]])
  BY <1>1, AncClosed, AncSelf DEF Closed
<1>4. {b} \cup Anc[Parent[b]] \in SUBSET Block
  BY <1>1, AncType
<1>5. Anc[b] \subseteq {b} \cup Anc[Parent[b]]
  BY <1>3, <1>4, AncLeast
<1> QED
  BY <1>1, <1>2, <1>5

\* A set of natural numbers has a least one.
LEMMA LeastNumber ==
  ASSUME NEW T \in SUBSET Nat, T # {}
  PROVE  \E n \in T : \A m \in T : n <= m
<1>1. PICK n \in T : \A m \in T : ~(<<m, n>> \in OpToRel(<, Nat))
  BY WFMin, NatLessThanWellFounded
<1>2. ASSUME NEW m \in T PROVE n <= m
  <2>1. OpToRel(<, Nat) = {s \in Nat \X Nat : s[1] < s[2]}
    BY DEF OpToRel
  <2>2. m \in Nat /\ n \in Nat /\ (m < n => <<m, n>> \in {s \in Nat \X Nat : s[1] < s[2]})
    BY SMT
  <2>3. ~(m < n)
    BY <1>1, <2>1, <2>2
  <2> QED
    BY SMT, <2>2, <2>3
<1> QED
  BY <1>2

\* Every walk over pprev ends at the genesis block: of the blocks from which it did not,
\* one would have the least work, and its parent has less.
LEMMA AncRoot == \A b \in Block : Genesis \in Anc[b]
<1> DEFINE S == {b \in Block : Genesis \notin Anc[b]}
           T == {Work[b] : b \in S}
<1> SUFFICES ASSUME S # {} PROVE FALSE
  OBVIOUS
<1>1. T \in SUBSET Nat /\ T # {}
  <2>1. \A b \in S : Work[b] \in Nat
    BY TreeAssumption
  <2> QED
    BY <2>1
<1>2. PICK n \in T : \A m \in T : n <= m
  BY <1>1, LeastNumber
<1>3. PICK b \in S : n = Work[b]
  BY <1>2
<1>4. b \in Block \ {Genesis} /\ Parent[b] \in S
  BY <1>3, AncSelf, AncStep
<1>5. Work[b] \in Nat /\ Work[Parent[b]] \in Nat /\ Work[Parent[b]] < Work[b]
  BY <1>4, TreeAssumption
<1>6. n <= Work[Parent[b]]
  <2>1. Work[Parent[b]] \in T
    BY <1>4
  <2> QED
    BY <1>2, <2>1
<1> QED
  BY SMT, <1>3, <1>5, <1>6

\* Chain work grows along a branch.
LEMMA AncWork ==
  ASSUME NEW b \in Block, NEW a \in Anc[b], a # b
  PROVE  Work[a] < Work[b]
<1> DEFINE S == {x \in Block : x = b \/ Work[x] < Work[b]}
<1>1. Closed(S)
  <2> SUFFICES ASSUME NEW x \in S \ {Genesis} PROVE Parent[x] \in S
    BY DEF Closed
  <2>1. Parent[x] \in Block /\ Work[Parent[x]] < Work[x]
    BY TreeAssumption
  <2>2. Work[x] \in Nat /\ Work[b] \in Nat /\ Work[Parent[x]] \in Nat
    BY <2>1, TreeAssumption
  <2> QED
    BY SMT, <2>1, <2>2
<1>2. Anc[b] \subseteq S
  BY <1>1, AncLeast
<1> QED
  BY <1>2

\* Two ancestors of the same block lie on one branch.
LEMMA AncLinear ==
  ASSUME NEW x \in Block, NEW a \in Anc[x], NEW b \in Anc[x]
  PROVE  a \in Anc[b] \/ b \in Anc[a]
<1> DEFINE S == {y \in Anc[x] : y \in Anc[b] \/ b \in Anc[y]}
<1>0. b \in Block /\ S \in SUBSET Block /\ x \in S
  BY AncType, AncSelf
<1>1. Closed(S)
  <2> SUFFICES ASSUME NEW y \in S \ {Genesis} PROVE Parent[y] \in S
    BY DEF Closed
  <2>1. y \in Block \ {Genesis} /\ Parent[y] \in Anc[x]
    BY AncType, AncClosed DEF Closed
  <2>2. CASE y \in Anc[b]
    BY <1>0, <2>1, <2>2, AncClosed DEF Closed
  <2>3. CASE b \in Anc[y]
    <3>1. b = y \/ b \in Anc[Parent[y]]
      BY <2>1, <2>3, AncStep
    <3>2. CASE b = y
      BY <1>0, <2>1, <2>2, <3>2, AncSelf
    <3> QED
      BY <2>1, <3>1, <3>2
  <2> QED
    BY <2>2, <2>3
<1>2. Anc[x] \subseteq S
  BY <1>0, <1>1, AncLeast
<1> QED
  BY <1>2

-----------------------------------------------------------------------------
(* The inductive invariant. *)

\* The index holds the parent of each of its blocks, nChainTx is set only above
\* blocks that have it set, every target of a thread is linked, and no block
\* that fails its contextual checks has been stored.
IInv ==
    /\ TypeOK
    /\ Closed(index)
    /\ Closed(linked)
    /\ Genesis \in linked
    /\ \A t \in Thread : mostWork[t] \in linked \cup {NULL}
    /\ nTx \cap BadContext = {}
    /\ Anc[tip] \cap BadConnect = {}

\* The ancestors of a block of the index are in the index, those of a linked
\* block are linked.
LEMMA IInvAnc ==
  ASSUME IInv
  PROVE  /\ \A x \in index : Anc[x] \subseteq index
         /\ \A x \in linked : Anc[x] \subseteq linked
  BY AncLeast DEF IInv, TypeOK

\* What ReceivedBlockTransactions links above b has been received, and is closed
\* under pprev together with what was linked before.
LEMMA LinkableLemma ==
  ASSUME IInv, NEW b \in index, b # Genesis, Parent[b] \in linked
  PROVE  /\ b \in Linkable(b)
         /\ Linkable(b) \subseteq nTx \cup {b}
         /\ Closed(linked \cup Linkable(b))
<1> USE DEF Linkable
<1>0. index \subseteq Block /\ unlinked \subseteq nTx /\ nTx \subseteq index
  BY DEF IInv, TypeOK
<1>1. b \in Linkable(b)
  BY <1>0, AncSelf
<1>2. ASSUME NEW x \in Linkable(b), x # b
      PROVE  x \in unlinked
  <2>1. x \notin Anc[b]
    <3> SUFFICES ASSUME x \in Anc[b] PROVE FALSE
      OBVIOUS
    <3>1. Work[x] < Work[b] /\ Work[b] < Work[x]
      BY <1>0, <1>2, AncWork
    <3> QED
      BY SMT, <1>0, <3>1, TreeAssumption
  <2> QED
    BY <1>0, <2>1, AncSelf
<1>3. Closed(linked \cup Linkable(b))
  <2> SUFFICES ASSUME NEW x \in (linked \cup Linkable(b)) \ {Genesis}
               PROVE  Parent[x] \in linked \cup Linkable(b)
    BY DEF Closed
  <2>1. CASE x \in linked
    BY <2>1 DEF IInv, Closed
  <2>2. CASE x = b
    BY <2>2
  <2>3. CASE x \in Linkable(b) /\ x # b
    <3>1. x \in Block \ {Genesis} /\ b \in Anc[x]
      BY <1>0, <2>3
    <3>2. Parent[x] \in Block /\ Anc[x] = {x} \cup Anc[Parent[x]]
      BY <3>1, AncStep
    <3>3. b \in Anc[Parent[x]] /\ Parent[x] \in index
      BY <1>0, <2>3, <3>1, <3>2 DEF IInv, Closed
    <3> QED
      BY <2>3, <3>2, <3>3
  <2> QED
    BY <2>1, <2>2, <2>3
<1>4. Linkable(b) \subseteq nTx \cup {b}
  BY <1>0, <1>2
<1> QED
  BY <1>1, <1>3, <1>4

-----------------------------------------------------------------------------
(* The invariant holds initially. *)

LEMMA InitIInv == Init => IInv
<1> SUFFICES ASSUME Init PROVE IInv
  OBVIOUS
<1> USE DEF Init
<1>1. TypeOK
  <2>1. seq \in [Block -> Int] /\ nextSeq \in Nat /\ lastPreciousWork \in Nat
    BY SMT
  <2>2. nextPrecious \in -MaxPrecious .. -1
    BY SMT, BoundAssumption
  <2>3. pc \in [Thread -> {"idle", "called", "top", "find"}]
    OBVIOUS
  <2>4. mostWork \in [Thread -> Block \cup {NULL}]
    OBVIOUS
  <2> QED
    BY <2>1, <2>2, <2>3, <2>4, TreeAssumption DEF TypeOK
<1>2. Closed(index) /\ Closed(linked)
  BY DEF Closed
<1>3. nTx \cap BadContext = {} /\ Anc[tip] \cap BadConnect = {}
  BY VerdictAssumption, AncGenesis
<1> QED
  BY <1>1, <1>2, <1>3 DEF IInv

-----------------------------------------------------------------------------
(* Every action preserves it. *)

\* AcceptBlockHeader, AddToBlockIndex.
LEMMA AcceptBlockHeaderIInv ==
  ASSUME IInv, NEW t \in Thread, NEW b \in Block, AcceptBlockHeader(t, b)
  PROVE  IInv'
<1> USE DEF AcceptBlockHeader, status, failure, sequence, control
<1>1. TypeOK'
  BY DEF IInv, TypeOK
<1>2. Closed(index)'
  BY DEF IInv, Closed
<1> QED
  BY <1>1, <1>2 DEF IInv, Closed

\* AcceptBlockHeader when it meets a block of gFailedBlocks.
LEMMA RejectBlockHeaderIInv ==
  ASSUME IInv, NEW t \in Thread, NEW b \in Block, RejectBlockHeader(t, b)
  PROVE  IInv'
<1> USE DEF RejectBlockHeader, status, failure, sequence, control
<1>1. Anc[Parent[b]] \subseteq index
  BY IInvAnc
<1>2. TypeOK'
  BY <1>1 DEF IInv, TypeOK
<1> QED
  BY <1>2 DEF IInv, Closed

\* AcceptBlock, ReceivedBlockTransactions.
LEMMA ReceiveBlockIInv ==
  ASSUME IInv, NEW t \in Thread, NEW b \in Block, NEW fRequested \in BOOLEAN,
         ReceiveBlock(t, b, fRequested)
  PROVE  IInv'
<1> USE DEF ReceiveBlock, status, failure, sequence, control
<1>1. CASE Parent[b] \in linked
  <2> USE <1>1 DEF LinkBlock
  <2>1. /\ b \in Linkable(b)
        /\ Linkable(b) \subseteq nTx \cup {b}
        /\ Closed(linked \cup Linkable(b))
    BY LinkableLemma
  <2>2. seq' \in [Block -> Int]
    <3>1. PICK n \in Numberings(Linkable(b)) :
            seq' = [x \in Block |-> IF x \in Linkable(b) THEN n[x] ELSE seq[x]]
      OBVIOUS
    <3>2. n \in [Linkable(b) -> Int]
      BY SMT, <2>1 DEF Numberings, IInv, TypeOK
    <3> QED
      BY <3>1, <3>2 DEF IInv, TypeOK
  <2>3. nextSeq' \in Nat
    BY SMT
  <2>4. linked' \subseteq nTx' /\ candidates' \subseteq linked' /\ unlinked' \subseteq nTx'
    BY <2>1 DEF IInv, TypeOK
  <2>5. TypeOK'
    BY <2>2, <2>3, <2>4 DEF IInv, TypeOK
  <2>6. Closed(index)' /\ Closed(linked)'
    BY <2>1 DEF IInv, Closed
  <2> QED
    BY SMT, <2>5, <2>6 DEF IInv
<1>2. CASE Parent[b] \notin linked
  <2> USE <1>2 DEF KeepUnlinked
  <2>1. linked' = linked
    <3>1. b \notin linked
      BY DEF IInv, Closed
    <3> QED
      BY <3>1
  <2>2. TypeOK'
    BY <2>1 DEF IInv, TypeOK
  <2> QED
    BY <2>1, <2>2 DEF IInv, Closed
<1> QED
  BY <1>1, <1>2

\* AcceptBlock when ContextualCheckBlock fails.
LEMMA RefuseBlockIInv ==
  ASSUME IInv, NEW t \in Thread, NEW b \in Block, NEW fRequested \in BOOLEAN,
         RefuseBlock(t, b, fRequested)
  PROVE  IInv'
<1> USE DEF RefuseBlock, status, failure, sequence, control
<1>1. TypeOK'
  BY DEF IInv, TypeOK
<1> QED
  BY <1>1 DEF IInv, Closed

\* ActivateBestChain is called.
LEMMA CallActivateIInv ==
  ASSUME IInv, NEW t \in Thread, CallActivate(t)
  PROVE  IInv'
<1> USE DEF CallActivate, status, failure, sequence, control
<1>1. TypeOK'
  BY DEF IInv, TypeOK
<1> QED
  BY <1>1 DEF IInv, Closed

\* FindMostWorkChain discards a candidate.
LEMMA DiscardCandidateIInv ==
  ASSUME IInv, NEW t \in Thread, DiscardCandidate(t)
  PROVE  IInv'
<1> USE DEF DiscardCandidate, DropChain, status, failure, sequence, control
<1>1. PICK c \in candidates :
        /\ candidates' \subseteq candidates
        /\ failedChild' \subseteq failedChild \cup Anc[c]
        /\ unlinked' \subseteq unlinked \cup Anc[c]
  OBVIOUS
<1>2. Anc[c] \subseteq linked /\ Anc[c] \subseteq index /\ Anc[c] \subseteq nTx
  BY IInvAnc DEF IInv, TypeOK
<1>3. TypeOK'
  BY <1>1, <1>2 DEF IInv, TypeOK
<1> QED
  BY <1>3 DEF IInv, Closed

\* ActivateBestChain returns.
LEMMA NothingToDoIInv ==
  ASSUME IInv, NEW t \in Thread, NothingToDo(t)
  PROVE  IInv'
<1> USE DEF NothingToDo, status, failure, sequence, control
<1>1. TypeOK'
  BY DEF IInv, TypeOK
<1>2. \A u \in Thread : mostWork'[u] \in linked' \cup {NULL}
  BY DEF IInv, TypeOK
<1> QED
  BY <1>1, <1>2 DEF IInv, Closed

\* A target of ActivateBestChain is linked.
LEMMA TargetLinked ==
  ASSUME IInv, NEW t \in Thread, NEW m, Target(t, m)
  PROVE  m \in linked
  BY DEF Target, IsBest, IInv, TypeOK

\* ActivateBestChainStep.
LEMMA ActivateStepIInv ==
  ASSUME IInv, NEW t \in Thread, ActivateStep(t)
  PROVE  IInv'
<1> USE DEF ActivateStep, status, failure, sequence, control
<1> DEFINE StepTo(m, new) ==
             /\ Target(t, m)
             /\ StepEndsAt(m, new)
             /\ tip' = new
             /\ scripts' = scripts \cup ((Anc[new] \ Anc[tip]) \ failed)
             /\ failedValid' = failedValid \cup (Tried(m, new) \cap haveData)
             /\ gFailed' = gFailed \cup (Tried(m, new) \cap haveData)
             /\ candidates' \subseteq candidates
             /\ \E r \in {m, NULL} : mostWork' = [mostWork EXCEPT ![t] = r]
             /\ \E p \in {"idle", "top"} : pc' = [pc EXCEPT ![t] = p]
             /\ aborted' \in BOOLEAN
<1>1. PICK m \in Block \ {tip} : \E new \in Anc[m] : StepTo(m, new)
  BY DEF Pruned, NextTarget
<1>2. PICK new \in Anc[m] : StepTo(m, new)
  BY <1>1
<1>3. m \in linked /\ new \in linked /\ Anc[new] \subseteq linked
  BY <1>2, TargetLinked, IInvAnc
<1>4. TypeOK'
  <2>1. scripts' \subseteq nTx' /\ tip' \in linked' /\ candidates' \subseteq linked'
    BY <1>2, <1>3 DEF IInv, TypeOK
  <2>2. failedValid' \subseteq index' /\ gFailed' \subseteq index'
    BY <1>2 DEF IInv, TypeOK
  <2>3. pc' \in [Thread -> {"idle", "called", "top", "find"}]
    BY <1>2 DEF IInv, TypeOK
  <2>4. mostWork' \in [Thread -> Block \cup {NULL}]
    BY SMT, <1>2 DEF IInv, TypeOK
  <2> QED
    BY <1>2, <2>1, <2>2, <2>3, <2>4 DEF IInv, TypeOK
<1>5. \A u \in Thread : mostWork'[u] \in linked' \cup {NULL}
  BY SMT, <1>2, <1>3 DEF IInv, TypeOK
<1>6. (Anc[tip] \cap BadConnect = {})'
  <2> SUFFICES ASSUME NEW a \in Anc[new] PROVE a \notin BadConnect
    BY <1>2
  <2>1. CASE a \in Anc[tip]
    BY <2>1 DEF IInv
  <2>2. CASE a \notin Anc[tip]
    BY <1>2, <2>2 DEF StepEndsAt, Refused
  <2> QED
    BY <2>1, <2>2
<1> QED
  BY <1>4, <1>5, <1>6 DEF IInv, Closed

\* A tip moved back to one of its ancestors keeps what the invariant says of it.
LEMMA TipBack ==
  ASSUME IInv, NEW a \in Anc[tip]
  PROVE  a \in linked /\ Anc[a] \cap BadConnect = {}
<1>1. tip \in Block /\ tip \in linked
  BY DEF IInv, TypeOK
<1>2. Anc[a] \subseteq Anc[tip]
  BY <1>1, AncTrans
<1> QED
  BY <1>1, <1>2, IInvAnc DEF IInv

\* DisconnectTip cannot read a block of the active chain.
LEMMA DisconnectAbortIInv ==
  ASSUME IInv, NEW blocks \in SUBSET Anc[tip], DisconnectAbort(blocks)
  PROVE  IInv'
<1> USE DEF DisconnectAbort, status, failure, sequence, control
<1>1. tip' \in linked /\ Anc[tip'] \cap BadConnect = {}
  BY TipBack
<1>2. TypeOK'
  BY <1>1 DEF IInv, TypeOK
<1> QED
  BY <1>1, <1>2 DEF IInv, Closed

\* InvalidateBlock.
LEMMA InvalidateBlockIInv ==
  ASSUME IInv, NEW t \in Thread, NEW b \in Block, InvalidateBlock(t, b)
  PROVE  IInv'
<1> USE DEF InvalidateBlock, status, failure, sequence, control
<1>0. tip \in Block /\ tip \in linked /\ Anc[tip] \subseteq index
  BY IInvAnc DEF IInv, TypeOK
<1>1. tip' \in Anc[tip]
  BY <1>0, AncSelf, AncClosed DEF Closed
<1>2. tip' \in linked /\ Anc[tip'] \cap BadConnect = {}
  BY <1>1, TipBack
<1>3. TypeOK'
  <2>1. failedValid' \subseteq index /\ failedChild' \subseteq index /\ gFailed' \subseteq index
    BY <1>0 DEF IInv, TypeOK
  <2>2. candidates' \subseteq linked
    BY DEF IInv, TypeOK, Readded
  <2>3. pc' \in [Thread -> {"idle", "called", "top", "find"}]
    BY DEF IInv, TypeOK
  <2> QED
    BY <1>2, <2>1, <2>2, <2>3 DEF IInv, TypeOK
<1> QED
  BY <1>2, <1>3 DEF IInv, Closed

\* InvalidateBlock of the genesis block.
LEMMA InvalidateGenesisIInv ==
  ASSUME IInv, NEW t \in Thread, InvalidateGenesis(t)
  PROVE  IInv'
<1> USE DEF InvalidateGenesis, status, failure, sequence, control
<1>1. Genesis \in linked
  BY DEF IInv
<1>2. TypeOK'
  BY <1>1 DEF IInv, TypeOK
<1>3. Anc[tip'] \cap BadConnect = {}
  BY AncGenesis, VerdictAssumption
<1> QED
  BY <1>2, <1>3 DEF IInv, Closed

\* ResetBlockFailureFlags.
LEMMA ReconsiderBlockIInv ==
  ASSUME IInv, NEW t \in Thread, NEW b \in Block, ReconsiderBlock(t, b)
  PROVE  IInv'
<1> USE DEF ReconsiderBlock, status, failure, sequence, control
<1>1. TypeOK'
  BY DEF IInv, TypeOK
<1> QED
  BY <1>1 DEF IInv, Closed

\* PreciousBlock.
LEMMA PreciousBlockIInv ==
  ASSUME IInv, NEW t \in Thread, NEW b \in Block, PreciousBlock(t, b)
  PROVE  IInv'
<1> USE DEF PreciousBlock, status, failure, sequence, control
<1>1. candidates' \subseteq linked
  BY DEF PreciousCandidates, IInv, TypeOK
<1>0. PICK id \in -MaxPrecious .. -1 :
        /\ nextPrecious' = IF id > -MaxPrecious THEN id - 1 ELSE id
        /\ seq' = [seq EXCEPT ![b] = id]
  <2>1. nextPrecious \in -MaxPrecious .. -1 /\ -1 \in -MaxPrecious .. -1
    BY SMT, BoundAssumption DEF IInv, TypeOK
  <2> QED
    BY <2>1
<1>2. nextPrecious' \in -MaxPrecious .. -1 /\ lastPreciousWork' \in Nat
  <2>1. nextPrecious' \in -MaxPrecious .. -1
    <3> HIDE DEF PreciousBlock
    <3>1. MaxPrecious \in Nat
      BY BoundAssumption
    <3>2. id \in Int /\ -MaxPrecious <= id /\ id <= -1
      BY SMT, <3>1
    <3>3. CASE id > -MaxPrecious
      BY SMT, <1>0, <3>1, <3>2, <3>3
    <3>4. CASE ~(id > -MaxPrecious)
      BY <1>0, <3>4
    <3> QED
      BY <3>3, <3>4
  <2>2. tip \in Block
    BY DEF IInv, TypeOK
  <2> QED
    BY <2>1, <2>2, TreeAssumption
<1>3. seq' \in [Block -> Int]
  BY SMT, <1>0, BoundAssumption DEF IInv, TypeOK
<1>4. pc' \in [Thread -> {"idle", "called", "top", "find"}]
  BY DEF IInv, TypeOK
<1>5. TypeOK'
  BY <1>1, <1>2, <1>3, <1>4 DEF IInv, TypeOK
<1> QED
  BY <1>5 DEF IInv, Closed

\* FindFilesToPruneManual, PruneOneBlockFile.
LEMMA PruneIInv ==
  ASSUME IInv, NEW t \in Thread, PruneBlockFilesManual(t)
  PROVE  IInv'
<1> USE DEF PruneBlockFilesManual, PruneTo, status, failure, sequence, control
<1>1. TypeOK'
  BY DEF IInv, TypeOK
<1> QED
  BY <1>1 DEF IInv, Closed

-----------------------------------------------------------------------------
(* The theorems. *)

\* Every step of the node preserves the invariant.
LEMMA NextIInv == IInv /\ [Next]_vars => IInv'
<1> SUFFICES ASSUME IInv, [Next]_vars PROVE IInv'
  OBVIOUS
<1>1. ASSUME NEW t \in Thread, Network(t) PROVE IInv'
  BY <1>1, AcceptBlockHeaderIInv, RejectBlockHeaderIInv, ReceiveBlockIInv,
     RefuseBlockIInv, CallActivateIInv DEF Network
<1>2. ASSUME NEW t \in Thread, Activate(t) PROVE IInv'
  <2>1. CASE ActivateAbort(t)
    <3>1. PICK m \in Block : DisconnectAbort(Anc[tip] \ Anc[m])
      BY <2>1 DEF ActivateAbort
    <3> QED
      BY <3>1, DisconnectAbortIInv
  <2> QED
    BY <1>2, <2>1, DiscardCandidateIInv, NothingToDoIInv, ActivateStepIInv DEF Activate
<1>3. ASSUME NEW t \in Thread, Command(t) PROVE IInv'
  <2>1. ASSUME NEW b \in Block, InvalidateAbort(t, b) PROVE IInv'
    <3>1. DisconnectAbort((Anc[tip] \ Anc[b]) \cup {b}) /\ b \in Anc[tip]
      BY <2>1 DEF InvalidateAbort
    <3> QED
      BY <3>1, DisconnectAbortIInv
  <2> QED
    BY <1>3, <2>1, InvalidateBlockIInv, InvalidateGenesisIInv, ReconsiderBlockIInv,
       PreciousBlockIInv, PruneIInv DEF Command
<1>4. CASE UNCHANGED vars
  BY <1>4 DEF vars, status, failure, sequence, control, IInv, TypeOK, Closed
<1> QED
  BY <1>1, <1>2, <1>3, <1>4 DEF Next, ShutDown

\* The invariant holds in every reachable state.
THEOREM Invariance == Spec => []IInv
  BY InitIInv, NextIInv, PTL DEF Spec

\* The block index, the flags of its entries and the sets built from them keep
\* their types, the inclusions between them among these: what has data was
\* received, what is a candidate is linked, what is linked was received.
THEOREM TypeCorrect == Spec => []TypeOK
<1>1. IInv => TypeOK
  BY DEF IInv
<1> QED
  BY <1>1, Invariance, PTL

\* No reorganisation, failed reorganisation, race between two threads in
\* ActivateBestChain, or command of the operator ever makes a block active that
\* ConnectBlock or ContextualCheckBlock refuses.
THEOREM NoBadBlockActiveHolds == Spec => []NoBadBlockActive
<1>1. IInv => NoBadBlockActive
  <2> SUFFICES ASSUME IInv PROVE NoBadBlockActive
    OBVIOUS
  <2>1. Anc[tip] \subseteq nTx
    BY IInvAnc DEF IInv, TypeOK
  <2> QED
    BY <2>1 DEF NoBadBlockActive, IInv
<1> QED
  BY <1>1, Invariance, PTL

-----------------------------------------------------------------------------
(* What CheckBlockIndex asserts of the block index: causes of failure     *)
(* marks, links of received blocks, and the marks of the active chain.     *)

\* Two ancestors of x: one that is not below the other is above it.
LEMMA AncAbove ==
  ASSUME NEW x \in Block, NEW f \in Anc[x], NEW y \in Anc[x], y \notin Anc[f]
  PROVE  f \in Anc[y]
  BY AncLinear

\* No block is below its own parent.
LEMMA AncAcyclic ==
  ASSUME NEW b \in Block \ {Genesis}
  PROVE  b \notin Anc[Parent[b]]
<1>1. Parent[b] \in Block /\ Work[Parent[b]] < Work[b]
  BY TreeAssumption
<1>2. Work[b] \in Nat /\ Work[Parent[b]] \in Nat
  BY <1>1, TreeAssumption
<1> QED
  BY SMT, <1>1, <1>2, AncWork

-----------------------------------------------------------------------------
(* Failure marks have a cause, as long as reconsiderblock is not used. *)

CauseInv == FailedHasCause /\ gFailed \subseteq failedValid

\* What a step has to do to keep it.
LEMMA CauseFrom ==
  ASSUME IInv, CauseInv,
         failedValid \subseteq failedValid', gFailed' \subseteq failedValid',
         failedValid' \subseteq Block,
         \A x \in failedChild' \ failedChild : Anc[x] \cap failedValid' # {}
  PROVE  CauseInv'
<1> SUFFICES ASSUME NEW x \in failedValid' \cup failedChild' PROVE Anc[x] \cap failedValid' # {}
  BY DEF CauseInv, FailedHasCause, failed
<1>1. CASE x \in failedValid'
  BY <1>1, AncSelf
<1>2. CASE x \in failedChild
  BY <1>2 DEF CauseInv, FailedHasCause, failed
<1> QED
  BY <1>1, <1>2

LEMMA StepCause == "reconsider" \notin Rpc /\ IInv /\ CauseInv /\ [Next]_vars => CauseInv'
<1> SUFFICES ASSUME "reconsider" \notin Rpc, IInv, CauseInv, [Next]_vars PROVE CauseInv'
  OBVIOUS
<1> DEFINE Caused(x) == Anc[x] \cap failedValid' # {}
<1>0. /\ index \subseteq Block /\ tip \in Block /\ candidates \subseteq Block
      /\ failedValid \subseteq Block /\ failedChild \subseteq Block
  BY DEF IInv, TypeOK
<1>2. CASE UNCHANGED failure
  BY <1>0, <1>2, CauseFrom DEF failure, CauseInv
<1>3. ASSUME NEW t \in Thread, NEW b \in Block, RejectBlockHeader(t, b)
      PROVE  CauseInv'
  <2> USE <1>3 DEF RejectBlockHeader
  <2>1. failedValid' = failedValid /\ gFailed' = gFailed
    OBVIOUS
  <2>2. Parent[b] \in Block
    BY <1>0
  <2>3. ASSUME NEW x \in failedChild' \ failedChild PROVE Caused(x)
    <3>1. PICK f \in FailedBelow(Parent[b]) : f \in failedValid /\ x \in Anc[Parent[b]] \ Anc[f]
      BY <2>3
    <3>2. f \in Anc[Parent[b]]
      BY <3>1 DEF FailedBelow
    <3>3. f \in Anc[x]
      BY <2>2, <3>1, <3>2, AncAbove
    <3> QED
      BY <2>1, <3>1, <3>3
  <2> QED
    BY <1>0, CauseFrom, <2>1, <2>3 DEF CauseInv
<1>4. ASSUME NEW t \in Thread, NEW b \in Block, NEW r \in BOOLEAN, RefuseBlock(t, b, r)
      PROVE  CauseInv'
  BY <1>0, CauseFrom, <1>4 DEF RefuseBlock, CauseInv
<1>5. ASSUME NEW t \in Thread, DiscardCandidate(t)
      PROVE  CauseInv'
  <2> USE <1>5 DEF DiscardCandidate, DropChain
  <2>1. failedValid' = failedValid /\ gFailed' = gFailed
    OBVIOUS
  <2>2. ASSUME NEW x \in failedChild' \ failedChild PROVE Caused(x)
    <3>0. PICK c \in candidates :
            \E test \in Unusable(c) : test \in failed /\ x \in Anc[c] \ Anc[test]
      BY <2>2
    <3>1. PICK test \in Unusable(c) : test \in failed /\ x \in Anc[c] \ Anc[test]
      BY <3>0
    <3>2. test \in Anc[x] /\ x \in Block
      BY <1>0, <3>1, AncAbove, AncType DEF Unusable
    <3>3. Anc[test] \subseteq Anc[x] /\ Anc[test] \cap failedValid # {}
      BY <3>1, <3>2, AncTrans DEF CauseInv, FailedHasCause
    <3> QED
      BY <2>1, <3>3
  <2> QED
    BY <1>0, CauseFrom, <2>1, <2>2 DEF CauseInv
<1>6. ASSUME NEW t \in Thread, ActivateStep(t)
      PROVE  CauseInv'
  <2>1. PICK new : \E m : /\ failedValid' = failedValid \cup (Tried(m, new) \cap haveData)
                          /\ gFailed' = gFailed \cup (Tried(m, new) \cap haveData)
                          /\ failedChild' = failedChild
    BY <1>6 DEF ActivateStep
  <2>2. haveData \subseteq Block
    BY DEF IInv, TypeOK
  <2> QED
    BY <1>0, CauseFrom, <2>1, <2>2 DEF CauseInv
<1>7. ASSUME NEW t \in Thread, NEW b \in Block, InvalidateBlock(t, b)
      PROVE  CauseInv'
  <2> USE <1>7 DEF InvalidateBlock
  <2>1. failedValid' = failedValid \cup {b} /\ gFailed' \subseteq gFailed \cup {b}
    OBVIOUS
  <2>2. ASSUME NEW x \in failedChild' \ failedChild PROVE Caused(x)
    <3>1. b \in Anc[tip] /\ x \in Anc[tip] \ Anc[b]
      BY <2>2
    <3>2. b \in Anc[x]
      BY <1>0, <3>1, AncAbove
    <3> QED
      BY <2>1, <3>2
  <2> QED
    BY <1>0, CauseFrom, <2>1, <2>2 DEF CauseInv
<1>8. ASSUME NEW t \in Thread, NEW b \in Block, ReconsiderBlock(t, b) PROVE FALSE
  BY <1>8 DEF ReconsiderBlock
<1> QED
  <2>1. ASSUME NEW t \in Thread, Network(t) PROVE CauseInv'
    BY <1>2, <1>3, <1>4, <2>1 DEF Network, AcceptBlockHeader, ReceiveBlock, CallActivate
  <2>2. ASSUME NEW t \in Thread, Activate(t) PROVE CauseInv'
    BY <1>2, <1>5, <1>6, <2>2 DEF Activate, NothingToDo, ActivateAbort, DisconnectAbort
  <2>3. ASSUME NEW t \in Thread, Command(t) PROVE CauseInv'
    BY <1>2, <1>7, <1>8, <2>3 DEF Command, InvalidateAbort, DisconnectAbort,
       InvalidateGenesis, PreciousBlock, PruneBlockFilesManual, PruneTo
  <2>4. CASE UNCHANGED vars
    BY <1>2, <2>4 DEF vars
  <2> QED
    BY <2>1, <2>2, <2>3, <2>4 DEF Next, ShutDown

\* Without reconsiderblock a block carries a failure mark only if it or one of its
\* ancestors failed validation or was invalidated, for every tree and any number of
\* threads.
THEOREM FailedHasCauseHolds == Spec => []("reconsider" \notin Rpc => FailedHasCause)
<1> DEFINE Inv == "reconsider" \notin Rpc => CauseInv
<1>1. Init => Inv
  BY DEF Init, CauseInv, FailedHasCause, failed
<1>2. Inv /\ IInv /\ [Next]_vars => Inv'
  BY StepCause
<1>3. Inv => ("reconsider" \notin Rpc => FailedHasCause)
  BY DEF CauseInv
<1> HIDE DEF Inv
<1> QED
  BY <1>1, <1>2, <1>3, Invariance, PTL DEF Spec

-----------------------------------------------------------------------------
(* nChainTx is set for what has been received, as long as the operator neither
   invalidates nor prunes. *)

NetworkOnly == Rpc \subseteq {"precious"}

\* Some ancestor was never received and never will be.
Doomed(x) == Anc[x] \cap (failed \ nTx) # {}

\* A received block on top of a linked one is linked; one that is neither linked nor
\* waiting in mapBlocksUnlinked is above a block that was refused, and so is every
\* failed block that is not linked.
LinkInv ==
    /\ gFailed \subseteq linked
    /\ \A x \in nTx \ {Genesis} : Parent[x] \in linked => x \in linked
    /\ \A x \in nTx \ (linked \cup unlinked) : Doomed(x)
    /\ \A x \in failed \ linked : Doomed(x)

\* A step that receives nothing keeps it, if what it marks beyond the linked blocks
\* is above a refused block.
LEMMA LinkFrom ==
  ASSUME LinkInv,
         nTx' = nTx, linked' = linked, unlinked \subseteq unlinked',
         failed \subseteq failed', gFailed' \subseteq linked,
         \A x \in failed' \ (failed \cup linked) : Doomed(x)'
  PROVE  LinkInv'
<1>1. \A x : Doomed(x) => Doomed(x)'
  BY DEF Doomed
<1>2. \A x \in nTx' \ (linked' \cup unlinked') : Doomed(x)'
  BY <1>1 DEF LinkInv
<1>3. \A x \in failed' \ linked' : Doomed(x)'
  BY <1>1 DEF LinkInv
<1> QED
  BY <1>2, <1>3 DEF LinkInv

\* ReceivedBlockTransactions.
LEMMA ReceiveLink ==
  ASSUME IInv, LinkInv, NEW t \in Thread, NEW b \in Block, NEW fRequested \in BOOLEAN,
         ReceiveBlock(t, b, fRequested)
  PROVE  LinkInv'
<1>0. /\ b \in index \ failed /\ b # Genesis /\ nTx' = nTx \cup {b}
      /\ failed' = failed /\ gFailed' = gFailed
      /\ index \subseteq Block /\ nTx \subseteq Block /\ Parent[b] \in Block
      /\ linked \subseteq Block /\ failed \subseteq Block
  BY TreeAssumption DEF ReceiveBlock, failure, failed, IInv, TypeOK
<1>1. \A x : Doomed(x) => Doomed(x)'
  BY <1>0 DEF Doomed
<1>2. CASE Parent[b] \in linked
  <2> DEFINE L == Linkable(b)
  <2>1. linked' = linked \cup L /\ unlinked' = unlinked \ L
    BY <1>2 DEF ReceiveBlock, LinkBlock
  <2>2. b \in L /\ L \subseteq nTx \cup {b} /\ L \subseteq index
    BY <1>0, <1>2, LinkableLemma DEF Linkable
  <2>3. ASSUME NEW x \in nTx' \ {Genesis}, Parent[x] \in linked' PROVE x \in linked'
    <3>1. CASE x = b
      BY <2>1, <2>2, <3>1
    <3>2. CASE Parent[x] \in linked
      BY <1>0, <2>1, <2>3, <3>1, <3>2 DEF LinkInv
    <3>3. CASE x # b /\ Parent[x] \in L /\ x \notin linked
      <4>1. x \in nTx /\ x \in index /\ Parent[x] \in Block /\ Anc[x] = {x} \cup Anc[Parent[x]]
        BY <1>0, <2>3, <3>3, AncStep DEF IInv, TypeOK
      <4>2. b \in Anc[Parent[x]] /\ Anc[Parent[x]] \ Anc[b] \subseteq unlinked
        BY <3>3 DEF Linkable
      <4>3. CASE x \in unlinked
        BY <2>1, <4>1, <4>2, <4>3 DEF Linkable
      <4>4. CASE x \notin unlinked
        <5>1. PICK z \in Anc[x] : z \in failed \ nTx
          BY SMT, <3>3, <4>1, <4>4 DEF LinkInv, Doomed
        <5>2. z \in Anc[Parent[x]] /\ z # b
          BY <1>0, <4>1, <5>1
        <5>3. z \in Anc[b]
          BY <4>2, <5>1, <5>2 DEF IInv, TypeOK
        <5>4. z \in Anc[Parent[b]]
          BY <1>0, <5>2, <5>3, AncStep
        <5>5. Anc[Parent[b]] \subseteq nTx
          BY <1>2, IInvAnc DEF IInv, TypeOK
        <5> QED
          BY <5>1, <5>4, <5>5
      <4> QED
        BY <4>3, <4>4
    <3> QED
      BY <2>1, <2>3, <3>1, <3>2, <3>3
  <2>4. \A x \in nTx' \ (linked' \cup unlinked') : Doomed(x)'
    BY <1>0, <1>1, <2>1, <2>2 DEF LinkInv
  <2>5. \A x \in failed' \ linked' : Doomed(x)'
    BY <1>0, <1>1, <2>1 DEF LinkInv
  <2>6. gFailed' \subseteq linked'
    BY <1>0, <2>1 DEF LinkInv
  <2> QED
    BY <2>3, <2>4, <2>5, <2>6 DEF LinkInv
<1>3. CASE Parent[b] \notin linked
  <2>1. /\ b \notin linked
        /\ linked' = linked
        /\ unlinked' = IF Parent[b] \in failed THEN unlinked ELSE unlinked \cup {b}
    BY SMTT(30), <1>0, <1>3 DEF ReceiveBlock, KeepUnlinked, IInv, Closed
  <2>2. \A x \in nTx' \ {Genesis} : Parent[x] \in linked' => x \in linked'
    BY <1>0, <1>3, <2>1 DEF LinkInv
  <2>3. ASSUME NEW x \in nTx' \ (linked' \cup unlinked') PROVE Doomed(x)'
    <3>1. CASE x # b
      BY <1>0, <1>1, <2>1, <2>3, <3>1 DEF LinkInv
    <3>2. CASE x = b
      <4>1. Parent[b] \in failed \ linked
        BY <1>3, <2>1, <2>3, <3>2
      <4>2. Doomed(Parent[b])'
        BY <1>1, <4>1 DEF LinkInv
      <4>3. Anc[Parent[b]] \subseteq Anc[b]
        BY <1>0, AncStep
      <4> QED
        BY <3>2, <4>2, <4>3 DEF Doomed
    <3> QED
      BY <3>1, <3>2
  <2>4. \A x \in failed' \ linked' : Doomed(x)'
    BY <1>0, <1>1, <2>1 DEF LinkInv
  <2>5. gFailed' \subseteq linked'
    BY <1>0, <2>1 DEF LinkInv
  <2> QED
    BY <2>2, <2>3, <2>4, <2>5 DEF LinkInv
<1> QED
  BY <1>2, <1>3

\* AcceptBlockHeader marks blocks above one that did not connect: the lowest of them
\* that was not received is marked, too.
LEMMA RejectLink ==
  ASSUME IInv, LinkInv, NEW t \in Thread, NEW b \in Block, RejectBlockHeader(t, b)
  PROVE  LinkInv'
<1> USE DEF RejectBlockHeader, status
<1>0. /\ nTx' = nTx /\ linked' = linked /\ unlinked' = unlinked /\ gFailed' = gFailed
      /\ failed \subseteq failed' /\ Parent[b] \in Block
  BY DEF failed, IInv, TypeOK
<1>1. ASSUME NEW x \in failed' \ (failed \cup linked) PROVE Doomed(x)'
  <2>1. PICK f \in FailedBelow(Parent[b]) :
          failedChild' = failedChild \cup (Anc[Parent[b]] \ Anc[f]) /\ x \in Anc[Parent[b]] \ Anc[f]
    BY <1>1 DEF failed
  <2>2. f \in Anc[Parent[b]] /\ f \in linked /\ f \in Block /\ x \in Block
    BY <1>0, <2>1, AncType DEF FailedBelow, LinkInv
  <2>3. f \in Anc[x] /\ Anc[f] \subseteq linked /\ Anc[x] \subseteq Anc[Parent[b]]
    BY <1>0, <2>1, <2>2, AncAbove, AncTrans, IInvAnc
  <2> DEFINE D == Anc[x] \ linked
  <2>4. SUFFICES ASSUME D \subseteq nTx PROVE FALSE
    <3>1. PICK z \in D : z \notin nTx
      BY <2>4
    <3>2. z \in Anc[Parent[b]] \ Anc[f]
      BY <2>3, <3>1
    <3> QED
      BY <1>0, <2>1, <3>1, <3>2 DEF Doomed, failed
  <2>5. Closed(D)
    <3> SUFFICES ASSUME NEW y \in D \ {Genesis} PROVE Parent[y] \in D
      BY DEF Closed
    <3>1. Parent[y] \in Anc[x]
      BY <2>2, AncClosed DEF Closed
    <3>2. Parent[y] \notin linked
      BY <2>4 DEF LinkInv
    <3> QED
      BY <3>1, <3>2
  <2>6. D \in SUBSET Block /\ x \in D
    BY <1>1, <2>2, AncType, AncSelf
  <2>7. Anc[x] \subseteq D
    BY <2>2, <2>5, <2>6, AncLeast
  <2> QED
    BY <2>2, <2>3, <2>7
<1> QED
  BY <1>0, <1>1, LinkFrom DEF LinkInv

LEMMA StepLink == NetworkOnly /\ IInv /\ LinkInv /\ [Next]_vars => LinkInv'
<1> SUFFICES ASSUME NetworkOnly, IInv, LinkInv, [Next]_vars PROVE LinkInv'
  OBVIOUS
<1>1. CASE UNCHANGED <<status, failure, unlinked>>
  BY <1>1, LinkFrom DEF status, failure, failed, LinkInv
<1>2. ASSUME NEW t \in Thread, NEW b \in Block, NEW r \in BOOLEAN, RefuseBlock(t, b, r)
      PROVE  LinkInv'
  <2>1. /\ nTx' = nTx /\ linked' = linked /\ unlinked' = unlinked /\ gFailed' = gFailed
        /\ failed' = failed \cup {b} /\ b \in BadContext
    BY <1>2 DEF RefuseBlock, status, failed
  <2>2. Doomed(b)'
    BY <2>1, AncSelf DEF Doomed, IInv
  <2> QED
    BY <2>1, <2>2, LinkFrom DEF LinkInv
<1>3. ASSUME NEW t \in Thread, DiscardCandidate(t)
      PROVE  LinkInv'
  <2>1. PICK c \in candidates :
          /\ nTx' = nTx /\ linked' = linked /\ unlinked \subseteq unlinked' /\ gFailed' = gFailed
          /\ failed \subseteq failed' /\ failed' \subseteq failed \cup Anc[c]
    BY <1>3 DEF DiscardCandidate, DropChain, status, failed
  <2>2. Anc[c] \subseteq linked
    BY <2>1, IInvAnc DEF IInv, TypeOK
  <2> QED
    BY <2>1, <2>2, LinkFrom DEF LinkInv
<1>4. ASSUME NEW t \in Thread, ActivateStep(t)
      PROVE  LinkInv'
  <2>1. PICK m \in Block : \E new \in Anc[m] :
          /\ Target(t, m)
          /\ failedValid' = failedValid \cup (Tried(m, new) \cap haveData)
          /\ gFailed' = gFailed \cup (Tried(m, new) \cap haveData)
          /\ UNCHANGED <<nTx, linked, failedChild, unlinked>>
    BY <1>4 DEF ActivateStep
  <2>2. /\ nTx' = nTx /\ linked' = linked /\ unlinked' = unlinked
        /\ failed \subseteq failed' /\ failed' \subseteq failed \cup Anc[m]
        /\ gFailed' \subseteq gFailed \cup Anc[m]
    BY <2>1 DEF failed, Tried
  <2>3. Anc[m] \subseteq linked
    BY <2>1, TargetLinked, IInvAnc
  <2> QED
    BY <2>2, <2>3, LinkFrom DEF LinkInv
<1>5. ASSUME NEW t \in Thread, Network(t) PROVE LinkInv'
  <2>1. ASSUME NEW b \in Block, AcceptBlockHeader(t, b) PROVE LinkInv'
    BY <1>1, <2>1 DEF AcceptBlockHeader
  <2>2. CASE CallActivate(t)
    BY <1>1, <2>2 DEF CallActivate
  <2> QED
    BY <1>2, <1>5, <2>1, <2>2, RejectLink, ReceiveLink DEF Network
<1>6. ASSUME NEW t \in Thread, Activate(t) PROVE LinkInv'
  BY <1>1, <1>3, <1>4, <1>6 DEF Activate, NothingToDo, ActivateAbort, DisconnectAbort
<1>7. ASSUME NEW t \in Thread, Command(t) PROVE LinkInv'
  <2>1. "invalidate" \notin Rpc /\ "reconsider" \notin Rpc /\ "prune" \notin Rpc
    BY DEF NetworkOnly
  <2>2. PICK b \in Block : PreciousBlock(t, b)
    BY <1>7, <2>1 DEF Command, InvalidateBlock, InvalidateAbort, InvalidateGenesis,
       ReconsiderBlock, PruneBlockFilesManual, PruneTo
  <2> QED
    BY <1>1, <2>2 DEF PreciousBlock
<1>8. CASE UNCHANGED vars
  BY <1>1, <1>8 DEF vars
<1> QED
  BY <1>5, <1>6, <1>7, <1>8 DEF Next, ShutDown

\* What the invariant says of one step up the tree holds of whole chains.
LEMMA LinkInvExact == IInv /\ LinkInv => LinkedExact
<1> SUFFICES ASSUME IInv, LinkInv PROVE LinkedExact
  OBVIOUS
<1>1. index \subseteq Block /\ linked \subseteq index /\ linked \subseteq nTx
  BY DEF IInv, TypeOK
<1>2. \A x \in linked : Anc[x] \subseteq nTx
  BY <1>1, IInvAnc
<1>3. ASSUME NEW x \in index, Anc[x] \subseteq nTx, x \notin linked PROVE FALSE
  <2> DEFINE D == Anc[x] \ linked
  <2>1. x \in Block /\ D \in SUBSET Block /\ x \in D
    BY <1>1, <1>3, AncType, AncSelf
  <2>2. Closed(D)
    <3> SUFFICES ASSUME NEW y \in D \ {Genesis} PROVE Parent[y] \in D
      BY DEF Closed
    <3>1. Parent[y] \in Anc[x]
      BY <2>1, AncClosed DEF Closed
    <3>2. Parent[y] \notin linked
      BY <1>3 DEF LinkInv
    <3> QED
      BY <3>1, <3>2
  <2>3. Anc[x] \subseteq D
    BY <2>1, <2>2, AncLeast
  <2>4. Genesis \in Anc[x] /\ Genesis \in linked
    BY <2>1, AncRoot DEF IInv
  <2> QED
    BY <2>3, <2>4
<1> QED
  BY <1>1, <1>2, <1>3 DEF LinkedExact

\* In whatever order headers and blocks arrive, whichever of them are refused, and
\* whatever threads do in between: nChainTx is set exactly for the blocks all of
\* whose ancestors have been received.
THEOREM LinkedExactHolds == Spec => [](NetworkOnly => LinkedExact)
<1> DEFINE Inv == NetworkOnly => LinkInv
<1>1. Init => Inv
  BY DEF Init, LinkInv, failed
<1>2. Inv /\ IInv /\ [Next]_vars => Inv'
  BY StepLink DEF NetworkOnly
<1>3. Inv /\ IInv => (NetworkOnly => LinkedExact)
  BY LinkInvExact
<1> HIDE DEF Inv
<1> QED
  BY <1>1, <1>2, <1>3, Invariance, PTL DEF Spec

\* Without pruning, what was received is on disk, and no linked block waits in
\* mapBlocksUnlinked.
StoredInv == nTx \subseteq haveData /\ unlinked \cap linked = {}

LEMMA StepStored == "prune" \notin Rpc /\ IInv /\ StoredInv /\ [Next]_vars => StoredInv'
<1> SUFFICES ASSUME "prune" \notin Rpc, IInv, StoredInv, [Next]_vars PROVE StoredInv'
  OBVIOUS
<1>1. CASE UNCHANGED <<nTx, haveData, linked, unlinked>>
  BY <1>1 DEF StoredInv
<1>2. ASSUME NEW t \in Thread, NEW b \in Block, NEW r \in BOOLEAN, ReceiveBlock(t, b, r)
      PROVE  StoredInv'
  <2>1. nTx' = nTx \cup {b} /\ haveData' = haveData \cup {b}
    BY <1>2 DEF ReceiveBlock
  <2>2. CASE LinkBlock(b)
    BY <2>1, <2>2 DEF LinkBlock, StoredInv
  <2>3. CASE KeepUnlinked(b)
    BY <2>1, <2>3 DEF KeepUnlinked, StoredInv
  <2> QED
    BY <1>2, <2>2, <2>3 DEF ReceiveBlock
<1>3. ASSUME NEW t \in Thread, DiscardCandidate(t) PROVE StoredInv'
  <2>1. PICK c \in candidates : \E test \in Unusable(c) : DropChain(test, Anc[c] \ Anc[test])
    BY <1>3 DEF DiscardCandidate
  <2>2. PICK test \in Unusable(c) : DropChain(test, Anc[c] \ Anc[test])
    BY <2>1
  <2>3. Anc[c] \subseteq haveData
    BY IInvAnc DEF IInv, TypeOK, StoredInv
  <2>4. unlinked' = unlinked
    BY <2>2, <2>3 DEF Unusable, DropChain
  <2> QED
    BY <1>3, <2>4 DEF DiscardCandidate, status, StoredInv
<1>4. ASSUME NEW t \in Thread, Network(t) PROVE StoredInv'
  BY <1>1, <1>2, <1>4 DEF Network, AcceptBlockHeader, RejectBlockHeader, RefuseBlock,
     CallActivate, status
<1>5. ASSUME NEW t \in Thread, Activate(t) PROVE StoredInv'
  BY <1>1, <1>3, <1>5 DEF Activate, NothingToDo, ActivateStep, ActivateAbort, DisconnectAbort, status
<1>6. ASSUME NEW t \in Thread, Command(t) PROVE StoredInv'
  BY <1>1, <1>6 DEF Command, InvalidateBlock, InvalidateAbort, InvalidateGenesis,
     ReconsiderBlock, PreciousBlock, PruneBlockFilesManual, PruneTo, DisconnectAbort, status
<1>7. CASE UNCHANGED vars
  BY <1>1, <1>7 DEF vars, status
<1> QED
  BY <1>4, <1>5, <1>6, <1>7 DEF Next, ShutDown

\* In whatever order headers and blocks arrive and whatever threads do in between,
\* mapBlocksUnlinked holds exactly the blocks on disk that wait for an ancestor, but for
\* those above a block that failed: none is forgotten when its ancestor arrives, and none
\* stays behind. (Pruning is not used, so nothing is missing that was there before.)
THEOREM UnlinkedExactHolds == Spec => [](NetworkOnly => UnlinkedExact)
<1> DEFINE Inv == NetworkOnly => CauseInv /\ LinkInv /\ StoredInv
<1>1. Init => Inv
  BY DEF Init, CauseInv, FailedHasCause, LinkInv, StoredInv, failed
<1>2. Inv /\ IInv /\ [Next]_vars => Inv'
  BY StepCause, StepLink, StepStored DEF NetworkOnly
<1>3. Inv /\ IInv => (NetworkOnly => UnlinkedExact)
  <2> SUFFICES ASSUME NetworkOnly, IInv, CauseInv, LinkInv, StoredInv PROVE UnlinkedExact
    OBVIOUS
  <2>0. /\ haveData = nTx /\ nTx \subseteq index /\ index \subseteq Block /\ unlinked \subseteq nTx
        /\ linked = {x \in index : Anc[x] \subseteq nTx}
    BY LinkInvExact DEF IInv, TypeOK, StoredInv, LinkedExact
  <2>1. ASSUME NEW x \in nTx, ~(Anc[x] \subseteq nTx), Anc[x] \cap failedValid = {}
        PROVE  x \in unlinked
    <3> SUFFICES ASSUME x \notin unlinked PROVE FALSE
      OBVIOUS
    <3>1. x \notin linked /\ x \in Block
      BY <2>0, <2>1
    <3>2. PICK z \in Anc[x] : z \in failed
      BY SMTT(30), <3>1 DEF LinkInv, Doomed
    <3>3. Anc[z] \subseteq Anc[x] /\ Anc[z] \cap failedValid # {}
      BY <3>1, <3>2, AncTrans DEF CauseInv, FailedHasCause
    <3> QED
      BY <2>1, <3>3
  <2>2. \A x \in unlinked : x \in nTx /\ ~(Anc[x] \subseteq nTx)
    BY <2>0 DEF StoredInv
  <2> QED
    BY <2>0, <2>1, <2>2 DEF UnlinkedExact
<1> HIDE DEF Inv
<1> QED
  BY <1>1, <1>2, <1>3, Invariance, PTL DEF Spec

-----------------------------------------------------------------------------
(* The marks of the active chain, with a single thread. *)

OneThread == \A s, t \in Thread : s = t

\* The active chain has passed the script checks and is not marked failed, and what
\* is left of the way to a thread's target is not marked failed, either: the target
\* outlives the time cs_main is free, but with one thread nobody uses that time.
ActiveInv ==
    /\ ActiveChainNotFailed
    /\ ScriptsClosed
    /\ Anc[tip] \ {Genesis} \subseteq scripts
    /\ \A t \in Thread : ~aborted /\ mostWork[t] # NULL =>
          pc[t] = "top" /\ (Anc[mostWork[t]] \ Anc[tip]) \cap failed = {}

\* A step that leaves no target behind keeps the invariant, if the tip stays or
\* goes back and nothing that is active after it is marked.
LEMMA ActiveFrom ==
  ASSUME IInv, ActiveInv, tip' \in Anc[tip], scripts' = scripts,
         Anc[tip'] \cap (failed' \ failed) = {},
         aborted' \/ \A t \in Thread : mostWork'[t] = NULL
  PROVE  ActiveInv'
<1>1. tip \in Block /\ Anc[tip'] \subseteq Anc[tip]
  BY AncTrans DEF IInv, TypeOK
<1>2. ActiveChainNotFailed'
  BY <1>1 DEF ActiveInv, ActiveChainNotFailed
<1>3. ScriptsClosed' /\ Anc[tip'] \ {Genesis} \subseteq scripts'
  BY <1>1 DEF ActiveInv, ScriptsClosed
<1> QED
  BY <1>2, <1>3 DEF ActiveInv

\* A thread that may start something new is the only one, and has no target.
LEMMA FreeNoTarget ==
  ASSUME OneThread, ActiveInv, NEW t \in Thread, Free(t)
  PROVE  \A u \in Thread : mostWork[u] = NULL
  BY DEF OneThread, ActiveInv, Free

\* ActivateBestChainStep, towards the target of an earlier step or a new one.
LEMMA ActivateActive ==
  ASSUME OneThread, IInv, ActiveInv, NEW t \in Thread, ActivateStep(t)
  PROVE  ActiveInv'
<1>1. PICK m \in Block : \E new \in Anc[m] :
        /\ Target(t, m) /\ StepEndsAt(m, new)
        /\ tip' = new
        /\ scripts' = scripts \cup ((Anc[new] \ Anc[tip]) \ failed)
        /\ failedValid' = failedValid \cup (Tried(m, new) \cap haveData)
        /\ mostWork' = [mostWork EXCEPT ![t] = NextTarget(m, new, Tried(m, new) \cap haveData)]
        /\ pc' = [pc EXCEPT ![t] = IF new = m THEN "idle" ELSE "top"]
        /\ failedChild' = failedChild
  BY DEF ActivateStep
<1>2. PICK new \in Anc[m] :
        /\ Target(t, m) /\ StepEndsAt(m, new)
        /\ tip' = new
        /\ scripts' = scripts \cup ((Anc[new] \ Anc[tip]) \ failed)
        /\ failedValid' = failedValid \cup (Tried(m, new) \cap haveData)
        /\ mostWork' = [mostWork EXCEPT ![t] = NextTarget(m, new, Tried(m, new) \cap haveData)]
        /\ pc' = [pc EXCEPT ![t] = IF new = m THEN "idle" ELSE "top"]
        /\ failedChild' = failedChild
  BY <1>1
<1>3. /\ tip \in Block /\ new \in Block /\ Anc[new] \subseteq Anc[m]
      /\ mostWork \in [Thread -> Block \cup {NULL}]
      /\ pc \in [Thread -> {"idle", "called", "top", "find"}]
  BY <1>2, AncTrans DEF IInv, TypeOK
<1>4. (Anc[m] \ Anc[tip]) \cap failed = {}
  <2>1. CASE mostWork[t] # NULL
    BY <1>2, <2>1 DEF Target, Running, ActiveInv
  <2>2. CASE mostWork[t] = NULL
    BY <1>2, <2>2 DEF Target, Unusable
  <2> QED
    BY <2>1, <2>2
<1>5. failed' = failed \cup (Tried(m, new) \cap haveData) /\ Tried(m, new) \cap Anc[new] = {}
  BY <1>2 DEF failed, Tried
<1>6. ActiveChainNotFailed'
  BY <1>2, <1>3, <1>4, <1>5 DEF ActiveInv, ActiveChainNotFailed
<1>7. scripts' = scripts \cup (Anc[new] \ Anc[tip])
  BY <1>2, <1>3, <1>4
<1>8. Anc[new] \ {Genesis} \subseteq scripts'
  BY <1>7 DEF ActiveInv
<1>9. ScriptsClosed'
  <2> SUFFICES ASSUME NEW x \in scripts' PROVE Anc[x] \ {Genesis} \subseteq scripts'
    BY DEF ScriptsClosed
  <2>1. CASE x \in scripts
    BY <1>7, <2>1 DEF ActiveInv, ScriptsClosed
  <2>2. CASE x \in Anc[new]
    BY <1>3, <1>8, <2>2, AncTrans
  <2> QED
    BY <1>7, <2>1, <2>2
<1>10. ASSUME NEW u \in Thread, mostWork'[u] # NULL
       PROVE  pc'[u] = "top" /\ (Anc[mostWork'[u]] \ Anc[tip']) \cap failed' = {}
  <2>1. u = t
    BY DEF OneThread
  <2>2. mostWork'[t] = NextTarget(m, new, Tried(m, new) \cap haveData)
    BY <1>2, <1>3
  <2>3. mostWork'[t] = m /\ new # m /\ Tried(m, new) \cap haveData = {}
    BY <1>10, <2>1, <2>2 DEF NextTarget
  <2>4. Anc[m] \ Anc[new] \subseteq Anc[m] \ Anc[tip]
    BY <1>2 DEF StepEndsAt
  <2> QED
    BY <1>2, <1>3, <1>4, <1>5, <2>1, <2>3, <2>4
<1> QED
  BY <1>2, <1>6, <1>8, <1>9, <1>10 DEF ActiveInv

\* Steps that mark blocks: nothing that is active after them is marked.
LEMMA MarkActive ==
  ASSUME OneThread, IInv, ActiveInv, NEW t \in Thread
  PROVE  /\ \A b \in Block : RejectBlockHeader(t, b) => ActiveInv'
         /\ \A b \in Block, r \in BOOLEAN : RefuseBlock(t, b, r) => ActiveInv'
         /\ DiscardCandidate(t) => ActiveInv'
         /\ \A b \in Block : InvalidateBlock(t, b) => ActiveInv'
<1>0. tip \in Block /\ tip \in Anc[tip] /\ Anc[tip] \subseteq nTx /\ Anc[tip] \subseteq Block
  BY AncSelf, IInvAnc DEF IInv, TypeOK
<1>1. ASSUME NEW b \in Block, RejectBlockHeader(t, b) PROVE ActiveInv'
  <2> USE <1>1 DEF RejectBlockHeader, status, control
  <2>1. \A u \in Thread : mostWork'[u] = NULL
    BY FreeNoTarget
  <2>2. Parent[b] \in Block
    BY DEF IInv, TypeOK
  <2>3. ASSUME NEW x \in Anc[tip], x \in failed' \ failed PROVE FALSE
    <3>1. PICK f \in FailedBelow(Parent[b]) : f \in failedValid /\ x \in Anc[Parent[b]] \ Anc[f]
      BY <2>3 DEF failed
    <3>2. f \in Anc[x]
      BY <2>2, <3>1, AncAbove DEF FailedBelow
    <3>3. f \in Anc[tip]
      BY <1>0, <2>3, <3>2, AncTrans
    <3> QED
      BY <3>1, <3>3 DEF ActiveInv, ActiveChainNotFailed, failed
  <2> QED
    BY <1>0, <2>1, <2>3, ActiveFrom
<1>2. ASSUME NEW b \in Block, NEW r \in BOOLEAN, RefuseBlock(t, b, r) PROVE ActiveInv'
  <2> USE <1>2 DEF RefuseBlock, status, control
  <2>1. \A u \in Thread : mostWork'[u] = NULL
    BY FreeNoTarget
  <2>2. failed' = failed \cup {b} /\ b \notin Anc[tip]
    BY <1>0 DEF failed, IInv
  <2> QED
    BY <1>0, <2>1, <2>2, ActiveFrom
<1>3. ASSUME DiscardCandidate(t) PROVE ActiveInv'
  <2> USE <1>3 DEF DiscardCandidate, DropChain, status
  <2>1. \A u \in Thread : mostWork'[u] = NULL
    BY DEF OneThread
  <2>2. ASSUME NEW x \in Anc[tip], x \in failed' \ failed PROVE FALSE
    <3>0. PICK c \in candidates : \E test \in Unusable(c) : x \in Anc[c] \ Anc[test]
      BY <2>2 DEF failed
    <3>1. PICK test \in Unusable(c) : x \in Anc[c] \ Anc[test]
      BY <3>0
    <3>2. test \in Anc[x] /\ test \notin Anc[tip]
      BY <3>1, AncAbove DEF Unusable, IInv, TypeOK
    <3> QED
      BY <1>0, <2>2, <3>2, AncTrans
  <2> QED
    BY <1>0, <2>1, <2>2, ActiveFrom
<1>4. ASSUME NEW b \in Block, InvalidateBlock(t, b) PROVE ActiveInv'
  <2>1. /\ \A u \in Thread : mostWork'[u] = NULL
        /\ scripts' = scripts /\ b # Genesis
    BY <1>4, FreeNoTarget DEF InvalidateBlock, status
  <2>2. CASE b \in Anc[tip]
    <3>1. /\ tip' = Parent[b] /\ failed' = failed \cup (Anc[tip] \ Anc[b]) \cup {b}
      BY <1>4, <2>2 DEF InvalidateBlock, failed
    <3>2. Parent[b] \in Anc[tip] /\ Parent[b] \in Block /\ Anc[b] = {b} \cup Anc[Parent[b]]
      BY <1>0, <2>1, <2>2, AncClosed, AncStep DEF Closed
    <3>3. Anc[Parent[b]] \cap ((Anc[tip] \ Anc[b]) \cup {b}) = {}
      BY <2>1, <3>2, AncAcyclic
    <3> QED
      BY <2>1, <3>1, <3>2, <3>3, ActiveFrom
  <2>3. CASE b \notin Anc[tip]
    <3>1. tip' = tip /\ failed' = failed \cup {b}
      BY <1>4, <2>3 DEF InvalidateBlock, failed
    <3> QED
      BY <1>0, <2>1, <2>3, <3>1, ActiveFrom
  <2> QED
    BY <2>2, <2>3
<1> QED
  BY <1>1, <1>2, <1>3, <1>4

LEMMA StepActive == OneThread /\ IInv /\ ActiveInv /\ [Next]_vars => ActiveInv'
<1> SUFFICES ASSUME OneThread, IInv, ActiveInv, [Next]_vars PROVE ActiveInv'
  OBVIOUS
<1>0. tip \in Block /\ tip \in Anc[tip]
  BY AncSelf DEF IInv, TypeOK
<1>1. ASSUME NEW t \in Thread, Free(t), mostWork' = mostWork, tip' \in Anc[tip],
             scripts' = scripts, failed' \subseteq failed
      PROVE  ActiveInv'
  BY <1>1, FreeNoTarget, ActiveFrom
<1>2. ASSUME NEW t \in Thread, Network(t) PROVE ActiveInv'
  <2>1. ASSUME NEW b \in Block, AcceptBlockHeader(t, b) PROVE ActiveInv'
    BY <1>0, <1>1, <2>1 DEF AcceptBlockHeader, failure, failed, status, control
  <2>2. ASSUME NEW b \in Block, NEW r \in BOOLEAN, ReceiveBlock(t, b, r) PROVE ActiveInv'
    BY <1>0, <1>1, <2>2 DEF ReceiveBlock, failure, failed
  <2>3. CASE CallActivate(t)
    BY <1>0, <1>1, <2>3 DEF CallActivate, failure, failed, status
  <2> QED
    BY <1>2, <2>1, <2>2, <2>3, MarkActive DEF Network
<1>3. ASSUME NEW blocks \in SUBSET Anc[tip], DisconnectAbort(blocks) PROVE ActiveInv'
  BY <1>3, ActiveFrom DEF DisconnectAbort, failure, failed, status
<1>4. ASSUME NEW t \in Thread, Activate(t) PROVE ActiveInv'
  <2>1. CASE NothingToDo(t)
    <3>1. \A u \in Thread : mostWork'[u] = NULL
      BY <2>1 DEF NothingToDo, OneThread, IInv, TypeOK
    <3> QED
      BY <1>0, <2>1, <3>1, ActiveFrom DEF NothingToDo, failure, failed, status
  <2>2. CASE ActivateAbort(t)
    <3>1. PICK m \in Block : DisconnectAbort(Anc[tip] \ Anc[m])
      BY <2>2 DEF ActivateAbort
    <3> QED
      BY <1>3, <3>1
  <2> QED
    BY <1>4, <2>1, <2>2, MarkActive, ActivateActive DEF Activate
<1>5. ASSUME NEW t \in Thread, Command(t) PROVE ActiveInv'
  <2>1. ASSUME NEW b \in Block, InvalidateAbort(t, b) PROVE ActiveInv'
    <3>1. DisconnectAbort((Anc[tip] \ Anc[b]) \cup {b}) /\ b \in Anc[tip]
      BY <2>1 DEF InvalidateAbort
    <3> QED
      BY <1>3, <3>1
  <2>2. CASE InvalidateGenesis(t)
    BY <1>0, <1>1, <2>2, AncRoot DEF InvalidateGenesis, failure, failed, status
  <2>3. ASSUME NEW b \in Block, ReconsiderBlock(t, b) PROVE ActiveInv'
    <3>1. failed' \subseteq failed
      BY <2>3 DEF ReconsiderBlock, failed
    <3> QED
      BY <1>0, <1>1, <2>3, <3>1 DEF ReconsiderBlock, status
  <2>4. ASSUME NEW b \in Block, PreciousBlock(t, b) PROVE ActiveInv'
    BY <1>0, <1>1, <2>4 DEF PreciousBlock, failure, failed, status
  <2>5. CASE PruneBlockFilesManual(t)
    BY <1>0, <1>1, <2>5 DEF PruneBlockFilesManual, PruneTo, failure, failed, control
  <2> QED
    BY <1>5, <2>1, <2>2, <2>3, <2>4, <2>5, MarkActive DEF Command
<1>6. CASE UNCHANGED vars
  BY <1>6 DEF vars, status, failure, control, failed, ActiveInv, ActiveChainNotFailed, ScriptsClosed
<1> QED
  BY <1>2, <1>4, <1>5, <1>6 DEF Next, ShutDown

\* With one thread and all of the operator's commands: no block of the active chain
\* is marked failed, which is why FindMostWorkChain may stop its walk there, and a
\* block that has passed its script checks has no ancestor that has not, which is
\* why AcceptBlockHeader may skip its search for failed ancestors.
THEOREM ActiveChainSound == Spec => [](OneThread => ActiveChainNotFailed /\ ScriptsClosed)
<1> DEFINE Inv == OneThread => ActiveInv
<1>1. Init => Inv
  BY AncGenesis DEF Init, ActiveInv, ActiveChainNotFailed, ScriptsClosed, failed
<1>2. Inv /\ IInv /\ [Next]_vars => Inv'
  BY StepActive DEF OneThread
<1>3. Inv => (OneThread => ActiveChainNotFailed /\ ScriptsClosed)
  BY DEF ActiveInv
<1> HIDE DEF Inv
<1> QED
  BY <1>1, <1>2, <1>3, Invariance, PTL DEF Spec

\* The same of the script checks alone: with one thread and all of the operator's
\* commands, no block that has passed its script checks has an ancestor that has not.
THEOREM ScriptsClosedHolds == Spec => [](OneThread => ScriptsClosed)
  BY ActiveChainSound, PTL

-----------------------------------------------------------------------------
(* The choice of the chain.                                                *)

\* CBlockIndexWorkComparator is a strict order.
LEMMA WorseOrder ==
  ASSUME NEW s \in [Block -> Int]
  PROVE  /\ \A a, b \in Block : Worse(s, a, b) => ~Worse(s, b, a)
         /\ \A a, b, c \in Block : Worse(s, a, b) /\ Worse(s, b, c) => Worse(s, a, c)
<1>1. \A a \in Block : a \in Nat /\ Work[a] \in Nat /\ s[a] \in Int
  BY TreeAssumption
<1>2. \A a, b \in Block : Worse(s, a, b) => ~Worse(s, b, a)
  BY SMT, <1>1 DEF Worse
<1>3. \A a, b, c \in Block : Worse(s, a, b) /\ Worse(s, b, c) => Worse(s, a, c)
  BY SMT, <1>1 DEF Worse
<1> QED
  BY <1>2, <1>3

\* A block of a chain that is linked and holds no failed block.
Sound(x) == x \in linked /\ Anc[x] \cap failed = {}

\* The candidates that were active once, and so will never be found invalid.
Sure == candidates \cap (scripts \cup {Genesis})

\* Blocks are never found invalid once they were active. A sound chain that is not a
\* candidate is worse than a candidate that was active: PruneBlockIndexCandidates may
\* drop it, even if the step that led there turns out to have been in vain. A target
\* is the best candidate until it is reached, and when it is reached nothing is better.
ChoiceInv ==
    /\ nTx \subseteq haveData
    /\ unlinked \cap linked = {}
    /\ scripts \subseteq linked /\ scripts \cap BadConnect = {}
    /\ (scripts \cup {Genesis}) \cap failed = {}
    /\ \A x \in Block : Sound(x) => x \in candidates \/ \E y \in Sure : Worse(seq, x, y)
    /\ \A t \in Thread : ~aborted /\ mostWork[t] # NULL => IsBest(mostWork[t]) /\ mostWork[t] # tip
    /\ Quiet => \A x \in Block : Sound(x) => ~Worse(seq, tip, x)

FullInv == IInv /\ ActiveInv /\ ChoiceInv

\* The facts about types that are used throughout.
LEMMA Types ==
  ASSUME IInv
  PROVE  /\ index \subseteq Block /\ linked \subseteq Block /\ candidates \subseteq linked
         /\ nTx \subseteq Block /\ scripts \subseteq Block /\ failed \subseteq Block
         /\ tip \in linked /\ seq \in [Block -> Int]
         /\ mostWork \in [Thread -> Block \cup {NULL}]
         /\ pc \in [Thread -> {"idle", "called", "top", "find"}]
  BY DEF IInv, TypeOK, failed

\* The best candidate is as good as any sound chain.
LEMMA BestIsBest ==
  ASSUME IInv, ChoiceInv, NEW m, IsBest(m), NEW x \in Block, Sound(x)
  PROVE  ~Worse(seq, m, x)
<1>0. m \in Block /\ candidates \subseteq Block /\ seq \in [Block -> Int] /\ Sure \subseteq candidates
  BY Types DEF IsBest, Sure
<1>1. \A d \in candidates : d = m \/ Worse(seq, d, m)
  BY DEF IsBest
<1>2. CASE x \in candidates
  <2>1. x = m \/ Worse(seq, x, m)
    BY <1>1, <1>2
  <2> QED
    BY <1>0, <2>1, WorseOrder
<1>3. CASE \E y \in Sure : Worse(seq, x, y)
  <2>1. PICK y \in Sure : Worse(seq, x, y)
    BY <1>3
  <2>2. y = m \/ Worse(seq, y, m)
    BY <1>0, <1>1
  <2>3. Worse(seq, x, m)
    BY <1>0, <2>1, <2>2, WorseOrder
  <2> QED
    BY <1>0, <2>3, WorseOrder
<1> QED
  BY <1>2, <1>3 DEF ChoiceInv

\* The active chain is sound, and a candidate or worse than one that was active.
LEMMA TipSound ==
  ASSUME IInv, ActiveInv
  PROVE  /\ Sound(tip) /\ tip \in Block /\ (tip = Genesis \/ tip \in scripts)
         /\ Sound(Genesis)
<1>1. tip \in linked /\ tip \in Block /\ tip \in Anc[tip] /\ Genesis \in Anc[tip]
  BY Types, AncSelf, AncRoot
<1>2. Anc[tip] \cap failed = {} /\ (tip = Genesis \/ tip \in scripts)
  BY <1>1 DEF ActiveInv, ActiveChainNotFailed
<1> QED
  BY <1>1, <1>2, AncGenesis DEF Sound, IInv

\* A step that changes no link, order, candidate, target or tip, and marks nothing that
\* was active.
LEMMA QuietStep ==
  ASSUME FullInv,
         nTx' = nTx, haveData' = haveData, linked' = linked, unlinked' = unlinked,
         scripts' = scripts, seq' = seq, candidates' = candidates, tip' = tip,
         mostWork' = mostWork, failed \subseteq failed',
         (scripts \cup {Genesis}) \cap failed' = {},
         aborted => aborted',
         Quiet' => Quiet
  PROVE  ChoiceInv'
<1>1. \A x : Sound(x)' => Sound(x)
  BY DEF Sound
<1>2. Sure' = Sure
  BY DEF Sure
<1>3. \A x \in Block : Sound(x)' => x \in candidates' \/ \E y \in Sure' : Worse(seq', x, y)
  BY <1>1, <1>2 DEF FullInv, ChoiceInv
<1>4. \A t \in Thread : ~aborted' /\ mostWork'[t] # NULL => IsBest(mostWork[t])' /\ mostWork'[t] # tip'
  BY DEF FullInv, ChoiceInv, IsBest
<1>5. Quiet' => \A x \in Block : Sound(x)' => ~Worse(seq', tip', x)
  BY <1>1 DEF FullInv, ChoiceInv
<1> QED
  BY <1>3, <1>4, <1>5 DEF FullInv, ChoiceInv, IsBest

\* A block below which something failed was never active.
LEMMA FailedAbove ==
  ASSUME FullInv, NEW x \in Block, NEW f \in Anc[x], f \in failed
  PROVE  x \notin scripts \cup {Genesis}
<1>1. f # Genesis
  BY DEF FullInv, ChoiceInv
<1>2. x # Genesis
  BY SMT, <1>1, AncGenesis
<1>3. x \notin scripts
  BY <1>1 DEF FullInv, ActiveInv, ScriptsClosed, ChoiceInv
<1> QED
  BY <1>2, <1>3

\* AcceptBlockHeader and AcceptBlock refuse something.
LEMMA MarkChoice ==
  ASSUME OneThread, FullInv, NEW t \in Thread
  PROVE  /\ \A b \in Block : RejectBlockHeader(t, b) => ChoiceInv'
         /\ \A b \in Block, r \in BOOLEAN : RefuseBlock(t, b, r) => ChoiceInv'
<1>1. ASSUME NEW b \in Block, RejectBlockHeader(t, b) PROVE ChoiceInv'
  <2> USE <1>1 DEF RejectBlockHeader, status, sequence, control
  <2>1. failed \subseteq failed' /\ (aborted => aborted') /\ (Quiet' => Quiet)
    BY DEF failed, Quiet, Free
  <2>2. Parent[b] \in Block
    BY DEF FullInv, IInv, TypeOK
  <2>3. ASSUME NEW x \in scripts \cup {Genesis}, x \in failed' PROVE FALSE
    <3>1. x \notin failed /\ x \in Block
      BY <2>3, TreeAssumption, Types DEF FullInv, ChoiceInv
    <3>2. PICK f \in FailedBelow(Parent[b]) : f \in failedValid /\ x \in Anc[Parent[b]] \ Anc[f]
      BY <2>3, <3>1 DEF failed
    <3>3. f \in Anc[x] /\ f \in failed
      BY <2>2, <3>2, AncAbove DEF FailedBelow, failed
    <3> QED
      BY <2>3, <3>1, <3>3, FailedAbove
  <2> QED
    BY <2>1, <2>3, QuietStep
<1>2. ASSUME NEW b \in Block, NEW r \in BOOLEAN, RefuseBlock(t, b, r) PROVE ChoiceInv'
  <2> USE <1>2 DEF RefuseBlock, status, sequence, control
  <2>1. failed' = failed \cup {b} /\ aborted' = aborted /\ (Quiet' => Quiet)
    BY DEF failed, Quiet
  <2>2. b \notin scripts \cup {Genesis}
    <3>1. b \notin nTx
      BY DEF FullInv, IInv
    <3> QED
      BY <3>1 DEF FullInv, IInv, TypeOK
  <2> QED
    BY SMT, <2>1, <2>2, QuietStep DEF FullInv, ChoiceInv
<1> QED
  BY <1>1, <1>2

\* What ReceivedBlockTransactions links was not linked before.
LEMMA LinkableNew ==
  ASSUME IInv, nTx \subseteq haveData, unlinked \cap linked = {},
         NEW b \in Block, b \in index \ haveData
  PROVE  Linkable(b) \cap linked = {}
<1> SUFFICES ASSUME NEW x \in Linkable(b), x \in linked PROVE FALSE
  OBVIOUS
<1>1. x \in Block /\ b \in Anc[x] /\ Anc[x] \ Anc[b] \subseteq unlinked /\ x \in nTx
  BY Types DEF Linkable, IInv, TypeOK
<1>2. b \notin nTx
  OBVIOUS
<1>3. x \notin Anc[b]
  <2> SUFFICES ASSUME x \in Anc[b] PROVE FALSE
    OBVIOUS
  <2>1. Work[x] < Work[b] /\ Work[b] < Work[x]
    BY <1>1, <1>2, AncWork
  <2> QED
    BY SMT, <1>1, <2>1, TreeAssumption
<1>4. x \in unlinked
  BY <1>1, <1>3, AncSelf
<1> QED
  BY <1>4

\* AcceptBlock, ReceivedBlockTransactions.
LEMMA ReceiveChoice ==
  ASSUME OneThread, FullInv, NEW t \in Thread, NEW b \in Block, NEW r \in BOOLEAN,
         ReceiveBlock(t, b, r)
  PROVE  ChoiceInv'
<1> USE DEF FullInv
<1>0. /\ b \in index \ haveData /\ b # Genesis /\ nTx' = nTx \cup {b} /\ haveData' = haveData \cup {b}
      /\ failed' = failed /\ tip' = tip /\ scripts' = scripts /\ mostWork' = mostWork
      /\ pc' = [pc EXCEPT ![t] = "called"] /\ Free(t)
  BY DEF ReceiveBlock, failure, failed
<1>1. (\A u \in Thread : mostWork'[u] = NULL) /\ ~Quiet'
  BY <1>0, FreeNoTarget, Types DEF Quiet
<1>2. b \notin nTx /\ b \notin linked
  BY <1>0 DEF ChoiceInv, IInv, TypeOK
<1>3. CASE Parent[b] \in linked
  <2> DEFINE L == Linkable(b)
  <2>1. /\ linked' = linked \cup L /\ unlinked' = unlinked \ L
        /\ candidates' = candidates \cup {x \in L : ~Worse(seq', x, tip)}
        /\ \E n \in Numberings(L) : seq' = [x \in Block |-> IF x \in L THEN n[x] ELSE seq[x]]
    BY <1>3 DEF ReceiveBlock, LinkBlock
  <2>2. L \cap linked = {} /\ L \subseteq Block
    BY <1>0, LinkableNew, Types DEF Linkable, ChoiceInv
  <2>3. seq' \in [Block -> Int] /\ \A x \in linked : seq'[x] = seq[x]
    <3>1. seq' \in [Block -> Int]
      BY SMTT(30), ReceiveBlockIInv DEF IInv, TypeOK
    <3>2. \A x \in linked : seq'[x] = seq[x]
      BY <2>1, <2>2, Types
    <3> QED
      BY <3>1, <3>2
  <2>4. \A x, y \in linked : Worse(seq, x, y) <=> Worse(seq', x, y)
    BY <2>3 DEF Worse
  <2>5. Sure \subseteq Sure' /\ Sure \subseteq linked /\ linked \subseteq Block
    BY <1>0, <2>1, Types DEF Sure
  <2>6. ASSUME NEW x \in Block, Sound(x)'
        PROVE  x \in candidates' \/ \E y \in Sure' : Worse(seq', x, y)
    <3>1. CASE x \in linked
      <4>1. x \in candidates \/ \E y \in Sure : Worse(seq, x, y)
        BY <1>0, <2>6, <3>1 DEF Sound, ChoiceInv
      <4> QED
        BY <2>1, <2>4, <2>5, <3>1, <4>1
    <3>2. CASE x \in L /\ Worse(seq', x, tip)
      <4>1. Sound(tip) /\ tip \in Block /\ (tip = Genesis \/ tip \in scripts) /\ tip \in linked
        BY TipSound, Types
      <4>2. tip \in Sure \/ \E y \in Sure : Worse(seq, tip, y)
        BY <4>1 DEF ChoiceInv, Sure
      <4>3. CASE tip \in Sure
        BY <2>5, <3>2, <4>3
      <4>4. CASE \E y \in Sure : Worse(seq, tip, y)
        <5>1. PICK y \in Sure : Worse(seq', tip, y)
          BY <2>4, <2>5, <4>1, <4>4
        <5>2. y \in Block /\ Worse(seq', x, y)
          BY <2>3, <2>5, <3>2, <4>1, <5>1, WorseOrder
        <5> QED
          BY <2>5, <5>2
      <4> QED
        BY <4>2, <4>3, <4>4
    <3> QED
      BY <2>1, <2>6, <3>1, <3>2 DEF Sound
  <2> QED
    BY <1>0, <1>1, <2>1, <2>6 DEF ChoiceInv
<1>4. CASE Parent[b] \notin linked
  <2>1. /\ linked' = linked /\ unlinked' \subseteq unlinked \cup {b}
        /\ seq' = seq /\ candidates' = candidates
    BY <1>2, <1>4 DEF ReceiveBlock, KeepUnlinked
  <2>2. Sure' = Sure /\ \A x : Sound(x)' <=> Sound(x)
    BY <1>0, <2>1 DEF Sure, Sound
  <2>3. \A x \in Block : Sound(x)' => x \in candidates' \/ \E y \in Sure' : Worse(seq', x, y)
    BY <2>1, <2>2 DEF ChoiceInv
  <2> QED
    BY <1>0, <1>1, <1>2, <2>1, <2>3 DEF ChoiceInv
<1> QED
  BY <1>3, <1>4

\* FindMostWorkChain discards a candidate: it was not sound.
LEMMA DiscardChoice ==
  ASSUME OneThread, FullInv, NEW t \in Thread, DiscardCandidate(t)
  PROVE  ChoiceInv'
<1> USE DEF FullInv
<1>0. /\ nTx' = nTx /\ haveData' = haveData /\ linked' = linked /\ scripts' = scripts
      /\ seq' = seq /\ tip' = tip /\ mostWork' = mostWork /\ mostWork[t] = NULL
      /\ pc' = [pc EXCEPT ![t] = "find"]
  BY DEF DiscardCandidate, status, sequence
<1>1. (\A u \in Thread : mostWork'[u] = NULL) /\ ~Quiet'
  BY <1>0, Types DEF Quiet, OneThread
<1>2. PICK c \in candidates : \E test \in Unusable(c) :
        /\ candidates' = candidates \ ((Anc[c] \ Anc[test]) \cup {test})
        /\ DropChain(test, Anc[c] \ Anc[test])
        /\ failedValid' = failedValid
  BY DEF DiscardCandidate
<1>3. PICK test \in Unusable(c) :
        /\ candidates' = candidates \ ((Anc[c] \ Anc[test]) \cup {test})
        /\ DropChain(test, Anc[c] \ Anc[test])
        /\ failedValid' = failedValid
  BY <1>2
<1>4. c \in Block /\ Anc[c] \subseteq haveData /\ test \in Anc[c]
  BY <1>3, IInvAnc, Types DEF ChoiceInv, IInv, TypeOK, Unusable
<1>5. test \in failed
  BY <1>3, <1>4 DEF Unusable
<1>6. unlinked' = unlinked /\ failed' = failed \cup (Anc[c] \ Anc[test])
  BY <1>3, <1>5 DEF DropChain, failed
<1>7. (scripts \cup {Genesis}) \cap failed' = {}
  <2> SUFFICES ASSUME NEW x \in Anc[c] \ Anc[test] PROVE x \notin scripts \cup {Genesis}
    BY <1>6 DEF ChoiceInv
  <2>1. x \in Block /\ test \in Anc[x]
    BY <1>4, AncAbove, AncType
  <2> QED
    BY <1>5, <2>1, FailedAbove
<1>8. Sure' = Sure
  BY <1>0, <1>3, <1>5, <1>6, <1>7 DEF Sure
<1>9. ASSUME NEW x \in Block, Sound(x)'
      PROVE  x \in candidates' \/ \E y \in Sure' : Worse(seq', x, y)
  <2>1. Sound(x) /\ x \notin failed'
    BY <1>0, <1>6, <1>9, AncSelf DEF Sound
  <2>2. x \in candidates => x \in candidates'
    BY <1>3, <1>5, <1>6, <2>1
  <2> QED
    BY <1>0, <1>8, <2>1, <2>2 DEF ChoiceInv
<1> QED
  BY <1>0, <1>1, <1>6, <1>7, <1>9 DEF ChoiceInv

\* ActivateBestChain returns: nothing is better than the tip.
LEMMA NothingChoice ==
  ASSUME OneThread, FullInv, NEW t \in Thread, NothingToDo(t)
  PROVE  ChoiceInv'
<1> USE DEF FullInv
<1>0. /\ nTx' = nTx /\ haveData' = haveData /\ linked' = linked /\ scripts' = scripts
      /\ seq' = seq /\ tip' = tip /\ candidates' = candidates /\ unlinked' = unlinked
      /\ failed' = failed /\ mostWork' = [mostWork EXCEPT ![t] = NULL]
  BY DEF NothingToDo, status, sequence, failure, failed
<1>1. \A u \in Thread : mostWork'[u] = NULL
  BY <1>0, Types DEF OneThread
<1>2. Sure' = Sure /\ \A x : Sound(x)' <=> Sound(x)
  BY <1>0 DEF Sure, Sound
<1>3. IsBest(tip)
  <2>1. candidates # {}
    <3>1. Sound(Genesis) /\ Genesis \in Block
      BY TipSound, TreeAssumption
    <3> QED
      BY <3>1 DEF ChoiceInv, Sure
  <2>2. Target(t, tip)
    BY <2>1 DEF NothingToDo
  <2> QED
    BY <2>2 DEF Target, Running, ChoiceInv
<1>4. \A x \in Block : Sound(x)' => ~Worse(seq', tip', x)
  BY <1>0, <1>2, <1>3, BestIsBest
<1>5. \A x \in Block : Sound(x)' => x \in candidates' \/ \E y \in Sure' : Worse(seq', x, y)
  BY <1>0, <1>2 DEF ChoiceInv
<1> QED
  BY <1>0, <1>1, <1>4, <1>5 DEF ChoiceInv

\* ActivateBestChainStep: what PruneBlockIndexCandidates drops is worse than the new
\* tip, and the new tip is a candidate that was active or worse than one.
LEMMA ActivateChoice ==
  ASSUME OneThread, FullInv, NEW t \in Thread, ActivateStep(t)
  PROVE  ChoiceInv'
<1> USE DEF FullInv
<1> DEFINE connected(n) == Anc[n] \ Anc[tip]
           invalid(n, m) == Tried(m, n) \cap haveData
           Ends(m, n) ==
             /\ Target(t, m) /\ StepEndsAt(m, n)
             /\ tip' = n
             /\ scripts' = scripts \cup (connected(n) \ failed)
             /\ failedValid' = failedValid \cup invalid(n, m)
             /\ candidates' = (IF connected(n) = {} THEN candidates ELSE Pruned(n)) \ invalid(n, m)
             /\ mostWork' = [mostWork EXCEPT ![t] = NextTarget(m, n, invalid(n, m))]
             /\ pc' = [pc EXCEPT ![t] = IF n = m THEN "idle" ELSE "top"]
<1>1. PICK m \in Block \ {tip} : \E new \in Anc[m] : Ends(m, new)
  BY DEF ActivateStep
<1>2. PICK new \in Anc[m] : Ends(m, new)
  BY <1>1
<1>3. /\ nTx' = nTx /\ haveData' = haveData /\ linked' = linked /\ unlinked' = unlinked
      /\ seq' = seq /\ failedChild' = failedChild
  BY DEF ActivateStep, sequence
<1>4. IsBest(m) /\ (Anc[m] \ Anc[tip]) \cap failed = {}
  <2>1. CASE mostWork[t] # NULL
    BY <1>2, <2>1 DEF Target, Running, ActiveInv, ChoiceInv
  <2>2. CASE mostWork[t] = NULL
    BY <1>2, <2>2 DEF Target, Unusable
  <2> QED
    BY <2>1, <2>2
<1>5. /\ m \in candidates /\ Anc[m] \subseteq linked /\ Anc[m] \subseteq haveData
      /\ new \in Block /\ Anc[new] \subseteq Anc[m] /\ new \in Anc[new] /\ m \in Anc[m]
      /\ candidates \subseteq Block /\ seq \in [Block -> Int]
  BY <1>4, IInvAnc, Types, AncType, AncSelf, AncTrans DEF IsBest, ChoiceInv, IInv, TypeOK
<1>6. /\ invalid(new, m) \subseteq BadConnect /\ invalid(new, m) \cap Anc[new] = {}
      /\ connected(new) \cap BadConnect = {} /\ connected(new) \cap failed = {}
  BY <1>2, <1>4, <1>5 DEF StepEndsAt, Tried, Refused
<1>7. /\ scripts' = scripts \cup connected(new) /\ failed' = failed \cup invalid(new, m)
      /\ scripts' \subseteq linked' /\ scripts' \cap BadConnect = {}
  <2>1. scripts' = scripts \cup connected(new)
    BY <1>2, <1>6
  <2>2. failed' = failed \cup invalid(new, m)
    BY <1>2, <1>3 DEF failed
  <2> QED
    BY <1>3, <1>5, <1>6, <2>1, <2>2 DEF ChoiceInv
<1>8. (scripts' \cup {Genesis}) \cap failed' = {}
  BY <1>6, <1>7, VerdictAssumption DEF ChoiceInv
<1>9. \A x \in Block : Sound(x)' => Sound(x) /\ x \notin invalid(new, m)
  BY <1>3, <1>7, AncSelf DEF Sound
<1>10. Sound(new) /\ new \in scripts' \cup {Genesis} /\ new \notin invalid(new, m)
  BY <1>5, <1>6, <1>7 DEF Sound, ActiveInv, ActiveChainNotFailed
<1>11. Sure \cap invalid(new, m) = {} /\ Sure \subseteq candidates
       /\ Sure \subseteq scripts' \cup {Genesis}
  BY <1>7, <1>8 DEF Sure
<1>12. ASSUME NEW x \in Block, Sound(x)'
       PROVE  x \in candidates' \/ \E y \in Sure' : Worse(seq', x, y)
  <2>0. (x \in candidates \/ \E y \in Sure : Worse(seq, x, y)) /\ x \notin invalid(new, m)
    BY <1>9, <1>12 DEF ChoiceInv
  <2>1. CASE connected(new) = {}
    <3>1. candidates' = candidates \ invalid(new, m)
      BY <1>2, <2>1
    <3>2. Sure \subseteq Sure'
      BY <1>11, <3>1 DEF Sure
    <3> QED
      BY <1>3, <2>0, <3>1, <3>2
  <2>2. CASE connected(new) # {}
    <3>1. candidates' = Pruned(new) \ invalid(new, m)
      BY <1>2, <2>2
    <3>2. PICK z \in Sure' : z = new \/ Worse(seq, new, z)
      <4>1. CASE new \in candidates
        <5>1. ~Worse(seq, new, new)
          BY <1>5, WorseOrder
        <5>2. new \in Sure'
          BY <1>10, <3>1, <4>1, <5>1 DEF Pruned, Sure
        <5> QED
          BY <5>2
      <4>2. CASE \E y \in Sure : Worse(seq, new, y)
        <5>1. PICK y \in Sure : Worse(seq, new, y)
          BY <4>2
        <5>2. ~Worse(seq, y, new)
          BY <1>5, <1>11, <5>1, WorseOrder
        <5>3. y \in Sure'
          BY <1>11, <3>1, <5>2 DEF Pruned, Sure
        <5> QED
          BY <5>1, <5>3
      <4> QED
        BY <1>5, <1>10, <4>1, <4>2 DEF ChoiceInv
    <3>3. z \in Block
      BY <1>5, <3>1 DEF Sure, Pruned
    <3>4. Worse(seq, x, new) => Worse(seq, x, z)
      BY <1>5, <3>2, <3>3, WorseOrder
    <3>5. CASE x \in candidates
      BY <1>3, <2>0, <3>1, <3>4, <3>5 DEF Pruned
    <3>6. CASE \E y \in Sure : Worse(seq, x, y)
      <4>1. PICK y \in Sure : Worse(seq, x, y)
        BY <3>6
      <4>2. CASE Worse(seq, y, new)
        <5>1. Worse(seq, x, new)
          BY <1>5, <1>11, <4>1, <4>2, WorseOrder
        <5> QED
          BY <1>3, <3>4, <5>1
      <4>3. CASE ~Worse(seq, y, new)
        <5>1. y \in Sure'
          BY <1>11, <3>1, <4>3 DEF Pruned, Sure
        <5> QED
          BY <1>3, <4>1, <5>1
      <4> QED
        BY <4>2, <4>3
    <3> QED
      BY <2>0, <3>5, <3>6
  <2> QED
    BY <2>1, <2>2
<1>13. ASSUME NEW u \in Thread, mostWork'[u] # NULL
       PROVE  IsBest(mostWork[u])' /\ mostWork'[u] # tip'
  <2>1. mostWork'[u] = NextTarget(m, new, invalid(new, m))
    BY <1>2, Types DEF OneThread
  <2>2. mostWork'[u] = m /\ new # m /\ invalid(new, m) = {}
    BY <1>13, <2>1 DEF NextTarget
  <2>3. Work[new] < Work[m]
    BY <2>2, AncWork
  <2>4. ~Worse(seq, m, new)
    BY SMT, <1>5, <2>3, TreeAssumption DEF Worse
  <2>5. m \in candidates' /\ candidates' \subseteq candidates
    BY <1>2, <1>5, <2>2, <2>4 DEF Pruned
  <2> QED
    BY <1>2, <1>3, <1>4, <2>2, <2>5 DEF IsBest
<1>14. ASSUME Quiet', NEW x \in Block, Sound(x)' PROVE ~Worse(seq', tip', x)
  <2>1. new = m
    BY <1>2, <1>14, Types DEF Quiet
  <2> QED
    BY <1>2, <1>3, <1>4, <1>9, <1>14, <2>1, BestIsBest
<1>15. nTx' \subseteq haveData' /\ unlinked' \cap linked' = {}
  BY <1>3 DEF ChoiceInv
<1> QED
  BY <1>7, <1>8, <1>12, <1>13, <1>14, <1>15 DEF ChoiceInv

-----------------------------------------------------------------------------
(* The candidates and the numbers of preciousblock. *)

\* Of two blocks one is worse.
LEMMA WorseTotal ==
  ASSUME NEW s \in [Block -> Int], NEW a \in Block, NEW b \in Block, a # b
  PROVE  Worse(s, a, b) \/ Worse(s, b, a)
<1>1. a \in Nat /\ b \in Nat /\ Work[a] \in Nat /\ Work[b] \in Nat /\ s[a] \in Int /\ s[b] \in Int
  BY TreeAssumption
<1> QED
  BY SMT, <1>1 DEF Worse

\* The tip is below a chain that was active when preciousblock was used last, or at
\* least as good as it. The numbers preciousblock gives out are smaller than those of all
\* sound blocks it competes with: blocks with more work than the tip had then have their
\* number from ReceivedBlockTransactions.
RankInv ==
    /\ \E y \in scripts \cup {Genesis} : Work[y] >= lastPreciousWork
    /\ \A x \in Block : Sound(x) =>
          /\ Work[x] > lastPreciousWork => seq[x] >= 0
          /\ Work[x] = lastPreciousWork => seq[x] >= nextPrecious

\* No candidate is ever worse than the tip. When ActivateBestChain has not begun or has
\* returned, every sound chain that is not worse than the tip is a candidate.
PlaceInv ==
    /\ \A c \in candidates : ~Worse(seq, c, tip)
    /\ Settled => \A x \in Block : Sound(x) /\ ~Worse(seq, x, tip) => x \in candidates

TotalInv == FullInv /\ RankInv /\ PlaceInv

\* A step that moves no number of a sound chain keeps the ranks.
LEMMA RankKeeps ==
  ASSUME RankInv, scripts \subseteq scripts', seq' = seq,
         lastPreciousWork' = lastPreciousWork, nextPrecious' = nextPrecious,
         \A x \in Block : Sound(x)' => Sound(x)
  PROVE  RankInv'
  BY DEF RankInv

\* A step that changes nothing but marks and where a thread stands.
LEMMA QuietPlace ==
  ASSUME TotalInv, linked' = linked, scripts' = scripts, UNCHANGED sequence,
         candidates' = candidates, tip' = tip, failed \subseteq failed',
         Settled' => Settled
  PROVE  RankInv' /\ PlaceInv'
<1>1. \A x \in Block : Sound(x)' => Sound(x)
  BY DEF Sound
<1>2. RankInv'
  BY <1>1, RankKeeps DEF TotalInv, sequence
<1>3. PlaceInv'
  BY <1>1 DEF TotalInv, PlaceInv, sequence
<1> QED
  BY <1>2, <1>3

\* What is not worse than the tip is not worse than an ancestor of it.
LEMMA BackNotWorse ==
  ASSUME IInv, NEW a \in Anc[tip], NEW c \in Block, ~Worse(seq, c, tip)
  PROVE  ~Worse(seq, c, a)
<1>1. tip \in Block /\ a \in Block
  BY Types, AncType
<1>2. Work[a] \in Nat /\ Work[c] \in Nat /\ Work[tip] \in Nat
  BY <1>1, TreeAssumption
<1>3. CASE a # tip
  <2>1. Work[a] < Work[tip]
    BY <1>1, <1>3, AncWork
  <2>2. ~(Work[c] < Work[tip])
    BY DEF Worse
  <2> QED
    BY SMT, <1>2, <2>1, <2>2 DEF Worse
<1> QED
  BY <1>3

\* Every sound chain that is not worse than the best candidate is a candidate.
LEMMA BestSound ==
  ASSUME IInv, ChoiceInv, NEW m, IsBest(m), NEW x \in Block, Sound(x), ~Worse(seq, x, m)
  PROVE  x \in candidates
<1>0. m \in Block /\ candidates \subseteq Block /\ seq \in [Block -> Int] /\ Sure \subseteq candidates
  BY Types DEF IsBest, Sure
<1> SUFFICES ASSUME NEW y \in Sure, Worse(seq, x, y) PROVE FALSE
  BY DEF ChoiceInv
<1>1. y = m \/ Worse(seq, y, m)
  BY <1>0 DEF IsBest
<1> QED
  BY <1>0, <1>1, WorseOrder

\* AcceptBlock, ReceivedBlockTransactions.
LEMMA ReceivePlace ==
  ASSUME OneThread, TotalInv, NEW t \in Thread, NEW b \in Block, NEW r \in BOOLEAN,
         ReceiveBlock(t, b, r)
  PROVE  RankInv' /\ PlaceInv'
<1> USE DEF TotalInv, FullInv
<1>0. /\ b \in index \ haveData /\ failed' = failed /\ tip' = tip /\ scripts' = scripts
      /\ lastPreciousWork' = lastPreciousWork /\ nextPrecious' = nextPrecious
      /\ Free(t)
  BY DEF ReceiveBlock, failure, failed
<1>1. Settled
  BY <1>0, Types DEF Free, Settled, OneThread
<1>2. CASE Parent[b] \in linked
  <2> DEFINE L == Linkable(b)
  <2>1. /\ linked' = linked \cup L
        /\ candidates' = candidates \cup {x \in L : ~Worse(seq', x, tip)}
        /\ \E n \in Numberings(L) : seq' = [x \in Block |-> IF x \in L THEN n[x] ELSE seq[x]]
    BY <1>2 DEF ReceiveBlock, LinkBlock
  <2>2. L \cap linked = {} /\ L \subseteq Block
    BY <1>0, LinkableNew, Types DEF Linkable, ChoiceInv
  <2>3. \A x \in linked : seq'[x] = seq[x]
    BY <2>1, <2>2, Types
  <2>4. \A x \in L : seq'[x] \in Int /\ seq'[x] >= 0
    <3>1. PICK n \in Numberings(L) : seq' = [x \in Block |-> IF x \in L THEN n[x] ELSE seq[x]]
      BY <2>1
    <3>2. n \in [L -> nextSeq .. nextSeq + Cardinality(L) - 1]
      BY DEF Numberings
    <3>3. nextSeq \in Nat
      BY DEF IInv, TypeOK
    <3> HIDE DEF L
    <3>4. \A x \in L : n[x] \in Int /\ nextSeq <= n[x]
      BY SMT, <3>2
    <3> QED
      BY SMT, <2>2, <3>1, <3>3, <3>4
  <2>5. \A x, y \in linked : Worse(seq, x, y) <=> Worse(seq', x, y)
    BY <2>3 DEF Worse
  <2>6. \A x \in Block : Sound(x)' => (Sound(x) /\ x \in linked) \/ x \in L
    BY <1>0, <2>1 DEF Sound
  <2>7. RankInv'
    <3>1. \A x \in Block : Sound(x)' =>
            /\ Work[x] > lastPreciousWork => seq'[x] >= 0
            /\ Work[x] = lastPreciousWork => seq'[x] >= nextPrecious
      <4>1. nextPrecious \in Int /\ nextPrecious <= 0
        BY SMTT(30), BoundAssumption DEF IInv, TypeOK
      <4> HIDE DEF L
      <4> QED
        BY SMT, <2>3, <2>4, <2>6, <4>1 DEF RankInv
    <3> QED
      BY <1>0, <3>1 DEF RankInv
  <2>8. tip \in linked /\ candidates \subseteq linked
    BY Types
  <2>9. PlaceInv'
    <3>1. \A c \in candidates' : ~Worse(seq', c, tip)
      BY <2>1, <2>5, <2>8 DEF PlaceInv
    <3>2. ASSUME NEW x \in Block, Sound(x)', ~Worse(seq', x, tip) PROVE x \in candidates'
      BY <1>1, <2>1, <2>5, <2>6, <2>8, <3>2 DEF PlaceInv
    <3> QED
      BY <1>0, <3>1, <3>2 DEF PlaceInv
  <2> QED
    BY <2>7, <2>9
<1>3. CASE Parent[b] \notin linked
  <2>1. linked' \subseteq linked /\ seq' = seq /\ candidates' = candidates
    BY <1>3 DEF ReceiveBlock, KeepUnlinked
  <2>2. \A x \in Block : Sound(x)' => Sound(x)
    BY <1>0, <2>1 DEF Sound
  <2> QED
    BY <1>0, <1>1, <2>1, <2>2, RankKeeps DEF PlaceInv
<1> QED
  BY <1>2, <1>3

\* FindMostWorkChain discards a candidate.
LEMMA DiscardPlace ==
  ASSUME TotalInv, NEW t \in Thread, DiscardCandidate(t)
  PROVE  RankInv' /\ PlaceInv'
<1> USE DEF TotalInv, FullInv
<1>1. /\ linked' = linked /\ scripts' = scripts /\ UNCHANGED sequence /\ tip' = tip
      /\ candidates' \subseteq candidates /\ failed \subseteq failed'
      /\ pc' = [pc EXCEPT ![t] = "find"]
  BY DEF DiscardCandidate, DropChain, status, failed
<1>2. \A x \in Block : Sound(x)' => Sound(x)
  BY <1>1 DEF Sound
<1>3. ~Settled'
  BY <1>1, Types DEF Settled
<1> QED
  BY <1>1, <1>2, <1>3, RankKeeps DEF PlaceInv, sequence

\* ActivateBestChain returns when the tip is the best candidate: there always is one.
LEMMA NothingBest ==
  ASSUME FullInv, NEW t \in Thread, NothingToDo(t)
  PROVE  IsBest(tip)
<1> USE DEF FullInv
<1>1. Sound(Genesis) /\ Genesis \in Block
  BY TipSound, TreeAssumption
<1>2. candidates # {}
  BY <1>1 DEF ChoiceInv, Sure
<1>3. Target(t, tip)
  BY <1>2 DEF NothingToDo
<1> QED
  BY <1>3 DEF Target, Running, ChoiceInv

\* ActivateBestChain returns.
LEMMA NothingPlace ==
  ASSUME TotalInv, NEW t \in Thread, NothingToDo(t)
  PROVE  RankInv' /\ PlaceInv'
<1> USE DEF TotalInv, FullInv
<1>1. /\ linked' = linked /\ scripts' = scripts /\ UNCHANGED sequence
      /\ tip' = tip /\ candidates' = candidates /\ failed' = failed
  BY DEF NothingToDo, status, failure, failed
<1>2. \A x \in Block : Sound(x)' => Sound(x)
  BY <1>1 DEF Sound
<1>3. \A x \in Block : Sound(x) /\ ~Worse(seq, x, tip) => x \in candidates
  BY NothingBest, BestSound
<1> QED
  BY <1>1, <1>2, <1>3, RankKeeps DEF PlaceInv, sequence

\* ActivateBestChainStep: PruneBlockIndexCandidates drops what is worse than the new tip;
\* if nothing was connected, the new tip is below the old one.
LEMMA ActivatePlace ==
  ASSUME OneThread, TotalInv, NEW t \in Thread, ActivateStep(t)
  PROVE  RankInv' /\ PlaceInv'
<1> USE DEF TotalInv, FullInv
<1> DEFINE connected(n) == Anc[n] \ Anc[tip]
           invalid(n, m) == Tried(m, n) \cap haveData
           Ends(m, n) ==
             /\ Target(t, m) /\ StepEndsAt(m, n)
             /\ tip' = n
             /\ scripts' = scripts \cup (connected(n) \ failed)
             /\ failedValid' = failedValid \cup invalid(n, m)
             /\ candidates' = (IF connected(n) = {} THEN candidates ELSE Pruned(n)) \ invalid(n, m)
             /\ mostWork' = [mostWork EXCEPT ![t] = NextTarget(m, n, invalid(n, m))]
             /\ pc' = [pc EXCEPT ![t] = IF n = m THEN "idle" ELSE "top"]
<1>1. PICK m \in Block \ {tip} : \E new \in Anc[m] : Ends(m, new)
  BY DEF ActivateStep
<1>2. PICK new \in Anc[m] : Ends(m, new)
  BY <1>1
<1>3. linked' = linked /\ UNCHANGED sequence /\ failedChild' = failedChild
  BY DEF ActivateStep
<1>4. \A x \in Block : Sound(x)' => Sound(x) /\ x \notin invalid(new, m)
  BY <1>2, <1>3, AncSelf DEF Sound, failed
<1>5. IsBest(m)
  BY <1>2 DEF Target, Running, ChoiceInv
<1>6. new \in Block /\ new \in Anc[new] /\ candidates \subseteq Block
  BY AncType, AncSelf, Types
<1> HIDE DEF invalid
<1>7. ASSUME NEW c \in candidates' PROVE ~Worse(seq, c, new)
  <2>1. CASE connected(new) = {}
    <3>1. new \in Anc[tip] /\ c \in candidates
      BY <1>2, <1>6, <1>7, <2>1
    <3> QED
      BY <1>6, <3>1, BackNotWorse DEF PlaceInv
  <2>2. CASE connected(new) # {}
    BY <1>2, <1>7, <2>2 DEF Pruned
  <2> QED
    BY <2>1, <2>2
<1>8. ASSUME Settled', NEW x \in Block, Sound(x)', ~Worse(seq, x, new) PROVE x \in candidates'
  <2>1. new = m
    BY <1>2, <1>8, Types DEF Settled
  <2>2. x \in candidates
    BY <1>4, <1>5, <1>8, <2>1, BestSound
  <2> QED
    BY <1>2, <1>4, <1>8, <2>2 DEF Pruned
<1>9. seq' = seq /\ tip' = new
  BY <1>2, <1>3 DEF sequence
<1>10. PlaceInv'
  BY <1>7, <1>8, <1>9 DEF PlaceInv
<1>11. scripts \subseteq scripts'
  BY <1>2
<1>12. RankInv'
  BY <1>3, <1>4, <1>11, RankKeeps DEF sequence
<1> QED
  BY <1>10, <1>12

\* DisconnectTip cannot read a block of the active chain.
LEMMA AbortPlace ==
  ASSUME TotalInv, NEW t \in Thread, ActivateAbort(t)
  PROVE  RankInv' /\ PlaceInv'
<1> USE DEF TotalInv, FullInv
<1>1. PICK m \in Block : DisconnectAbort(Anc[tip] \ Anc[m])
  BY DEF ActivateAbort
<1>2. /\ linked' = linked /\ scripts' = scripts /\ UNCHANGED sequence
      /\ tip' \in Anc[tip] /\ candidates' = candidates /\ failed' = failed /\ ~Settled'
  BY <1>1 DEF DisconnectAbort, status, failure, failed, Settled
<1>3. \A x \in Block : Sound(x)' => Sound(x)
  BY <1>2 DEF Sound
<1>4. \A c \in candidates : ~Worse(seq, c, tip')
  BY <1>2, Types, BackNotWorse DEF PlaceInv
<1> QED
  BY <1>2, <1>3, <1>4, RankKeeps DEF PlaceInv, sequence

\* PreciousBlock, called when ActivateBestChain has returned: the tip is the only sound
\* chain among the candidates. The number b gets is not larger than that of any sound
\* block with the work of the tip, so no block the tip was better than is better now.
LEMMA PreciousChoice ==
  ASSUME OneThread, TotalInv, NEW t \in Thread, NEW b \in Block, PreciousBlock(t, b)
  PROVE  ChoiceInv' /\ RankInv' /\ PlaceInv'
<1> USE DEF TotalInv, FullInv
<1> DEFINE id == IF Work[tip] > lastPreciousWork THEN -1 ELSE nextPrecious
<1>0. /\ Free(t) /\ Work[b] >= Work[tip]
      /\ lastPreciousWork' = Work[tip]
      /\ nextPrecious' = (IF id > -MaxPrecious THEN id - 1 ELSE id)
      /\ seq' = [seq EXCEPT ![b] = id]
      /\ candidates' = PreciousCandidates(seq', b)
      /\ pc' = [pc EXCEPT ![t] = "top"]
      /\ nTx' = nTx /\ haveData' = haveData /\ linked' = linked /\ scripts' = scripts
      /\ failed' = failed /\ unlinked' = unlinked /\ tip' = tip /\ mostWork' = mostWork
  BY DEF PreciousBlock, status, failure, failed
<1>1. Settled /\ Quiet
  BY <1>0, Types DEF Free, Settled, Quiet, OneThread
<1>2. ~Settled' /\ ~Quiet'
  BY <1>0, Types DEF Settled, Quiet
<1>3. /\ Sound(tip) /\ tip \in Block /\ tip \in linked /\ tip \in scripts \cup {Genesis}
      /\ seq \in [Block -> Int] /\ id \in Int
      /\ \A x \in Block : Work[x] \in Nat /\ x \in Nat /\ seq[x] \in Int
      /\ lastPreciousWork \in Nat /\ nextPrecious \in Int /\ nextPrecious <= -1 /\ MaxPrecious \in Int
  <2>1. nextPrecious \in -MaxPrecious .. -1 /\ lastPreciousWork \in Nat /\ MaxPrecious \in Nat
    BY BoundAssumption DEF IInv, TypeOK
  <2>2. nextPrecious \in Int /\ nextPrecious <= -1 /\ -MaxPrecious <= nextPrecious /\ MaxPrecious \in Int
    BY SMT, <2>1
  <2>3. Sound(tip) /\ tip \in Block /\ tip \in linked /\ tip \in scripts \cup {Genesis}
    BY TipSound, Types
  <2> QED
    BY SMT, <2>1, <2>2, <2>3, Types, TreeAssumption
<1>4. \A x \in Block : Sound(x) /\ x # tip => Worse(seq, x, tip)
  BY <1>1, <1>3, WorseTotal DEF ChoiceInv
<1>5. tip \in candidates
  BY <1>1, <1>3, WorseOrder DEF PlaceInv
<1>6. Work[tip] >= lastPreciousWork
  <2>1. PICK y \in scripts \cup {Genesis} : Work[y] >= lastPreciousWork
    BY DEF RankInv
  <2>2. y \in Block /\ Sound(y)
    <3>1. CASE y = Genesis
      BY <3>1, TipSound, TreeAssumption
    <3>2. CASE y \in scripts
      <4>1. y \in linked /\ y \in Block /\ Anc[y] \subseteq scripts \cup {Genesis}
        BY <3>2, Types DEF ChoiceInv, ActiveInv, ScriptsClosed
      <4> QED
        BY <4>1 DEF Sound, ChoiceInv
    <3> QED
      BY <3>1, <3>2
  <2>3. ~(Work[tip] < Work[y])
    BY <1>1, <2>2 DEF ChoiceInv, Worse
  <2> QED
    BY SMT, <1>3, <2>1, <2>2, <2>3
<1>7. \A x \in Block : Sound(x) /\ Work[x] = Work[tip] => id <= seq[x]
  BY SMT, <1>3, <1>6 DEF RankInv
<1> HIDE DEF id
<1>8. ASSUME NEW x \in Block, Sound(x), x # tip, x # b PROVE Worse(seq', x, tip)
  <2>1. Worse(seq, x, tip) /\ seq'[x] = seq[x]
    BY <1>0, <1>3, <1>4, <1>8
  <2>2. seq'[tip] \in Int /\ seq'[tip] <= seq[tip]
    BY SMTT(30), <1>0, <1>3, <1>7
  <2> QED
    BY SMT, <1>3, <2>1, <2>2 DEF Worse
<1>9. seq' \in [Block -> Int]
  BY <1>0, <1>3
<1>10. tip \in scripts' \cup {Genesis}
  BY <1>0, <1>3
<1>11. \A c \in Block : c # b => seq'[c] = seq[c]
  BY <1>0, <1>3
<1>12. tip \in Sure' /\ \A c \in candidates' : ~Worse(seq', c, tip)
  <2>1. CASE b \in (nTx \cap linked) \ failed
    <3>1. candidates' = {c \in candidates \cup {b} : ~Worse(seq', c, tip)}
      BY <1>0, <2>1 DEF PreciousCandidates
    <3>2. ~Worse(seq', tip, tip)
      BY <1>3, <1>9, WorseOrder
    <3>3. tip \in candidates' /\ \A c \in candidates' : ~Worse(seq', c, tip)
      BY <1>5, <3>1, <3>2
    <3> QED
      BY <1>10, <3>3 DEF Sure
  <2>2. CASE b \notin (nTx \cap linked) \ failed
    <3>1. candidates' = candidates \ {b}
      BY <1>0, <2>2 DEF PreciousCandidates
    <3>2. tip \in nTx /\ tip \notin failed
      BY <1>3, AncSelf DEF IInv, TypeOK, Sound
    <3>3. b # tip
      BY <1>3, <2>2, <3>2
    <3>4. ASSUME NEW c \in candidates' PROVE ~Worse(seq', c, tip)
      <4>1. c \in candidates /\ c \in Block /\ seq'[c] = seq[c] /\ seq'[tip] = seq[tip]
        BY <1>3, <1>11, <3>1, <3>3, <3>4, Types
      <4> QED
        BY <4>1 DEF PlaceInv, Worse
    <3>5. tip \in candidates'
      BY <1>5, <3>1, <3>3
    <3> QED
      BY <1>10, <3>4, <3>5 DEF Sure
  <2> QED
    BY <2>1, <2>2
<1>13. \A x : Sound(x)' <=> Sound(x)
  BY <1>0 DEF Sound
<1>14. ASSUME NEW x \in Block, Sound(x)
       PROVE  x \in candidates' \/ Worse(seq', x, tip)
  <2>1. CASE x = tip
    BY <1>12, <2>1 DEF Sure
  <2>2. CASE x = b /\ ~Worse(seq', x, tip)
    <3>1. b \in (nTx \cap linked) \ failed
      BY <1>14, <2>2, AncSelf DEF Sound, IInv, TypeOK
    <3> QED
      BY <1>0, <2>2, <3>1 DEF PreciousCandidates
  <2> QED
    BY <1>8, <1>14, <2>1, <2>2
<1>15. \A x \in Block : Sound(x)' => x \in candidates' \/ \E y \in Sure' : Worse(seq', x, y)
  BY <1>12, <1>13, <1>14
<1>16. \A u \in Thread : mostWork'[u] = NULL
  BY <1>0, FreeNoTarget
<1>17. /\ nTx' \subseteq haveData' /\ unlinked' \cap linked' = {}
       /\ scripts' \subseteq linked' /\ scripts' \cap BadConnect = {}
       /\ (scripts' \cup {Genesis}) \cap failed' = {}
  BY <1>0 DEF ChoiceInv
<1>18. tip' = tip
  BY <1>0
<1>19. ChoiceInv'
  BY <1>2, <1>15, <1>16, <1>17 DEF ChoiceInv
<1>20. RankInv'
  <2>1. ASSUME NEW x \in Block, Sound(x)
        PROVE  /\ ~(Work[x] > Work[tip])
               /\ Work[x] = Work[tip] => seq'[x] >= nextPrecious'
    <3>1. ~(Work[x] > Work[tip])
      BY SMT, <1>3, <1>4, <2>1 DEF Worse
    <3>2. nextPrecious' \in Int /\ nextPrecious' <= id
      BY SMT, <1>0, <1>3
    <3>3. Work[x] = Work[tip] => seq'[x] \in Int /\ id <= seq'[x]
      BY SMTT(30), <1>0, <1>3, <1>7, <2>1
    <3> QED
      BY SMT, <1>3, <3>1, <3>2, <3>3
  <2> QED
    BY SMT, <1>0, <1>3, <1>13, <2>1 DEF RankInv
<1>21. PlaceInv'
  BY <1>2, <1>12, <1>18 DEF PlaceInv
<1> QED
  BY <1>19, <1>20, <1>21
\* The only command is preciousblock.
LEMMA OnlyPrecious ==
  ASSUME NetworkOnly, NEW t \in Thread, Command(t)
  PROVE  \E b \in Block : PreciousBlock(t, b)
<1>1. "invalidate" \notin Rpc /\ "reconsider" \notin Rpc /\ "prune" \notin Rpc
  BY DEF NetworkOnly
<1>2. /\ \A b \in Block : ~InvalidateBlock(t, b) /\ ~InvalidateAbort(t, b) /\ ~ReconsiderBlock(t, b)
      /\ ~InvalidateGenesis(t) /\ ~PruneBlockFilesManual(t)
  BY <1>1 DEF InvalidateBlock, InvalidateAbort, InvalidateGenesis, ReconsiderBlock,
     PruneBlockFilesManual, PruneTo
<1> QED
  BY <1>2 DEF Command

LEMMA StepChoice ==
  ASSUME OneThread, NetworkOnly, TotalInv, [Next]_vars
  PROVE  ChoiceInv'
<1>0. FullInv /\ (scripts \cup {Genesis}) \cap failed = {}
  BY DEF TotalInv, FullInv, ChoiceInv
<1>1. ASSUME NEW t \in Thread, Network(t) PROVE ChoiceInv'
  <2>1. ASSUME NEW b \in Block, AcceptBlockHeader(t, b) PROVE ChoiceInv'
    <3>1. failed' = failed /\ (Quiet' => Quiet)
      BY <2>1 DEF AcceptBlockHeader, failure, failed, control, Quiet
    <3> QED
      BY <1>0, <2>1, <3>1, QuietStep DEF AcceptBlockHeader, status, sequence, control
  <2>2. CASE CallActivate(t)
    <3>1. failed' = failed /\ ~Quiet'
      BY <1>0, <2>2, Types DEF CallActivate, failure, failed, Quiet, FullInv
    <3> QED
      BY <1>0, <2>2, <3>1, QuietStep DEF CallActivate, status, sequence
  <2> QED
    BY <1>0, <1>1, <2>1, <2>2, MarkChoice, ReceiveChoice DEF Network
<1>2. ASSUME NEW t \in Thread, Activate(t) PROVE ChoiceInv'
  <2>1. CASE ActivateAbort(t)
    <3>1. PICK m \in Block : DisconnectAbort(Anc[tip] \ Anc[m])
      BY <2>1 DEF ActivateAbort
    <3>2. /\ nTx' = nTx /\ haveData' = haveData /\ linked' = linked /\ unlinked' = unlinked
          /\ scripts' = scripts /\ seq' = seq /\ candidates' = candidates
          /\ failed' = failed /\ aborted'
      BY <3>1 DEF DisconnectAbort, status, sequence, failure, failed
    <3>3. Sure' = Sure /\ (\A x : Sound(x)' <=> Sound(x)) /\ ~Quiet'
      BY <3>2 DEF Sure, Sound, Quiet
    <3>4. \A x \in Block : Sound(x)' => x \in candidates' \/ \E y \in Sure' : Worse(seq', x, y)
      BY <1>0, <3>2, <3>3 DEF FullInv, ChoiceInv
    <3> QED
      BY <1>0, <3>2, <3>3, <3>4 DEF FullInv, ChoiceInv
  <2> QED
    BY <1>0, <1>2, <2>1, DiscardChoice, NothingChoice, ActivateChoice DEF Activate
<1>3. ASSUME NEW t \in Thread, Command(t) PROVE ChoiceInv'
  BY <1>3, OnlyPrecious, PreciousChoice
<1>4. CASE UNCHANGED vars
  <2>1. failed' = failed /\ (Quiet' => Quiet)
    BY <1>4 DEF vars, failure, failed, control, Quiet
  <2> QED
    BY <1>0, <1>4, <2>1, QuietStep DEF vars, status, sequence, control
<1> QED
  BY <1>1, <1>2, <1>3, <1>4 DEF Next, ShutDown

\* What holds of the candidates and of the numbers besides.
LEMMA StepPlace ==
  ASSUME OneThread, NetworkOnly, TotalInv, [Next]_vars
  PROVE  RankInv' /\ PlaceInv'
<1>0. pc \in [Thread -> {"idle", "called", "top", "find"}]
  BY Types DEF TotalInv, FullInv
<1>1. ASSUME UNCHANGED <<linked, scripts, sequence, candidates, tip>>, failed \subseteq failed',
             pc' = pc, aborted => aborted'
      PROVE  RankInv' /\ PlaceInv'
  <2>1. Settled' => Settled
    BY <1>1 DEF Settled
  <2> QED
    BY <1>1, <2>1, QuietPlace
<1>2. ASSUME NEW t \in Thread, Network(t) PROVE RankInv' /\ PlaceInv'
  <2>1. ASSUME NEW b \in Block, AcceptBlockHeader(t, b) PROVE RankInv' /\ PlaceInv'
    BY <1>1, <2>1 DEF AcceptBlockHeader, failure, failed, status, control
  <2>2. ASSUME NEW b \in Block, RejectBlockHeader(t, b) PROVE RankInv' /\ PlaceInv'
    <3>1. failed \subseteq failed' /\ (aborted => aborted')
      BY SMT, <2>2 DEF RejectBlockHeader, failed
    <3> QED
      BY <1>1, <2>2, <3>1 DEF RejectBlockHeader, status, control
  <2>3. ASSUME NEW b \in Block, NEW r \in BOOLEAN, RefuseBlock(t, b, r) PROVE RankInv' /\ PlaceInv'
    <3>1. failed \subseteq failed' /\ (aborted => aborted')
      BY <2>3 DEF RefuseBlock, failed
    <3> QED
      BY <1>1, <2>3, <3>1 DEF RefuseBlock, status, control
  <2>4. CASE CallActivate(t)
    <3>1. Settled
      BY <2>4 DEF CallActivate, Free, Settled, OneThread
    <3> QED
      BY <2>4, <3>1, QuietPlace DEF CallActivate, failure, failed, status
  <2> QED
    BY <1>2, <2>1, <2>2, <2>3, <2>4, ReceivePlace DEF Network
<1>3. ASSUME NEW t \in Thread, Activate(t) PROVE RankInv' /\ PlaceInv'
  BY <1>3, DiscardPlace, NothingPlace, ActivatePlace, AbortPlace DEF Activate
<1>4. ASSUME NEW t \in Thread, Command(t) PROVE RankInv' /\ PlaceInv'
  BY <1>4, OnlyPrecious, PreciousChoice
<1>5. CASE UNCHANGED vars
  BY <1>1, <1>5 DEF vars, status, failure, failed, control
<1> QED
  BY <1>2, <1>3, <1>4, <1>5 DEF Next, ShutDown

LEMMA InitChoice == Init => ChoiceInv
<1> SUFFICES ASSUME Init PROVE ChoiceInv
  OBVIOUS
<1> USE DEF Init
<1>1. failed = {} /\ linked = {Genesis} /\ candidates = {Genesis} /\ tip = Genesis
      /\ Genesis \in Block /\ seq \in [Block -> Int]
  BY SMT, TreeAssumption DEF failed
<1>2. ~Worse(seq, Genesis, Genesis)
  BY <1>1, WorseOrder
<1> QED
  BY <1>1, <1>2 DEF ChoiceInv, Sound

LEMMA InitTotal == Init => TotalInv
<1> SUFFICES ASSUME Init PROVE TotalInv
  OBVIOUS
<1>1. ActiveInv
  BY AncGenesis DEF Init, ActiveInv, ActiveChainNotFailed, ScriptsClosed, failed
<1>2. FullInv
  BY <1>1, InitIInv, InitChoice DEF FullInv
<1>3. /\ linked = {Genesis} /\ candidates = {Genesis} /\ tip = Genesis /\ lastPreciousWork = 0
      /\ nextPrecious = -1 /\ seq[Genesis] = 1 /\ Work[Genesis] \in Nat /\ Genesis \in Block
  BY TreeAssumption DEF Init
<1>4. ~Worse(seq, Genesis, Genesis)
  BY <1>2, <1>3, Types, WorseOrder DEF FullInv
<1>5. RankInv
  BY SMTT(30), <1>3 DEF RankInv, Sound
<1>6. PlaceInv
  BY <1>3, <1>4 DEF PlaceInv, Sound
<1> QED
  BY <1>2, <1>5, <1>6 DEF TotalInv

LEMMA TotalInvHolds == Spec => [](OneThread /\ NetworkOnly => TotalInv)
<1> DEFINE Inv == OneThread /\ NetworkOnly => TotalInv
<1>1. Init => Inv
  BY InitTotal
<1>2. Inv /\ [Next]_vars => Inv'
  <2>1. OneThread /\ NetworkOnly /\ TotalInv /\ [Next]_vars => TotalInv'
    BY NextIInv, StepActive, StepChoice, StepPlace DEF TotalInv, FullInv
  <2> QED
    BY <2>1 DEF OneThread, NetworkOnly
<1> HIDE DEF Inv
<1>3. Spec => []Inv
  BY <1>1, <1>2, PTL DEF Spec
<1> QED
  BY <1>3 DEF Inv

\* Whenever ActivateBestChain has returned, no chain whose blocks have all been received
\* and of which none is known to be invalid is better than the active one: for every
\* tree, every order of arrival of headers and blocks, and wherever ConnectBlock refuses
\* a block in the middle of a reorganisation, and whichever blocks the operator calls
\* precious on the way, however often. One thread calls into validation.
THEOREM BestChainActiveHolds == Spec => [](OneThread /\ NetworkOnly => BestChainActive)
<1>1. TotalInv => BestChainActive
  BY DEF TotalInv, FullInv, ChoiceInv, BestChainActive, Usable, Sound
<1> QED
  BY <1>1, TotalInvHolds, PTL

\* setBlockIndexCandidates holds every block that is as good as the tip and not known to
\* be invalid, and nothing worse than the tip, as CheckBlockIndex asserts: after every
\* header and block and whenever ActivateBestChain has returned, for every tree, every
\* order of arrival and every use of preciousblock. One thread calls into validation.
THEOREM CandidatesExactHolds == Spec => [](OneThread /\ NetworkOnly => CandidatesExact)
<1> DEFINE Inv == NetworkOnly => CauseInv /\ LinkInv
<1>1. Init => Inv
  BY DEF Init, CauseInv, FailedHasCause, LinkInv, failed
<1>2. Inv /\ IInv /\ [Next]_vars => Inv'
  BY StepCause, StepLink DEF NetworkOnly
<1>3. NetworkOnly /\ Inv /\ TotalInv => CandidatesExact
  <2> SUFFICES ASSUME NetworkOnly, Inv, TotalInv PROVE CandidatesExact
    OBVIOUS
  <2> USE DEF TotalInv, FullInv
  <2>1. ASSUME NEW x \in index, Anc[x] \subseteq nTx, Anc[x] \cap failedValid = {}
        PROVE  x \in Block /\ Sound(x)
    <3>1. x \in linked /\ x \in Block
      BY <2>1, LinkInvExact, Types DEF LinkedExact
    <3>2. ASSUME NEW z \in Anc[x], z \in failed PROVE FALSE
      <4>1. Anc[z] \subseteq Anc[x]
        BY <3>1, AncTrans
      <4>2. Anc[z] \cap failedValid # {}
        BY <3>2 DEF CauseInv, FailedHasCause
      <4> QED
        BY <2>1, <4>1, <4>2
    <3> QED
      BY <3>1, <3>2 DEF Sound
  <2> QED
    BY <2>1 DEF CandidatesExact, PlaceInv
<1> HIDE DEF Inv
<1> QED
  BY <1>1, <1>2, <1>3, TotalInvHolds, Invariance, PTL DEF Spec

\* On the way from an ancestor of m to m there is a next block.
LEMMA NextOnTheWay ==
  ASSUME NEW m \in Block, NEW a \in Anc[m], a # m
  PROVE  \E c \in Anc[m] \ Anc[a] : Parent[c] = a
<1> SUFFICES ASSUME \A c \in Anc[m] \ Anc[a] : Parent[c] # a PROVE FALSE
  OBVIOUS
<1> DEFINE S == Anc[m] \ Anc[a]
<1>1. a \in Block /\ a \in Anc[a] /\ S \in SUBSET Block
  BY AncType, AncSelf
<1>2. m \in S
  <2> SUFFICES ASSUME m \in Anc[a] PROVE FALSE
    BY AncSelf
  <2>1. Work[m] < Work[a] /\ Work[a] < Work[m]
    BY <1>1, AncWork
  <2> QED
    BY SMT, <1>1, <2>1, TreeAssumption
<1>3. Closed(S)
  <2> SUFFICES ASSUME NEW x \in S \ {Genesis} PROVE Parent[x] \in S
    BY DEF Closed
  <2>1. /\ x \in Block \ {Genesis} /\ Parent[x] \in Anc[m] /\ Parent[x] \in Block
        /\ Anc[x] = {x} \cup Anc[Parent[x]]
    BY <1>1, AncClosed, AncStep, TreeAssumption DEF Closed
  <2>2. a \in Anc[Parent[x]]
    BY <1>1, <2>1, AncAbove
  <2>3. ASSUME Parent[x] \in Anc[a] PROVE FALSE
    <3>1. Parent[x] # a
      OBVIOUS
    <3>2. Work[Parent[x]] < Work[a]
      BY <1>1, <2>3, <3>1, AncWork
    <3>3. Work[a] < Work[Parent[x]]
      BY <2>1, <2>2, <3>1, AncWork
    <3>4. Work[a] \in Nat /\ Work[Parent[x]] \in Nat
      BY <1>1, <2>1, TreeAssumption
    <3> QED
      BY SMTT(30), <3>2, <3>3, <3>4
  <2> QED
    BY <2>1, <2>3
<1>4. Anc[m] \subseteq S
  BY <1>1, <1>2, <1>3, AncLeast
<1> QED
  BY <1>1, <1>4

\* A step that ends with less work than it began with met a block that does not connect.
LEMMA StepNoRegression ==
  ASSUME OneThread, FullInv, NEW t \in Thread, ActivateStep(t), Work[tip'] < Work[tip]
  PROVE  failedValid' # failedValid \/ aborted'
<1> USE DEF FullInv
<1>1. PICK m \in Block : \E new \in Anc[m] :
        /\ Target(t, m) /\ StepEndsAt(m, new) /\ tip' = new
        /\ failedValid' = failedValid \cup (Tried(m, new) \cap haveData)
        /\ aborted' = ~(Tried(m, new) \subseteq haveData)
  BY DEF ActivateStep
<1>2. PICK new \in Anc[m] :
        /\ Target(t, m) /\ StepEndsAt(m, new) /\ tip' = new
        /\ failedValid' = failedValid \cup (Tried(m, new) \cap haveData)
        /\ aborted' = ~(Tried(m, new) \subseteq haveData)
  BY <1>1
<1>3. IsBest(m) /\ (Anc[m] \ Anc[tip]) \cap failed = {}
  <2>1. CASE mostWork[t] # NULL
    BY <1>2, <2>1 DEF Target, Running, ActiveInv, ChoiceInv
  <2>2. CASE mostWork[t] = NULL
    BY <1>2, <2>2 DEF Target, Unusable
  <2> QED
    BY <2>1, <2>2
<1>4. new # m
  <2>1. ~Worse(seq, m, tip) /\ tip \in Block
    BY <1>3, TipSound, BestIsBest
  <2> QED
    BY <1>2, <2>1 DEF Worse
<1>5. PICK c \in Anc[m] \ Anc[new] : Parent[c] = new
  BY <1>2, <1>4, NextOnTheWay
<1>6. c \in Tried(m, new)
  <2>1. Work[new] \in Nat /\ Work[tip] \in Nat
    BY <1>2, TipSound, AncType, TreeAssumption
  <2> QED
    BY SMTT(30), <1>2, <1>5, <2>1 DEF Tried
<1>7. c \notin failedValid
  BY <1>2, <1>3, <1>5 DEF StepEndsAt, failed
<1> QED
  BY <1>2, <1>6, <1>7

\* The best-chain search never gives work away: a step of ActivateBestChain leaves the
\* active chain with less work than before only if it met a block that does not connect
\* on its way, and marked it or took the node down. For every tree and every use of
\* preciousblock, with one thread.
THEOREM NoRegressionHolds ==
  ASSUME OneThread, NetworkOnly
  PROVE  Spec => NoRegression
<1>1. TotalInv /\ [Next]_vars =>
        [\A t \in Thread : ActivateStep(t) /\ Work[tip'] < Work[tip]
             => failedValid' # failedValid \/ aborted']_vars
  BY StepNoRegression DEF TotalInv
<1>2. Spec => []TotalInv
  BY TotalInvHolds, PTL
<1> QED
  BY <1>1, <1>2, PTL DEF Spec, NoRegression

-----------------------------------------------------------------------------
(* Any number of threads, and reconsiderblock: a target may be outdated when a
   thread comes back to it, and the failure marks may have been taken away. *)

\* A block of a chain that is linked and in which no block was ever found invalid.
Unfailed(x) == x \in linked /\ Anc[x] \cap gFailed = {}

\* gFailedBlocks holds blocks that ConnectBlock refused, and is the lasting record of
\* them: every mark is above one of those or above a block that was never stored, even
\* if reconsiderblock has come between. What was active once has passed its checks, and
\* so have its ancestors. A chain in which nothing was ever found invalid is a candidate
\* or worse than a candidate that was active, wherever the threads have moved the tip.
ThreadInv ==
    /\ nTx \subseteq haveData
    /\ unlinked \cap linked = {}
    /\ gFailed \subseteq BadConnect
    /\ \A z \in failed : Anc[z] \cap (gFailed \cup BadContext) # {}
    /\ scripts \subseteq linked /\ scripts \cap BadConnect = {}
    /\ ScriptsClosed
    /\ Anc[tip] \ {Genesis} \subseteq scripts
    /\ \A x \in Block : Unfailed(x) => x \in candidates \/ \E y \in Sure : Worse(seq, x, y)

\* No mark is left or set on a chain in which nothing was found invalid.
LEMMA UnfailedUnmarked ==
  ASSUME IInv, ThreadInv, NEW x \in Block, Unfailed(x)
  PROVE  Anc[x] \cap failed = {}
<1> SUFFICES ASSUME NEW z \in Anc[x], z \in failed PROVE FALSE
  OBVIOUS
<1>1. Anc[z] \subseteq Anc[x] /\ Anc[x] \subseteq nTx
  BY AncTrans, IInvAnc DEF Unfailed, IInv, TypeOK
<1>2. Anc[z] \cap (gFailed \cup BadContext) # {}
  BY DEF ThreadInv
<1> QED
  BY <1>1, <1>2 DEF Unfailed, IInv

\* A chain that was active was never found invalid.
LEMMA SureUnfailed ==
  ASSUME IInv, ThreadInv
  PROVE  /\ \A y \in scripts \cup {Genesis} : y \in Block /\ Unfailed(y)
         /\ Unfailed(tip) /\ tip \in scripts \cup {Genesis}
<1>1. Genesis \notin gFailed /\ Genesis \in linked /\ Genesis \in Block
  BY VerdictAssumption, TreeAssumption DEF ThreadInv, IInv
<1>2. ASSUME NEW y \in scripts PROVE y \in Block /\ Unfailed(y)
  <2>1. y \in linked /\ y \in Block /\ Anc[y] \ {Genesis} \subseteq scripts
    BY Types DEF ThreadInv, ScriptsClosed
  <2> QED
    BY <1>1, <2>1 DEF ThreadInv, Unfailed
<1>3. Unfailed(Genesis)
  BY <1>1, AncGenesis DEF Unfailed
<1>4. tip \in Anc[tip]
  BY Types, AncSelf
<1>5. tip \in scripts \cup {Genesis}
  BY <1>4 DEF ThreadInv
<1> QED
  BY <1>1, <1>2, <1>3, <1>5

\* A step that links nothing, moves the tip at most back, drops no candidate, finds no
\* block invalid, and marks only what is above a block that was.
LEMMA ThreadQuiet ==
  ASSUME IInv, ThreadInv,
         nTx' = nTx, haveData' = haveData, linked' = linked, unlinked' = unlinked,
         scripts' = scripts, seq' = seq, gFailed' = gFailed,
         candidates \subseteq candidates', tip' \in Anc[tip],
         \A z \in failed' \ failed : Anc[z] \cap (gFailed \cup BadContext) # {}
  PROVE  ThreadInv'
<1>1. \A z \in failed' : Anc[z] \cap (gFailed' \cup BadContext) # {}
  BY DEF ThreadInv
<1>2. Anc[tip'] \ {Genesis} \subseteq scripts'
  BY Types, AncTrans DEF ThreadInv
<1>3. Sure \subseteq Sure' /\ \A x : Unfailed(x)' <=> Unfailed(x)
  BY DEF Sure, Unfailed
<1>4. \A x \in Block : Unfailed(x)' => x \in candidates' \/ \E y \in Sure' : Worse(seq', x, y)
  BY <1>3 DEF ThreadInv
<1> QED
  BY <1>1, <1>2, <1>4 DEF ThreadInv, ScriptsClosed

\* AcceptBlockHeader and AcceptBlock refuse something.
LEMMA MarkThread ==
  ASSUME IInv, ThreadInv, NEW t \in Thread
  PROVE  /\ \A b \in Block : RejectBlockHeader(t, b) => ThreadInv'
         /\ \A b \in Block, r \in BOOLEAN : RefuseBlock(t, b, r) => ThreadInv'
<1>0. tip \in Anc[tip]
  BY Types, AncSelf
<1>1. ASSUME NEW b \in Block, RejectBlockHeader(t, b) PROVE ThreadInv'
  <2> USE <1>1 DEF RejectBlockHeader, status, sequence
  <2>1. Parent[b] \in Block
    BY Types
  <2>2. ASSUME NEW x \in failed' \ failed PROVE Anc[x] \cap gFailed # {}
    <3>1. PICK f \in FailedBelow(Parent[b]) : x \in Anc[Parent[b]] \ Anc[f]
      BY <2>2 DEF failed
    <3>2. f \in Anc[x] /\ f \in gFailed
      BY <2>1, <3>1, AncAbove DEF FailedBelow
    <3> QED
      BY <3>2
  <2> QED
    BY <1>0, <2>2, ThreadQuiet
<1>2. ASSUME NEW b \in Block, NEW r \in BOOLEAN, RefuseBlock(t, b, r) PROVE ThreadInv'
  <2> USE <1>2 DEF RefuseBlock, status, sequence
  <2>1. failed' = failed \cup {b} /\ b \in BadContext /\ b \in Anc[b]
    BY AncSelf DEF failed
  <2> QED
    BY <1>0, <2>1, ThreadQuiet
<1> QED
  BY <1>1, <1>2

\* AcceptBlock, ReceivedBlockTransactions: what is linked becomes a candidate or is worse
\* than the tip, and the tip is a candidate that was active or worse than one.
LEMMA ReceiveThread ==
  ASSUME IInv, ThreadInv, NEW t \in Thread, NEW b \in Block, NEW r \in BOOLEAN,
         ReceiveBlock(t, b, r)
  PROVE  ThreadInv'
<1>0. /\ b \in index \ haveData /\ b # Genesis /\ nTx' = nTx \cup {b} /\ haveData' = haveData \cup {b}
      /\ failed' = failed /\ gFailed' = gFailed /\ tip' = tip /\ scripts' = scripts
  BY DEF ReceiveBlock, failure, failed
<1>1. b \notin nTx /\ b \notin linked
  BY <1>0 DEF ThreadInv, IInv, TypeOK
<1>2. /\ \A z \in failed' : Anc[z] \cap (gFailed' \cup BadContext) # {}
      /\ ScriptsClosed' /\ Anc[tip'] \ {Genesis} \subseteq scripts'
      /\ gFailed' \subseteq BadConnect /\ scripts' \cap BadConnect = {}
  BY <1>0 DEF ThreadInv, ScriptsClosed
<1>3. CASE Parent[b] \in linked
  <2> DEFINE L == Linkable(b)
  <2>1. /\ linked' = linked \cup L /\ unlinked' = unlinked \ L
        /\ candidates' = candidates \cup {x \in L : ~Worse(seq', x, tip)}
        /\ \E n \in Numberings(L) : seq' = [x \in Block |-> IF x \in L THEN n[x] ELSE seq[x]]
    BY <1>3 DEF ReceiveBlock, LinkBlock
  <2>2. L \cap linked = {} /\ L \subseteq Block
    BY <1>0, LinkableNew, Types DEF Linkable, ThreadInv
  <2>3. seq' \in [Block -> Int] /\ \A x \in linked : seq'[x] = seq[x]
    <3>1. seq' \in [Block -> Int]
      BY SMTT(30), ReceiveBlockIInv DEF IInv, TypeOK
    <3>2. \A x \in linked : seq'[x] = seq[x]
      BY <2>1, <2>2, Types
    <3> QED
      BY <3>1, <3>2
  <2>4. \A x, y \in linked : Worse(seq, x, y) <=> Worse(seq', x, y)
    BY <2>3 DEF Worse
  <2>5. Sure \subseteq Sure' /\ Sure \subseteq linked /\ linked \subseteq Block
    BY <1>0, <2>1, Types DEF Sure
  <2>6. ASSUME NEW x \in Block, Unfailed(x)'
        PROVE  x \in candidates' \/ \E y \in Sure' : Worse(seq', x, y)
    <3>1. CASE x \in linked
      <4>1. x \in candidates \/ \E y \in Sure : Worse(seq, x, y)
        BY <1>0, <2>6, <3>1 DEF Unfailed, ThreadInv
      <4> QED
        BY <2>1, <2>4, <2>5, <3>1, <4>1
    <3>2. CASE x \in L /\ Worse(seq', x, tip)
      <4>1. Unfailed(tip) /\ tip \in Block /\ tip \in scripts \cup {Genesis} /\ tip \in linked
        BY SureUnfailed, Types
      <4>2. tip \in Sure \/ \E y \in Sure : Worse(seq, tip, y)
        BY <4>1 DEF ThreadInv, Sure
      <4>3. CASE tip \in Sure
        BY <2>5, <3>2, <4>3
      <4>4. CASE \E y \in Sure : Worse(seq, tip, y)
        <5>1. PICK y \in Sure : Worse(seq', tip, y)
          BY <2>4, <2>5, <4>1, <4>4
        <5>2. y \in Block /\ Worse(seq', x, y)
          BY <2>3, <2>5, <3>2, <4>1, <5>1, WorseOrder
        <5> QED
          BY <2>5, <5>2
      <4> QED
        BY <4>2, <4>3, <4>4
    <3> QED
      BY <2>1, <2>6, <3>1, <3>2 DEF Unfailed
  <2>7. nTx' \subseteq haveData' /\ unlinked' \cap linked' = {} /\ scripts' \subseteq linked'
    BY <1>0, <2>1 DEF ThreadInv
  <2> QED
    BY <1>2, <2>6, <2>7 DEF ThreadInv
<1>4. CASE Parent[b] \notin linked
  <2>1. /\ linked' = linked /\ unlinked' \subseteq unlinked \cup {b}
        /\ seq' = seq /\ candidates' = candidates
    BY <1>1, <1>4 DEF ReceiveBlock, KeepUnlinked
  <2>2. Sure' = Sure /\ \A x : Unfailed(x)' <=> Unfailed(x)
    BY <1>0, <2>1 DEF Sure, Unfailed
  <2>3. \A x \in Block : Unfailed(x)' => x \in candidates' \/ \E y \in Sure' : Worse(seq', x, y)
    BY <2>1, <2>2 DEF ThreadInv
  <2>4. nTx' \subseteq haveData' /\ unlinked' \cap linked' = {} /\ scripts' \subseteq linked'
    BY <1>0, <1>1, <2>1 DEF ThreadInv
  <2> QED
    BY <1>2, <2>3, <2>4 DEF ThreadInv
<1> QED
  BY <1>3, <1>4

\* FindMostWorkChain discards a candidate: a block of its chain was found invalid once.
LEMMA DiscardThread ==
  ASSUME IInv, ThreadInv, NEW t \in Thread, DiscardCandidate(t)
  PROVE  ThreadInv'
<1>0. /\ nTx' = nTx /\ haveData' = haveData /\ linked' = linked /\ scripts' = scripts
      /\ seq' = seq /\ tip' = tip /\ gFailed' = gFailed
  BY DEF DiscardCandidate, status, sequence
<1>1. PICK c \in candidates : \E test \in Unusable(c) :
        /\ candidates' = candidates \ ((Anc[c] \ Anc[test]) \cup {test})
        /\ DropChain(test, Anc[c] \ Anc[test])
        /\ failedValid' = failedValid
  BY DEF DiscardCandidate
<1>2. PICK test \in Unusable(c) :
        /\ candidates' = candidates \ ((Anc[c] \ Anc[test]) \cup {test})
        /\ DropChain(test, Anc[c] \ Anc[test])
        /\ failedValid' = failedValid
  BY <1>1
<1>3. c \in Block /\ Anc[c] \subseteq haveData /\ test \in Anc[c] /\ Anc[c] \subseteq nTx /\ test \in Block
  BY <1>2, IInvAnc, Types DEF ThreadInv, IInv, TypeOK, Unusable
<1>4. test \in failed
  BY <1>2, <1>3 DEF Unusable
<1>5. unlinked' = unlinked /\ failed' = failed \cup (Anc[c] \ Anc[test])
  BY <1>2, <1>4 DEF DropChain, failed
<1>6. ASSUME NEW x \in (Anc[c] \ Anc[test]) \cup {test} PROVE x \in Block /\ Anc[x] \cap gFailed # {}
  <2>1. x \in Block /\ test \in Anc[x] /\ Anc[x] \subseteq Anc[c]
    BY <1>3, AncAbove, AncType, AncSelf, AncTrans
  <2>2. Anc[test] \subseteq Anc[x] /\ Anc[test] \cap (gFailed \cup BadContext) # {}
    BY <1>4, <2>1, AncTrans DEF ThreadInv
  <2> QED
    BY <1>3, <2>1, <2>2 DEF IInv
<1>7. \A z \in failed' : Anc[z] \cap (gFailed' \cup BadContext) # {}
  BY <1>0, <1>5, <1>6 DEF ThreadInv
<1>8. Sure' = Sure
  <2>1. \A y \in Sure : y \in candidates'
    BY <1>2, <1>6, SureUnfailed DEF Sure, Unfailed
  <2> QED
    BY <1>0, <1>2, <2>1 DEF Sure
<1>9. ASSUME NEW x \in Block, Unfailed(x)'
      PROVE  x \in candidates' \/ \E y \in Sure' : Worse(seq', x, y)
  <2>1. Unfailed(x)
    BY <1>0, <1>9 DEF Unfailed
  <2>2. x \in candidates => x \in candidates'
    BY <1>2, <1>6, <2>1 DEF Unfailed
  <2> QED
    BY <1>0, <1>8, <2>1, <2>2 DEF ThreadInv
<1> QED
  BY <1>0, <1>5, <1>7, <1>9 DEF ThreadInv, ScriptsClosed

\* ActivateBestChainStep towards a target that may be outdated: the blocks it connects
\* are blocks ConnectBlock accepts, so the new tip is as good a witness as the old one
\* for what PruneBlockIndexCandidates drops.
LEMMA ActivateThread ==
  ASSUME IInv, ThreadInv, NEW t \in Thread, ActivateStep(t)
  PROVE  /\ ThreadInv'
         /\ tip' \notin Anc[tip] => Pruned(tip') # {}
<1> DEFINE connected(n) == Anc[n] \ Anc[tip]
           invalid(n, m) == Tried(m, n) \cap haveData
           Ends(m, n) ==
             /\ Target(t, m) /\ StepEndsAt(m, n)
             /\ tip' = n
             /\ scripts' = scripts \cup (connected(n) \ failed)
             /\ failedValid' = failedValid \cup invalid(n, m)
             /\ gFailed' = gFailed \cup invalid(n, m)
             /\ candidates' = (IF connected(n) = {} THEN candidates ELSE Pruned(n)) \ invalid(n, m)
<1>1. PICK m \in Block \ {tip} : \E new \in Anc[m] : Ends(m, new)
  BY DEF ActivateStep
<1>2. PICK new \in Anc[m] : Ends(m, new)
  BY <1>1
<1>3. /\ nTx' = nTx /\ haveData' = haveData /\ linked' = linked /\ unlinked' = unlinked
      /\ seq' = seq /\ failedChild' = failedChild
  BY DEF ActivateStep, sequence
<1>4. /\ Anc[m] \subseteq linked /\ Anc[m] \subseteq haveData
      /\ new \in Block /\ new \in linked /\ Anc[new] \subseteq Anc[m] /\ new \in Anc[new]
      /\ candidates \subseteq Block /\ seq \in [Block -> Int]
  BY <1>2, TargetLinked, IInvAnc, Types, AncType, AncSelf, AncTrans
     DEF ThreadInv, IInv, TypeOK
<1>5. /\ invalid(new, m) \subseteq BadConnect /\ invalid(new, m) \cap Anc[new] = {}
      /\ connected(new) \cap BadConnect = {} /\ invalid(new, m) \subseteq Block
  BY <1>2, <1>4, VerdictAssumption DEF StepEndsAt, Tried, Refused
<1>6. Anc[new] \cap BadConnect = {}
  BY <1>5 DEF IInv
<1>7. Unfailed(new)
  BY <1>4, <1>6 DEF Unfailed, ThreadInv
<1>8. Anc[new] \cap failed = {}
  BY <1>4, <1>7, UnfailedUnmarked
<1> HIDE DEF connected, invalid
<1>9. /\ scripts' = scripts \cup connected(new) /\ failed' = failed \cup invalid(new, m)
      /\ scripts' \subseteq linked' /\ scripts' \cap BadConnect = {}
  <2>1. scripts' = scripts \cup connected(new)
    BY <1>2, <1>8 DEF connected
  <2>2. failed' = failed \cup invalid(new, m)
    BY <1>2, <1>3 DEF failed
  <2>3. connected(new) \subseteq linked
    BY <1>4 DEF connected
  <2> QED
    BY <1>3, <1>5, <2>1, <2>2, <2>3 DEF ThreadInv
<1>10. Anc[new] \ {Genesis} \subseteq scripts'
  BY <1>9 DEF ThreadInv, connected
<1>11. ScriptsClosed'
  <2> SUFFICES ASSUME NEW x \in scripts' PROVE Anc[x] \ {Genesis} \subseteq scripts'
    BY DEF ScriptsClosed
  <2>1. CASE x \in scripts
    BY <1>9, <2>1 DEF ThreadInv, ScriptsClosed
  <2>2. CASE x \in Anc[new]
    BY <1>4, <1>10, <2>2, AncTrans
  <2> QED
    BY <1>9, <2>1, <2>2 DEF connected
<1>12. \A z \in failed' : Anc[z] \cap (gFailed' \cup BadContext) # {}
  BY SMTT(30), <1>2, <1>5, <1>9, AncSelf DEF ThreadInv
<1>13. \A x \in Block : Unfailed(x)' => Unfailed(x) /\ x \notin invalid(new, m)
  BY <1>2, <1>3, AncSelf DEF Unfailed
<1>14. new \in scripts' \cup {Genesis} /\ new \notin invalid(new, m)
  BY <1>4, <1>5, <1>10
<1>15. Sure \cap invalid(new, m) = {} /\ Sure \subseteq candidates
       /\ Sure \subseteq scripts' \cup {Genesis}
  <2>1. (scripts \cup {Genesis}) \cap BadConnect = {}
    BY VerdictAssumption DEF ThreadInv
  <2> QED
    BY <1>5, <1>9, <2>1 DEF Sure
<1>16. PICK z \in Pruned(new) \ invalid(new, m) :
         z \in scripts' \cup {Genesis} /\ (z = new \/ Worse(seq, new, z))
  <2>1. CASE new \in candidates
    <3>1. ~Worse(seq, new, new)
      BY <1>4, WorseOrder
    <3> QED
      BY <1>14, <2>1, <3>1 DEF Pruned
  <2>2. CASE \E y \in Sure : Worse(seq, new, y)
    <3>1. PICK y \in Sure : Worse(seq, new, y)
      BY <2>2
    <3>2. ~Worse(seq, y, new)
      BY <1>4, <1>15, <3>1, WorseOrder
    <3> QED
      BY <1>15, <3>1, <3>2 DEF Pruned
  <2> QED
    BY <1>4, <1>7, <2>1, <2>2 DEF ThreadInv
<1>17. ASSUME NEW x \in Block, Unfailed(x)'
       PROVE  x \in candidates' \/ \E y \in Sure' : Worse(seq', x, y)
  <2>0. (x \in candidates \/ \E y \in Sure : Worse(seq, x, y)) /\ x \notin invalid(new, m)
    BY <1>13, <1>17 DEF ThreadInv
  <2>1. CASE connected(new) = {}
    <3>1. candidates' = candidates \ invalid(new, m)
      BY <1>2, <2>1
    <3>2. Sure \subseteq Sure'
      BY <1>15, <3>1 DEF Sure
    <3> QED
      BY <1>3, <2>0, <3>1, <3>2
  <2>2. CASE connected(new) # {}
    <3>1. candidates' = Pruned(new) \ invalid(new, m)
      BY <1>2, <2>2
    <3>2. z \in Sure' /\ z \in Block
      BY <1>4, <1>16, <3>1 DEF Sure, Pruned
    <3>3. Worse(seq, x, new) => Worse(seq, x, z)
      BY <1>4, <1>16, <3>2, WorseOrder
    <3>4. CASE x \in candidates
      BY <1>3, <2>0, <3>1, <3>2, <3>3, <3>4 DEF Pruned
    <3>5. CASE \E y \in Sure : Worse(seq, x, y)
      <4>1. PICK y \in Sure : Worse(seq, x, y)
        BY <3>5
      <4>2. CASE Worse(seq, y, new)
        <5>1. Worse(seq, x, new)
          BY <1>4, <1>15, <4>1, <4>2, WorseOrder
        <5> QED
          BY <1>3, <3>2, <3>3, <5>1
      <4>3. CASE ~Worse(seq, y, new)
        <5>1. y \in Sure'
          BY <1>15, <3>1, <4>3 DEF Pruned, Sure
        <5> QED
          BY <1>3, <4>1, <5>1
      <4> QED
        BY <4>2, <4>3
    <3> QED
      BY <2>0, <3>4, <3>5
  <2> QED
    BY <2>1, <2>2
<1>18. nTx' \subseteq haveData' /\ unlinked' \cap linked' = {} /\ gFailed' \subseteq BadConnect
  BY <1>2, <1>3, <1>5 DEF ThreadInv
<1>19. tip' = new
  BY <1>2
<1> QED
  BY <1>9, <1>10, <1>11, <1>12, <1>16, <1>17, <1>18, <1>19 DEF ThreadInv

\* reconsiderblock is the only command in use.
NetworkReconsider == Rpc \subseteq {"reconsider"}

LEMMA StepThread ==
  ASSUME NetworkReconsider, IInv, ThreadInv, [Next]_vars
  PROVE  /\ ThreadInv'
         /\ tip' \notin Anc[tip] => Pruned(tip') # {}
<1>0. tip \in Anc[tip]
  BY Types, AncSelf
<1>1. ASSUME UNCHANGED <<status, failure, seq, unlinked>>, candidates' = candidates, tip' \in Anc[tip]
      PROVE  ThreadInv'
  BY <1>1, ThreadQuiet DEF status, failure, failed
<1>2. ASSUME NEW t \in Thread, Network(t) PROVE ThreadInv' /\ tip' = tip
  <2>1. ASSUME NEW b \in Block, AcceptBlockHeader(t, b) PROVE ThreadInv'
    BY <1>0, <1>1, <2>1 DEF AcceptBlockHeader, sequence
  <2>2. CASE CallActivate(t)
    BY <1>0, <1>1, <2>2 DEF CallActivate, sequence
  <2>3. tip' = tip
    BY <1>2 DEF Network, AcceptBlockHeader, RejectBlockHeader, ReceiveBlock, RefuseBlock, CallActivate
  <2> QED
    BY <1>2, <2>1, <2>2, <2>3, MarkThread, ReceiveThread DEF Network
<1>3. ASSUME NEW t \in Thread, Activate(t)
      PROVE  ThreadInv' /\ (tip' \notin Anc[tip] => Pruned(tip') # {})
  <2>1. CASE DiscardCandidate(t)
    <3>1. tip' = tip
      BY <2>1 DEF DiscardCandidate
    <3> QED
      BY <1>0, <2>1, <3>1, DiscardThread
  <2>2. CASE NothingToDo(t)
    BY <1>0, <1>1, <2>2 DEF NothingToDo, sequence
  <2>3. CASE ActivateAbort(t)
    <3>1. PICK m \in Block : DisconnectAbort(Anc[tip] \ Anc[m])
      BY <2>3 DEF ActivateAbort
    <3>2. tip' \in Anc[tip]
      BY <3>1 DEF DisconnectAbort
    <3> QED
      BY <1>1, <3>1, <3>2 DEF DisconnectAbort, sequence
  <2> QED
    BY <1>3, <2>1, <2>2, <2>3, ActivateThread DEF Activate
<1>4. ASSUME NEW t \in Thread, Command(t) PROVE ThreadInv' /\ tip' = tip
  <2>1. "invalidate" \notin Rpc /\ "precious" \notin Rpc /\ "prune" \notin Rpc
    BY DEF NetworkReconsider
  <2>2. \E b \in Block : ReconsiderBlock(t, b)
    <3>1. /\ \A b \in Block : ~InvalidateBlock(t, b) /\ ~InvalidateAbort(t, b) /\ ~PreciousBlock(t, b)
          /\ ~InvalidateGenesis(t) /\ ~PruneBlockFilesManual(t)
      BY <2>1 DEF InvalidateBlock, InvalidateAbort, InvalidateGenesis, PreciousBlock,
         PruneBlockFilesManual, PruneTo
    <3> QED
      BY <1>4, <3>1 DEF Command
  <2>3. /\ UNCHANGED <<status, gFailed, sequence, unlinked, tip>>
        /\ candidates \subseteq candidates' /\ failed' \subseteq failed
    BY <2>2 DEF ReconsiderBlock, failed
  <2> QED
    BY <1>0, <2>3, ThreadQuiet DEF status, sequence
<1>5. CASE UNCHANGED vars
  BY <1>0, <1>1, <1>5 DEF vars, sequence
<1> QED
  BY <1>0, <1>2, <1>3, <1>4, <1>5 DEF Next, ShutDown

LEMMA InitThread == Init => ThreadInv
<1> SUFFICES ASSUME Init PROVE ThreadInv
  OBVIOUS
<1>1. failed = {} /\ linked = {Genesis} /\ candidates = {Genesis} /\ tip = Genesis
      /\ gFailed = {} /\ scripts = {} /\ unlinked = {} /\ nTx = {Genesis} /\ haveData = {Genesis}
  BY DEF Init, failed
<1> QED
  BY <1>1, AncGenesis DEF ThreadInv, ScriptsClosed, Unfailed

LEMMA ThreadInvHolds == Spec => [](NetworkReconsider => ThreadInv)
<1> DEFINE Inv == NetworkReconsider => ThreadInv
<1>1. Init => Inv
  BY InitThread
<1>2. Inv /\ IInv /\ [Next]_vars => Inv'
  BY StepThread DEF NetworkReconsider
<1> HIDE DEF Inv
<1>3. Spec => []Inv
  BY <1>1, <1>2, Invariance, PTL DEF Spec
<1> QED
  BY <1>3 DEF Inv

\* However many threads run ActivateBestChain at once, each with a target that the others
\* may have outdated, and wherever reconsiderblock comes between two of their steps: the
\* best usable chain in which no block was ever found invalid is the active one or in
\* setBlockIndexCandidates, where the next call of FindMostWorkChain finds it.
THEOREM BestIsCandidateHolds == Spec => [](NetworkReconsider => BestIsCandidate)
<1>1. IInv /\ ThreadInv => BestIsCandidate
  <2> SUFFICES ASSUME IInv, ThreadInv PROVE BestIsCandidate
    OBVIOUS
  <2> SUFFICES ASSUME NEW x \in Block, Usable(x), Anc[x] \cap gFailed = {},
                      \A y \in Block : Usable(y) => ~Worse(seq, x, y)
               PROVE  x \in candidates
    BY DEF BestIsCandidate
  <2>1. Unfailed(x)
    BY DEF Usable, Unfailed
  <2>2. ASSUME NEW y \in Sure PROVE y \in Block /\ Usable(y)
    <3>1. y \in Block /\ Unfailed(y)
      BY SureUnfailed DEF Sure
    <3>2. Anc[y] \subseteq haveData
      BY <3>1, IInvAnc DEF Unfailed, IInv, TypeOK, ThreadInv
    <3> QED
      BY <3>1, <3>2, UnfailedUnmarked DEF Usable, Unfailed
  <2> QED
    BY <2>1, <2>2 DEF ThreadInv
<1> QED
  BY <1>1, Invariance, ThreadInvHolds, PTL

\* Whenever a thread connects a block, PruneBlockIndexCandidates leaves at least one
\* candidate, as it asserts: for any number of threads with outdated targets, every tree,
\* and reconsiderblock between any two of their steps.
THEOREM PruneLeavesCandidateHolds ==
  ASSUME NetworkReconsider
  PROVE  Spec => PruneLeavesCandidate
<1>1. Init => ThreadInv
  BY InitThread
<1>2. IInv /\ ThreadInv /\ [Next]_vars => ThreadInv'
  BY StepThread
<1>3. IInv /\ ThreadInv /\ [Next]_vars => [tip' \notin Anc[tip] => Pruned(tip') # {}]_vars
  BY StepThread
<1> QED
  BY <1>1, <1>2, <1>3, Invariance, PTL DEF Spec, PruneLeavesCandidate

\* With any number of threads, as long as reconsiderblock is the only command: no active
\* block is marked failed, though threads come back to targets that others have marked
\* blocks of, and script validity is closed under parents.
THEOREM ActiveChainSoundThreads ==
  Spec => [](NetworkReconsider => ActiveChainNotFailed /\ ScriptsClosed)
<1>1. IInv /\ ThreadInv => ActiveChainNotFailed /\ ScriptsClosed
  BY Types, SureUnfailed, UnfailedUnmarked DEF ActiveChainNotFailed, ThreadInv
<1> QED
  BY <1>1, Invariance, ThreadInvHolds, PTL
=============================================================================
