------------------------ MODULE BlockDownloadProofs ------------------------
(***************************************************************************)
(* Proofs about BlockDownload, for every tree of blocks, any number of     *)
(* peers and every order of their messages: the bookkeeping of the blocks  *)
(* in flight is exact, and a stalling peer owes a block that is missing.   *)
(***************************************************************************)
EXTENDS BlockDownload, FiniteSetTheorems, TLAPS

\* Zenon proves a leaf unless the leaf names the SMT solver.
USE Zenon

-----------------------------------------------------------------------------
(* Numbers and sequences. *)

LEMMA LeastNumber ==
  ASSUME NEW T \in SUBSET Nat, T # {}
  PROVE  \E n \in T : \A m \in T : n <= m
<1>1. PICK n \in T : \A m \in T : ~(<<m, n>> \in OpToRel(<, Nat))
  BY WFMin, NatLessThanWellFounded
<1>2. ASSUME NEW m \in T PROVE n <= m
  <2>1. OpToRel(<, Nat) = {s \in Nat \X Nat : s[1] < s[2]}
    BY DEF OpToRel
  <2>2. m \in Nat /\ n \in Nat /\ (m < n => <<m, n>> \in {s \in Nat \X Nat : s[1] < s[2]})
    BY SMT
  <2>3. ~(m < n)
    BY <1>1, <2>1, <2>2
  <2> QED
    BY SMT, <2>2, <2>3
<1> QED
  BY <1>2

LEMMA SeqEntry == ASSUME NEW S, NEW s \in Seq(S), NEW i \in 1 .. Len(s) PROVE s[i] \in S
  BY SMT

LEMMA SeqLen ==
  ASSUME NEW S, NEW s \in Seq(S)
  PROVE  /\ Len(s) \in Nat
         /\ DOMAIN s = 1 .. Len(s)
         /\ s = <<>> <=> Len(s) = 0
  BY SMT

LEMMA SeqAppend ==
  ASSUME NEW S, NEW s \in Seq(S), NEW e \in S
  PROVE  /\ Append(s, e) \in Seq(S) /\ Append(s, e) # <<>>
         /\ Len(Append(s, e)) = Len(s) + 1
         /\ \A i \in 1 .. Len(s) : Append(s, e)[i] = s[i]
         /\ Append(s, e)[Len(s) + 1] = e
  BY SMT

\* A function on 1 .. n is a sequence.
LEMMA SeqFunction ==
  ASSUME NEW S, NEW n \in Nat, NEW f \in [1 .. n -> S]
  PROVE  f \in Seq(S) /\ Len(f) = n
  BY SMT

LEMMA SubSeqType ==
  ASSUME NEW S, NEW s \in Seq(S), NEW m \in Nat \ {0}, NEW n \in 0 .. Len(s)
  PROVE  SubSeq(s, m, n) \in Seq(S)
  BY SMT

-----------------------------------------------------------------------------
(* The tree of blocks. *)

\* A set of blocks that holds the parent of each of its members.
Closed(S) == \A x \in S \ {Genesis} : Parent[x] \in S

LEMMA AncType == \A b \in Block : Anc[b] \in SUBSET Block
  BY DEF Anc

LEMMA AncLeast ==
  ASSUME NEW b \in Block, NEW S \in SUBSET Block, b \in S, Closed(S)
  PROVE  Anc[b] \subseteq S
  BY DEF Anc, Closed

LEMMA AncSelf == \A b \in Block : b \in Anc[b]
  BY DEF Anc

LEMMA AncClosed == \A b \in Block : Closed(Anc[b])
<1> SUFFICES ASSUME NEW b \in Block, NEW x \in Anc[b] \ {Genesis}
             PROVE  Parent[x] \in Anc[b]
  BY DEF Closed
<1>1. x \in Block /\ Parent[x] \in Block
  BY AncType, TreeAssumption
<1>2. ASSUME NEW S \in SUBSET Block, b \in S, \A y \in S \ {Genesis} : Parent[y] \in S
      PROVE  Parent[x] \in S
  BY <1>2 DEF Anc
<1> QED
  BY <1>1, <1>2 DEF Anc

\* The ancestors of an ancestor are ancestors.
LEMMA AncTrans ==
  ASSUME NEW b \in Block, NEW a \in Anc[b]
  PROVE  a \in Block /\ Anc[a] \subseteq Anc[b]
  BY AncType, AncClosed, AncLeast

\* The ancestors of a block are the block and the ancestors of its parent.
LEMMA AncStep ==
  ASSUME NEW b \in Block \ {Genesis}
  PROVE  /\ Parent[b] \in Block
         /\ Anc[b] = {b} \cup Anc[Parent[b]]
<1>1. Parent[b] \in Block /\ Parent[b] \in Anc[b] /\ b \in Anc[b]
  BY TreeAssumption, AncSelf, AncClosed DEF Closed
<1>2. Anc[Parent[b]] \subseteq Anc[b]
  BY <1>1, AncTrans
<1>3. Closed({b} \cup Anc[Parent[b]])
  BY <1>1, AncClosed, AncSelf DEF Closed
<1>4. {b} \cup Anc[Parent[b]] \in SUBSET Block
  BY <1>1, AncType
<1>5. Anc[b] \subseteq {b} \cup Anc[Parent[b]]
  BY <1>3, <1>4, AncLeast
<1> QED
  BY <1>1, <1>2, <1>5

\* No block is above its parent's ancestors: chain work grows along a branch.
LEMMA AncAcyclic ==
  ASSUME NEW b \in Block \ {Genesis}
  PROVE  b \notin Anc[Parent[b]]
<1> DEFINE S == {x \in Block : Work[x] < Work[b]}
<1>1. Closed(S)
  <2> SUFFICES ASSUME NEW x \in S \ {Genesis} PROVE Parent[x] \in S
    BY DEF Closed
  <2>1. Parent[x] \in Block /\ Work[Parent[x]] < Work[x]
    BY TreeAssumption
  <2>2. Work[x] \in Nat /\ Work[b] \in Nat /\ Work[Parent[x]] \in Nat
    BY <2>1, TreeAssumption
  <2> QED
    BY SMT, <2>1, <2>2
<1>2. Parent[b] \in S
  BY TreeAssumption
<1>3. Anc[Parent[b]] \subseteq S
  BY <1>1, <1>2, AncLeast
<1>4. Work[b] \in Nat
  BY TreeAssumption
<1> QED
  BY SMT, <1>3, <1>4

\* nHeight is a number, 0 for the genesis block, and grows by one.
LEMMA HeightType == \A b \in Block : Anc[b] # {} /\ IsFiniteSet(Anc[b]) /\ Height[b] \in Nat
<1> SUFFICES ASSUME NEW b \in Block
             PROVE  Anc[b] # {} /\ IsFiniteSet(Anc[b]) /\ Height[b] \in Nat
  OBVIOUS
<1>1. Anc[b] # {} /\ IsFiniteSet(Anc[b])
  BY AncSelf, AncType, TreeAssumption, FS_Subset
<1>2. Cardinality(Anc[b]) \in Nat /\ Cardinality(Anc[b]) # 0
  BY <1>1, FS_CardinalityType, FS_EmptySet
<1>3. Height[b] = Cardinality(Anc[b]) - 1
  BY DEF Height
<1> QED
  BY SMT, <1>1, <1>2, <1>3

LEMMA HeightStep ==
  ASSUME NEW b \in Block \ {Genesis}
  PROVE  Height[b] = Height[Parent[b]] + 1
<1>1. Parent[b] \in Block /\ Anc[b] = Anc[Parent[b]] \cup {b} /\ b \notin Anc[Parent[b]]
  BY AncStep, AncAcyclic
<1>2. Cardinality(Anc[b]) = Cardinality(Anc[Parent[b]]) + 1
  BY <1>1, FS_AddElement, HeightType
<1>3. Cardinality(Anc[Parent[b]]) \in Nat
  BY <1>1, HeightType, FS_CardinalityType
<1>4. Height[b] = Cardinality(Anc[b]) - 1 /\ Height[Parent[b]] = Cardinality(Anc[Parent[b]]) - 1
  BY <1>1 DEF Height
<1> QED
  BY SMT, <1>2, <1>3, <1>4

\* Of a set of blocks one is lowest; so what holds of a block as soon as it holds of its
\* parent, and of the genesis block, holds of every block.
LEMMA TreeInduction ==
  ASSUME NEW S \in SUBSET Block, Genesis \in S,
         \A b \in Block \ {Genesis} : Parent[b] \in S => b \in S
  PROVE  S = Block
<1> SUFFICES ASSUME Block \ S # {} PROVE FALSE
  OBVIOUS
<1> DEFINE T == {Height[b] : b \in Block \ S}
<1>1. T \in SUBSET Nat /\ T # {}
  BY SMT, HeightType
<1>2. PICK n \in T : \A m \in T : n <= m
  BY <1>1, LeastNumber
<1>3. PICK b \in Block \ S : n = Height[b]
  BY <1>2
<1>4. b \in Block \ {Genesis} /\ Parent[b] \in Block \ S
  BY <1>3, AncStep
<1>5. Height[b] = Height[Parent[b]] + 1 /\ Height[b] \in Nat /\ Height[Parent[b]] \in Nat
  BY <1>4, HeightStep, HeightType
<1>6. n <= Height[Parent[b]]
  <2>1. Height[Parent[b]] \in T
    BY <1>4
  <2> QED
    BY <1>2, <2>1
<1> QED
  BY SMT, <1>3, <1>5, <1>6

\* GetAncestor finds a block at every height up to the block's own.
LEMMA AncestorExists ==
  \A b \in Block : \A h \in 0 .. Height[b] : \E a \in Anc[b] : Height[a] = h
<1> DEFINE S == {b \in Block : \A h \in 0 .. Height[b] : \E a \in Anc[b] : Height[a] = h}
<1>1. Genesis \in S
  <2>1. Genesis \in Block /\ Genesis \in Anc[Genesis] /\ Anc[Genesis] \subseteq {Genesis}
    <3>1. Closed({Genesis})
      BY DEF Closed
    <3> QED
      BY <3>1, TreeAssumption, AncSelf, AncLeast
  <2>2. Anc[Genesis] = {Genesis}
    BY <2>1
  <2>3. Height[Genesis] = 0
    <3>1. Cardinality(Anc[Genesis]) = 1
      BY <2>2, FS_Singleton
    <3> QED
      BY SMT, <2>1, <3>1 DEF Height
  <2>4. ASSUME NEW h \in 0 .. Height[Genesis] PROVE h = Height[Genesis]
    BY SMT, <2>3
  <2> QED
    BY <2>1, <2>4
<1>2. ASSUME NEW b \in Block \ {Genesis}, Parent[b] \in S PROVE b \in S
  <2> SUFFICES ASSUME NEW h \in 0 .. Height[b] PROVE \E a \in Anc[b] : Height[a] = h
    OBVIOUS
  <2>1. CASE h = Height[b]
    BY <2>1, AncSelf
  <2>2. CASE h # Height[b]
    <3>1. Height[b] = Height[Parent[b]] + 1 /\ Height[Parent[b]] \in Nat
      BY <1>2, HeightStep, HeightType
    <3>2. h \in 0 .. Height[Parent[b]]
      BY SMT, <2>2, <3>1
    <3> QED
      BY <1>2, <3>2, AncStep
  <2> QED
    BY <2>1, <2>2
<1>3. S = Block
  <2> HIDE DEF S
  <2> QED
    BY <1>1, <1>2, TreeInduction DEF S
<1> QED
  BY <1>3

\* The chain to a block is a sequence of blocks.
LEMMA ChainType ==
  ASSUME NEW b \in Block
  PROVE  ChainTo[b] \in Seq(Block) /\ Len(ChainTo[b]) = Height[b] + 1
<1>1. Height[b] \in Nat
  BY HeightType
<1>2. ASSUME NEW i \in 1 .. Height[b] + 1
      PROVE  (CHOOSE a \in Anc[b] : Height[a] = i - 1) \in Block
  <2>1. i - 1 \in 0 .. Height[b]
    BY SMT, <1>1
  <2>2. \E a \in Anc[b] : Height[a] = i - 1
    BY <2>1, AncestorExists
  <2> QED
    BY <2>2, AncType
<1>3. ChainTo[b] \in [1 .. Height[b] + 1 -> Block]
  BY <1>2 DEF ChainTo
<1>4. Height[b] + 1 \in Nat
  BY SMT, <1>1
<1> QED
  BY <1>3, <1>4, SeqFunction

LEMMA AncestorAtType ==
  ASSUME NEW b \in Block, NEW h \in 0 .. Height[b]
  PROVE  AncestorAt(b, h) \in Block
<1>1. Height[b] \in Nat
  BY HeightType
<1>2. h + 1 \in 1 .. Len(ChainTo[b])
  BY SMT, <1>1, ChainType
<1> QED
  BY <1>2, ChainType, SeqEntry DEF AncestorAt

LEMMA PathType ==
  ASSUME NEW b \in Block, NEW from \in Nat, NEW to \in Nat, to <= Height[b]
  PROVE  Path(b, from, to) \in Seq(Block)
<1>1. Height[b] \in Nat
  BY HeightType
<1>2. from + 2 \in Nat \ {0} /\ to + 1 \in 0 .. Len(ChainTo[b])
  BY SMT, <1>1, ChainType
<1> QED
  BY <1>2, ChainType, SubSeqType DEF Path

\* "Eventually all chain branches meet at the genesis block."
LEMMA CommonAncestorExists ==
  ASSUME NEW b \in Block
  PROVE  \A a \in Block : \E c \in Anc[a] \cap Anc[b] : Anc[a] \cap Anc[b] \subseteq Anc[c]
<1> DEFINE S == {a \in Block : \E c \in Anc[a] \cap Anc[b] : Anc[a] \cap Anc[b] \subseteq Anc[c]}
<1>0. Genesis \in Anc[b]
  <2> DEFINE R == {x \in Block : Genesis \in Anc[x]}
  <2>1. Genesis \in R
    BY TreeAssumption, AncSelf
  <2>2. \A x \in Block \ {Genesis} : Parent[x] \in R => x \in R
    BY AncStep
  <2>3. R = Block
    <3> HIDE DEF R
    <3> QED
      BY <2>1, <2>2, TreeInduction DEF R
  <2> QED
    BY <2>3
<1>1. ASSUME NEW a \in Block, a \in Anc[b] PROVE a \in S
  BY <1>1, AncSelf
<1>2. Genesis \in S
  BY <1>0, <1>1, TreeAssumption
<1>3. ASSUME NEW a \in Block \ {Genesis}, Parent[a] \in S PROVE a \in S
  <2>1. CASE a \in Anc[b]
    BY <1>1, <2>1
  <2>2. CASE a \notin Anc[b]
    <3>1. Anc[a] \cap Anc[b] = Anc[Parent[a]] \cap Anc[b]
      BY <2>2, AncStep
    <3> QED
      BY <1>3, <3>1
  <2> QED
    BY <2>1, <2>2
<1>4. S = Block
  <2> HIDE DEF S
  <2> QED
    BY <1>2, <1>3, TreeInduction DEF S
<1> QED
  BY <1>4

LEMMA LastCommonAncestorType ==
  ASSUME NEW a \in Block, NEW b \in Block
  PROVE  LastCommonAncestor[a][b] \in Anc[a] \cap Anc[b]
  BY CommonAncestorExists DEF LastCommonAncestor

\* An ancestor is not higher.
LEMMA AncHeight ==
  ASSUME NEW b \in Block, NEW a \in Anc[b]
  PROVE  Height[a] <= Height[b]
<1>1. a \in Block /\ Anc[a] \in SUBSET Anc[b]
  BY AncTrans
<1>2. Cardinality(Anc[a]) <= Cardinality(Anc[b])
  BY <1>1, HeightType, FS_Subset
<1>3. Cardinality(Anc[a]) \in Nat /\ Cardinality(Anc[b]) \in Nat
  BY <1>1, HeightType, FS_CardinalityType
<1>4. Height[a] = Cardinality(Anc[a]) - 1 /\ Height[b] = Cardinality(Anc[b]) - 1
  BY <1>1 DEF Height
<1> QED
  BY SMT, <1>2, <1>3, <1>4

-----------------------------------------------------------------------------
(* The bookkeeping of downloads. *)

\* No block is twice in a queue.
Distinct(q) == \A i, j \in 1 .. Len(q) : q[i] = q[j] => i = j

\* (Field by field: the provers do not derive that a changed record is of a record set.)
DlType(d) ==
    /\ DOMAIN d = {"flight", "queue", "partial", "stalling", "nPeers"}
    /\ DOMAIN d.flight \in SUBSET Block
    /\ \A b \in DOMAIN d.flight : d.flight[b] \in Peer
    /\ d.queue \in [Peer -> Seq(Block)]
    /\ d.partial \in SUBSET Block
    /\ d.stalling \in SUBSET Peer
    /\ d.nPeers \in Nat

Downloading(queue) == {p \in Peer : queue[p] # <<>>}

\* The bookkeeping is exact, for the peers in conn.
DlOk(d, conn) ==
    /\ DlType(d)
    /\ \A p \in Peer : /\ Distinct(d.queue[p])
                       /\ Range(d.queue[p]) = {b \in DOMAIN d.flight : d.flight[b] = p}
                       /\ Len(d.queue[p]) <= MaxTransit
                       /\ d.queue[p] # <<>> => p \in conn
    /\ d.partial \subseteq DOMAIN d.flight
    /\ d.stalling \subseteq Downloading(d.queue)
    /\ d.nPeers = Cardinality(Downloading(d.queue))

\* A queue without repetitions is as long as the set of its blocks.
LEMMA DistinctLen ==
  ASSUME NEW q \in Seq(Block), Distinct(q)
  PROVE  Len(q) = Cardinality(Range(q))
<1>1. Len(q) \in Nat /\ DOMAIN q = 1 .. Len(q)
  BY SeqLen
<1>2. q \in Bijection(1 .. Len(q), Range(q))
  <2>1. q \in [1 .. Len(q) -> Range(q)]
    BY SMT, <1>1 DEF Range
  <2>2. \A i, j \in 1 .. Len(q) : q[i] = q[j] => i = j
    BY DEF Distinct
  <2>3. \A y \in Range(q) : \E i \in 1 .. Len(q) : q[i] = y
    BY <1>1 DEF Range
  <2> QED
    BY <2>1, <2>2, <2>3 DEF Bijection, Injection, Surjection, IsInjective
<1>3. IsFiniteSet(1 .. Len(q)) /\ Cardinality(1 .. Len(q)) = Len(q)
  <2>1. Cardinality(1 .. Len(q)) = IF 1 > Len(q) THEN 0 ELSE Len(q) - 1 + 1
    BY SMT, <1>1, FS_Interval
  <2> QED
    BY SMT, <1>1, <2>1, FS_Interval
<1> QED
  BY <1>2, <1>3, FS_Bijection DEF ExistsBijection

LEMMA EraseProperties ==
  ASSUME NEW q \in Seq(Block), Distinct(q), NEW b \in Range(q)
  PROVE  /\ Erase(q, b) \in Seq(Block)
         /\ Len(Erase(q, b)) <= Len(q)
         /\ Distinct(Erase(q, b))
         /\ Range(Erase(q, b)) = Range(q) \ {b}
<1>1. Len(q) \in Nat /\ DOMAIN q = 1 .. Len(q) /\ \A k \in 1 .. Len(q) : q[k] \in Block
  BY SeqLen, SeqEntry
<1> DEFINE i == CHOOSE k \in DOMAIN q : q[k] = b
           e == [k \in 1 .. Len(q) - 1 |-> IF k < i THEN q[k] ELSE q[k + 1]]
<1>2. i \in 1 .. Len(q) /\ q[i] = b
  BY <1>1 DEF Range
<1>3. Erase(q, b) = e
  BY DEF Erase
<1> HIDE DEF i
<1>4. Len(q) - 1 \in Nat /\ \A k \in 1 .. Len(q) - 1 : k \in 1 .. Len(q) /\ k + 1 \in 1 .. Len(q)
  BY SMT, <1>1, <1>2
<1>5. e \in [1 .. Len(q) - 1 -> Block]
  BY <1>1, <1>4
<1>6. e \in Seq(Block) /\ Len(e) = Len(q) - 1
  BY <1>4, <1>5, SeqFunction
<1>7. DOMAIN e = 1 .. Len(q) - 1
  BY <1>5
<1>8. Distinct(e)
  <2> SUFFICES ASSUME NEW j \in 1 .. Len(q) - 1, NEW k \in 1 .. Len(q) - 1, e[j] = e[k] PROVE j = k
    BY <1>6 DEF Distinct
  <2>1. \A x, y \in 1 .. Len(q) : q[x] = q[y] => x = y
    BY DEF Distinct
  <2>2. e[j] = q[IF j < i THEN j ELSE j + 1] /\ e[k] = q[IF k < i THEN k ELSE k + 1]
    OBVIOUS
  <2>3. (IF j < i THEN j ELSE j + 1) \in 1 .. Len(q) /\ (IF k < i THEN k ELSE k + 1) \in 1 .. Len(q)
    BY <1>4
  <2>4. (IF j < i THEN j ELSE j + 1) = (IF k < i THEN k ELSE k + 1)
    BY <2>1, <2>2, <2>3
  <2> QED
    BY SMT, <1>1, <1>2, <2>4
<1>9. Range(e) = Range(q) \ {b}
  <2>1. ASSUME NEW x \in Range(e) PROVE x \in Range(q) \ {b}
    <3>1. PICK k \in 1 .. Len(q) - 1 : e[k] = x
      BY <1>7, <2>1 DEF Range
    <3>2. (k < i => x = q[k] /\ k \in 1 .. Len(q) /\ k # i)
          /\ (~(k < i) => x = q[k + 1] /\ k + 1 \in 1 .. Len(q) /\ k + 1 # i)
      <4>1. k < i => k # i
        BY SMT, <1>1, <1>2, <3>1
      <4>2. ~(k < i) => k + 1 # i
        BY SMT, <1>1, <1>2, <3>1
      <4> QED
        BY <1>4, <3>1, <4>1, <4>2
    <3>3. PICK j \in 1 .. Len(q) : x = q[j] /\ j # i
      BY <3>2
    <3> QED
      BY <1>1, <1>2, <3>3 DEF Range, Distinct
  <2>2. ASSUME NEW x \in Range(q) \ {b} PROVE x \in Range(e)
    <3>1. PICK j \in 1 .. Len(q) : q[j] = x
      BY <1>1, <2>2 DEF Range
    <3>2. j # i
      BY <1>2, <2>2, <3>1
    <3>3. CASE j < i
      <4>1. j \in 1 .. Len(q) - 1
        BY SMT, <1>1, <1>2, <3>3
      <4> QED
        BY <1>7, <3>1, <3>3, <4>1 DEF Range
    <3>4. CASE ~(j < i)
      <4>1. j - 1 \in 1 .. Len(q) - 1 /\ ~(j - 1 < i) /\ (j - 1) + 1 = j
        BY SMT, <1>1, <1>2, <3>2, <3>4
      <4>2. e[j - 1] = x
        BY <3>1, <4>1
      <4> QED
        BY <1>7, <4>1, <4>2 DEF Range
    <3> QED
      BY <3>3, <3>4
  <2> QED
    BY <2>1, <2>2
<1>10. Len(e) <= Len(q)
  <2>1. Len(q) - 1 <= Len(q)
    BY SMT, <1>1
  <2> QED
    BY <1>6, <2>1
<1> QED
  BY <1>3, <1>6, <1>8, <1>9, <1>10

\* How many peers download when the queue of one changes.
LEMMA DownloadingFinite ==
  ASSUME NEW queue
  PROVE  IsFiniteSet(Downloading(queue)) /\ Cardinality(Downloading(queue)) \in Nat
<1>1. Downloading(queue) \subseteq Peer
  BY DEF Downloading
<1> QED
  BY <1>1, PeerAssumption, FS_Subset, FS_CardinalityType

LEMMA DownloadingLess ==
  ASSUME NEW queue \in [Peer -> Seq(Block)], NEW p \in Peer, queue[p] # <<>>,
         NEW next, next = [queue EXCEPT ![p] = <<>>]
  PROVE  /\ Cardinality(Downloading(next)) = Cardinality(Downloading(queue)) - 1
         /\ Cardinality(Downloading(queue)) - 1 \in Nat
<1>1. Downloading(next) = Downloading(queue) \ {p}
  BY DEF Downloading
<1>2. p \in Downloading(queue)
  BY DEF Downloading
<1>3. Cardinality(Downloading(next)) = Cardinality(Downloading(queue)) - 1
  BY <1>1, <1>2, DownloadingFinite, FS_RemoveElement
<1> QED
  BY <1>3, DownloadingFinite

LEMMA DownloadingMore ==
  ASSUME NEW queue \in [Peer -> Seq(Block)], NEW p \in Peer, NEW q \in Seq(Block),
         NEW next, next = [queue EXCEPT ![p] = q], queue[p] = <<>>, q # <<>>
  PROVE  Cardinality(Downloading(next)) = Cardinality(Downloading(queue)) + 1
<1>1. Downloading(next) = Downloading(queue) \cup {p}
  BY DEF Downloading
<1>2. p \notin Downloading(queue)
  BY DEF Downloading
<1> QED
  BY <1>1, <1>2, DownloadingFinite, FS_AddElement

LEMMA DownloadingSame ==
  ASSUME NEW queue \in [Peer -> Seq(Block)], NEW p \in Peer, NEW q \in Seq(Block),
         NEW next, next = [queue EXCEPT ![p] = q], queue[p] # <<>>, q # <<>>
  PROVE  Cardinality(Downloading(next)) = Cardinality(Downloading(queue))
<1>1. Downloading(next) = Downloading(queue)
  BY DEF Downloading
<1> QED
  BY <1>1

\* What MarkBlockAsReceived does to the fields.
LEMMA ReceivedFields ==
  ASSUME NEW d, DlType(d), NEW b \in DOMAIN d.flight
  PROVE  LET r == MarkBlockAsReceived(d, b)
             p == d.flight[b]
             rest == Erase(d.queue[p], b)
         IN  /\ DOMAIN r = DOMAIN d
             /\ r.flight = [x \in DOMAIN d.flight \ {b} |-> d.flight[x]]
             /\ r.queue = [d.queue EXCEPT ![p] = rest]
             /\ r.partial = d.partial \ {b}
             /\ r.stalling = d.stalling \ {p}
             /\ r.nPeers = IF rest = <<>> THEN d.nPeers - 1 ELSE d.nPeers
<1> DEFINE r == MarkBlockAsReceived(d, b)
           p == d.flight[b]
           rest == Erase(d.queue[p], b)
           f == [x \in DOMAIN d.flight \ {b} |-> d.flight[x]]
<1>1. r = [d EXCEPT !.flight = f,
                    !.queue[p] = rest,
                    !.partial = @ \ {b},
                    !.stalling = @ \ {p},
                    !.nPeers = IF rest = <<>> THEN @ - 1 ELSE @]
  BY DEF MarkBlockAsReceived, Restrict
<1> HIDE DEF r, p, rest, f
<1>2. /\ DOMAIN r = DOMAIN d
      /\ r.flight = f
      /\ r.queue = [d.queue EXCEPT ![p] = rest]
      /\ r.partial = d.partial \ {b}
      /\ r.stalling = d.stalling \ {p}
      /\ r.nPeers = IF rest = <<>> THEN d.nPeers - 1 ELSE d.nPeers
  BY <1>1 DEF DlType
<1> QED
  BY <1>2 DEF r, p, rest, f

\* A block that has arrived is no longer in flight, and the bookkeeping stays exact.
LEMMA ReceivedOk ==
  ASSUME NEW d, NEW conn, DlOk(d, conn), NEW b \in Block
  PROVE  LET r == MarkBlockAsReceived(d, b)
         IN  /\ DlOk(r, conn)
             /\ b \notin DOMAIN r.flight
             /\ \A p \in Peer : d.queue[p] = <<>> => r.queue[p] = <<>>
             /\ \A p \in Peer : Len(r.queue[p]) <= Len(d.queue[p])
<1>0. DlType(d)
  BY DEF DlOk
<1>1. CASE b \notin DOMAIN d.flight
  <2>1. \A p \in Peer : Len(d.queue[p]) <= Len(d.queue[p])
    <3>1. \A p \in Peer : Len(d.queue[p]) \in Nat
      BY <1>0, SeqLen DEF DlType
    <3> QED
      BY SMT, <3>1
  <2> QED
    BY <1>1, <2>1 DEF MarkBlockAsReceived
<1>2. CASE b \in DOMAIN d.flight
  <2> DEFINE r == MarkBlockAsReceived(d, b)
             p == d.flight[b]
             rest == Erase(d.queue[p], b)
  <2>1. /\ DOMAIN r = DOMAIN d
        /\ r.flight = [x \in DOMAIN d.flight \ {b} |-> d.flight[x]]
        /\ r.queue = [d.queue EXCEPT ![p] = rest]
        /\ r.partial = d.partial \ {b}
        /\ r.stalling = d.stalling \ {p}
        /\ r.nPeers = IF rest = <<>> THEN d.nPeers - 1 ELSE d.nPeers
    BY <1>0, <1>2, ReceivedFields
  <2>2. p \in Peer /\ d.queue[p] \in Seq(Block) /\ Distinct(d.queue[p]) /\ b \in Range(d.queue[p])
    BY <1>2 DEF DlOk, DlType
  <2>3. /\ rest \in Seq(Block)
        /\ Len(rest) <= Len(d.queue[p])
        /\ Distinct(rest)
        /\ Range(rest) = Range(d.queue[p]) \ {b}
    BY <2>2, EraseProperties
  <2>4. d.queue[p] # <<>>
    <3>1. d.queue[p] = <<>> => Range(d.queue[p]) = {}
      BY SMT DEF Range
    <3> QED
      BY <2>2, <3>1
  <2> HIDE DEF r, p, rest
  <2>5. r.queue[p] = rest /\ \A q \in Peer \ {p} : r.queue[q] = d.queue[q]
    BY <2>1, <2>2, <1>0 DEF DlType
  <2>6. r.nPeers = Cardinality(Downloading(r.queue)) /\ r.nPeers \in Nat
    <3>1. d.queue \in [Peer -> Seq(Block)] /\ d.nPeers = Cardinality(Downloading(d.queue)) /\ d.nPeers \in Nat
      BY <1>0 DEF DlOk, DlType
    <3>0. r.queue = [d.queue EXCEPT ![p] = rest] /\ p \in Peer /\ rest \in Seq(Block)
      BY <2>1, <2>2, <2>3
    <3>2. ASSUME rest = <<>>
          PROVE  Cardinality(Downloading(r.queue)) = d.nPeers - 1 /\ d.nPeers - 1 \in Nat
      <4>0. r.queue = [d.queue EXCEPT ![p] = <<>>]
        BY <3>0, <3>2
      <4>1. /\ Cardinality(Downloading(r.queue)) = Cardinality(Downloading(d.queue)) - 1
            /\ Cardinality(Downloading(d.queue)) - 1 \in Nat
        BY <2>4, <3>0, <3>1, <4>0, DownloadingLess
      <4> QED
        BY <3>1, <4>1
    <3>3. ASSUME rest # <<>> PROVE Cardinality(Downloading(r.queue)) = d.nPeers
      <4>1. Cardinality(Downloading(r.queue)) = Cardinality(Downloading(d.queue))
        BY SMT, <2>4, <3>0, <3>1, <3>3, DownloadingSame
      <4> QED
        BY <3>1, <4>1
    <3>4. r.nPeers = IF rest = <<>> THEN d.nPeers - 1 ELSE d.nPeers
      BY <2>1
    <3> QED
      BY <3>1, <3>2, <3>3, <3>4
  <2>7. DlType(r)
    <3>1. DOMAIN r.flight = DOMAIN d.flight \ {b} /\ \A x \in DOMAIN d.flight \ {b} : r.flight[x] = d.flight[x]
      BY <2>1
    <3>2. r.queue \in [Peer -> Seq(Block)]
      BY <1>0, <2>1, <2>2, <2>3 DEF DlType
    <3> QED
      BY <1>0, <2>1, <2>6, <3>1, <3>2 DEF DlType
  <2>8. ASSUME NEW q \in Peer
        PROVE  /\ Distinct(r.queue[q])
               /\ Range(r.queue[q]) = {x \in DOMAIN r.flight : r.flight[x] = q}
               /\ Len(r.queue[q]) <= MaxTransit
               /\ r.queue[q] # <<>> => q \in conn
               /\ d.queue[q] = <<>> => r.queue[q] = <<>>
               /\ Len(r.queue[q]) <= Len(d.queue[q])
    <3>1. /\ Distinct(d.queue[q])
          /\ Range(d.queue[q]) = {x \in DOMAIN d.flight : d.flight[x] = q}
          /\ Len(d.queue[q]) <= MaxTransit
          /\ d.queue[q] # <<>> => q \in conn
      BY DEF DlOk
    <3>2. {x \in DOMAIN r.flight : r.flight[x] = q} = {x \in DOMAIN d.flight : d.flight[x] = q} \ {b}
      BY <2>1
    <3>3. Len(d.queue[q]) \in Nat /\ Len(r.queue[q]) \in Nat /\ MaxTransit \in Nat
      BY <1>0, <2>7, PeerAssumption, SeqLen DEF DlType
    <3>4. CASE q = p
      <4>1. Len(r.queue[q]) <= Len(d.queue[q])
        BY <3>4, <2>3, <2>5
      <4>2. Len(r.queue[q]) <= MaxTransit
        BY SMT, <3>1, <3>3, <4>1
      <4> QED
        BY <2>3, <2>4, <2>5, <3>1, <3>2, <3>4, <4>1, <4>2
    <3>5. CASE q # p
      <4>1. b \notin {x \in DOMAIN d.flight : d.flight[x] = q}
        BY <3>5 DEF p
      <4>2. Len(d.queue[q]) <= Len(d.queue[q])
        BY SMT, <3>3
      <4> QED
        BY <2>5, <3>1, <3>2, <3>5, <4>1, <4>2
    <3> QED
      BY <3>4, <3>5
  <2>9. r.partial \subseteq DOMAIN r.flight
    BY <2>1 DEF DlOk
  <2>10. r.stalling \subseteq Downloading(r.queue)
    BY <2>1, <2>5 DEF DlOk, Downloading
  <2>11. DlOk(r, conn)
    BY <2>6, <2>7, <2>8, <2>9, <2>10 DEF DlOk
  <2>12. b \notin DOMAIN r.flight
    BY <2>1
  <2> QED
    BY <2>8, <2>11, <2>12 DEF r
<1> QED
  BY <1>1, <1>2

\* A block that is asked for is in flight, and the bookkeeping stays exact as long as
\* the peer is there and may be asked for another block.
LEMMA InFlightOk ==
  ASSUME NEW d, NEW conn, DlOk(d, conn), NEW b \in Block, NEW p \in Peer \cap conn, NEW partial \in BOOLEAN,
         (b \in DOMAIN d.flight /\ d.flight[b] = p) \/ Len(d.queue[p]) < MaxTransit
  PROVE  LET m == MarkBlockAsInFlight(d, p, b, partial)
         IN  /\ DlOk(m, conn)
             /\ b \in DOMAIN m.flight
             /\ Len(m.queue[p]) <= Len(d.queue[p]) + 1
<1>0. DlType(d) /\ Len(d.queue[p]) \in Nat
  BY SeqLen DEF DlOk, DlType
<1>1. CASE b \in DOMAIN d.flight /\ d.flight[b] = p
  <2>1. Len(d.queue[p]) <= Len(d.queue[p]) + 1
    BY SMT, <1>0
  <2> QED
    BY <1>1, <2>1 DEF MarkBlockAsInFlight
<1>2. CASE ~(b \in DOMAIN d.flight /\ d.flight[b] = p)
  <2> DEFINE r == MarkBlockAsReceived(d, b)
             m == MarkBlockAsInFlight(d, p, b, partial)
             f == [x \in DOMAIN r.flight \cup {b} |-> IF x = b THEN p ELSE r.flight[x]]
             part == IF partial THEN r.partial \cup {b} ELSE r.partial
             num == IF r.queue[p] = <<>> THEN r.nPeers + 1 ELSE r.nPeers
  <2>1. m = [r EXCEPT !.flight = [x \in DOMAIN @ \cup {b} |-> IF x = b THEN p ELSE @[x]],
                      !.queue[p] = Append(@, b),
                      !.partial = IF partial THEN @ \cup {b} ELSE @,
                      !.nPeers = IF r.queue[p] = <<>> THEN @ + 1 ELSE @]
    BY <1>2 DEF MarkBlockAsInFlight
  <2>2. DlOk(r, conn) /\ b \notin DOMAIN r.flight /\ Len(r.queue[p]) <= Len(d.queue[p])
    BY ReceivedOk
  <2> HIDE DEF r, m
  <2>3. DlType(r)
    BY <2>2 DEF DlOk
  <2>4. /\ DOMAIN m = DOMAIN r
        /\ m.flight = f
        /\ m.queue = [r.queue EXCEPT ![p] = Append(r.queue[p], b)]
        /\ m.partial = part
        /\ m.stalling = r.stalling
        /\ m.nPeers = num
    BY <2>1, <2>3 DEF DlType
  <2>5. /\ r.queue \in [Peer -> Seq(Block)] /\ r.queue[p] \in Seq(Block) /\ Len(r.queue[p]) \in Nat
        /\ DOMAIN r.queue[p] = 1 .. Len(r.queue[p])
    BY <2>3, SeqLen DEF DlType
  <2> DEFINE q == Append(r.queue[p], b)
  <2>6. /\ q \in Seq(Block) /\ q # <<>>
        /\ Len(q) = Len(r.queue[p]) + 1
        /\ \A i \in 1 .. Len(r.queue[p]) : q[i] = r.queue[p][i]
        /\ q[Len(r.queue[p]) + 1] = b
    BY SMT, <2>5, SeqAppend
  <2>7. DOMAIN q = 1 .. Len(q)
    BY <2>6, SeqLen
  <2>8. m.queue[p] = q /\ \A x \in Peer \ {p} : m.queue[x] = r.queue[x]
    BY <2>4, <2>5
  <2> HIDE DEF q
  <2>9. Range(q) = Range(r.queue[p]) \cup {b}
    <3>1. 1 .. Len(q) = (1 .. Len(r.queue[p])) \cup {Len(r.queue[p]) + 1}
      BY SMT, <2>5, <2>6
    <3> QED
      <4>1. \A x : x \in Range(q) <=> \E i \in 1 .. Len(q) : q[i] = x
        BY <2>7 DEF Range
      <4>2. \A x : x \in Range(r.queue[p]) <=> \E i \in 1 .. Len(r.queue[p]) : r.queue[p][i] = x
        BY <2>5 DEF Range
      <4>3. \A x : x \in Range(r.queue[p]) => x \in Range(q)
        BY <2>6, <3>1, <4>1, <4>2
      <4>4. b \in Range(q)
        BY <2>6, <3>1, <4>1
      <4>5. ASSUME NEW x \in Range(q) PROVE x \in Range(r.queue[p]) \cup {b}
        <5>1. PICK i \in 1 .. Len(q) : q[i] = x
          BY <4>1
        <5> QED
          BY <2>6, <3>1, <4>2, <5>1
      <4> QED
        BY <4>3, <4>4, <4>5
  <2>10. Distinct(q)
    <3> SUFFICES ASSUME NEW i \in 1 .. Len(q), NEW j \in 1 .. Len(q), q[i] = q[j] PROVE i = j
      BY DEF Distinct
    <3>1. i \in 1 .. Len(r.queue[p]) \/ i = Len(r.queue[p]) + 1
      BY SMT, <2>5, <2>6
    <3>2. j \in 1 .. Len(r.queue[p]) \/ j = Len(r.queue[p]) + 1
      BY SMT, <2>5, <2>6
    <3>3. \A k \in 1 .. Len(r.queue[p]) : r.queue[p][k] # b
      <4>1. Range(r.queue[p]) \subseteq DOMAIN r.flight
        BY <2>2 DEF DlOk
      <4> QED
        BY <2>2, <2>5, <4>1 DEF Range
    <3>4. Distinct(r.queue[p])
      BY <2>2 DEF DlOk
    <3> QED
      BY <2>6, <3>1, <3>2, <3>3, <3>4 DEF Distinct
  <2>11. m.nPeers = Cardinality(Downloading(m.queue)) /\ m.nPeers \in Nat
    <3>1. r.nPeers = Cardinality(Downloading(r.queue)) /\ r.nPeers \in Nat /\ r.nPeers + 1 \in Nat
      <4>1. r.nPeers = Cardinality(Downloading(r.queue)) /\ r.nPeers \in Nat
        BY <2>2, <2>3 DEF DlOk, DlType
      <4> QED
        BY SMT, <4>1
    <3>0. m.queue = [r.queue EXCEPT ![p] = q] /\ q \in Seq(Block) /\ q # <<>>
      BY <2>4, <2>6 DEF q
    <3>2. ASSUME r.queue[p] = <<>> PROVE Cardinality(Downloading(m.queue)) = r.nPeers + 1
      <4>1. Cardinality(Downloading(m.queue)) = Cardinality(Downloading(r.queue)) + 1
        BY <2>5, <3>0, <3>2, DownloadingMore
      <4> QED
        BY <3>1, <4>1
    <3>3. ASSUME r.queue[p] # <<>> PROVE Cardinality(Downloading(m.queue)) = r.nPeers
      <4>1. Cardinality(Downloading(m.queue)) = Cardinality(Downloading(r.queue))
        BY <2>5, <3>0, <3>3, DownloadingSame
      <4> QED
        BY <3>1, <4>1
    <3> QED
      BY <2>4, <3>1, <3>2, <3>3
  <2>12. DOMAIN m.flight = DOMAIN r.flight \cup {b} /\ m.flight[b] = p
         /\ \A x \in DOMAIN r.flight : m.flight[x] = r.flight[x]
    BY <2>2, <2>4
  <2>13. DlType(m)
    <3>1. m.queue \in [Peer -> Seq(Block)]
      BY <2>4, <2>5, <2>6 DEF q
    <3>2. DOMAIN m.flight \in SUBSET Block /\ \A x \in DOMAIN m.flight : m.flight[x] \in Peer
      BY <2>3, <2>12 DEF DlType
    <3>3. m.partial \in SUBSET Block
      BY SMT, <2>3, <2>4 DEF DlType
    <3> QED
      BY <2>3, <2>4, <2>11, <3>1, <3>2, <3>3 DEF DlType
  <2>14. Len(q) <= Len(d.queue[p]) + 1 /\ Len(q) <= MaxTransit
    <3>1. Len(d.queue[p]) < MaxTransit /\ MaxTransit \in Nat
      BY <1>2, PeerAssumption
    <3> QED
      BY SMT, <1>0, <2>2, <2>5, <2>6, <3>1
  <2>15. ASSUME NEW x \in Peer
         PROVE  /\ Distinct(m.queue[x])
                /\ Range(m.queue[x]) = {y \in DOMAIN m.flight : m.flight[y] = x}
                /\ Len(m.queue[x]) <= MaxTransit
                /\ m.queue[x] # <<>> => x \in conn
    <3>1. /\ Distinct(r.queue[x])
          /\ Range(r.queue[x]) = {y \in DOMAIN r.flight : r.flight[y] = x}
          /\ Len(r.queue[x]) <= MaxTransit
          /\ r.queue[x] # <<>> => x \in conn
      BY <2>2 DEF DlOk
    <3>2. CASE x = p
      <4>1. {y \in DOMAIN m.flight : m.flight[y] = x} = {y \in DOMAIN r.flight : r.flight[y] = x} \cup {b}
        BY SMT, <2>12, <3>2
      <4> QED
        BY <2>8, <2>9, <2>10, <2>14, <3>1, <3>2, <4>1
    <3>3. CASE x # p
      <4>1. {y \in DOMAIN m.flight : m.flight[y] = x} = {y \in DOMAIN r.flight : r.flight[y] = x}
        BY <2>12, <3>3
      <4> QED
        BY <2>8, <3>1, <3>3, <4>1
    <3> QED
      BY <3>2, <3>3
  <2>16. m.partial \subseteq DOMAIN m.flight
    BY <2>2, <2>4, <2>12 DEF DlOk
  <2>17. m.stalling \subseteq Downloading(m.queue)
    BY <2>2, <2>4, <2>6, <2>8 DEF DlOk, Downloading
  <2>18. DlOk(m, conn)
    BY <2>11, <2>13, <2>15, <2>16, <2>17 DEF DlOk
  <2> QED
    BY <2>8, <2>12, <2>14, <2>18 DEF m
<1> QED
  BY <1>1, <1>2

\* What is left when a peer goes is exact for the peers that remain.
LEMMA ReleasedOk ==
  ASSUME DlOk(dl, connected), NEW p \in Peer
  PROVE  DlOk(Released(p), connected \ {p})
<1> DEFINE r == Released(p)
           F == {b \in DOMAIN dl.flight : dl.flight[b] # p}
<1>1. DlType(dl)
  BY DEF DlOk
<1>2. r = [dl EXCEPT !.flight = [b \in F |-> dl.flight[b]],
                     !.queue[p] = <<>>,
                     !.partial = {b \in @ : dl.flight[b] # p},
                     !.stalling = @ \ {p},
                     !.nPeers = IF dl.queue[p] # <<>> THEN @ - 1 ELSE @]
  BY DEF Released, Restrict
<1> HIDE DEF r
<1>3. /\ DOMAIN r = DOMAIN dl
      /\ r.flight = [b \in F |-> dl.flight[b]]
      /\ r.queue = [dl.queue EXCEPT ![p] = <<>>]
      /\ r.partial = {b \in dl.partial : dl.flight[b] # p}
      /\ r.stalling = dl.stalling \ {p}
      /\ r.nPeers = IF dl.queue[p] # <<>> THEN dl.nPeers - 1 ELSE dl.nPeers
  BY <1>1, <1>2 DEF DlType
<1>4. dl.queue \in [Peer -> Seq(Block)] /\ <<>> \in Seq(Block) /\ Len(<<>>) = 0 /\ 0 <= MaxTransit
  <2>1. <<>> \in Seq(Block) /\ Len(<<>>) = 0 /\ 0 <= MaxTransit
    BY SMT, PeerAssumption
  <2> QED
    BY <1>1, <2>1 DEF DlType
<1>5. r.queue[p] = <<>> /\ \A q \in Peer \ {p} : r.queue[q] = dl.queue[q]
  BY <1>3, <1>4
<1>6. DOMAIN r.flight = F /\ \A b \in F : r.flight[b] = dl.flight[b]
  BY <1>3
<1>7. r.nPeers = Cardinality(Downloading(r.queue)) /\ r.nPeers \in Nat
  <2>1. dl.nPeers = Cardinality(Downloading(dl.queue)) /\ dl.nPeers \in Nat
    BY <1>1 DEF DlOk, DlType
  <2>2. CASE dl.queue[p] # <<>>
    <3>1. /\ Cardinality(Downloading(r.queue)) = Cardinality(Downloading(dl.queue)) - 1
          /\ Cardinality(Downloading(dl.queue)) - 1 \in Nat
      BY <1>3, <1>4, <2>2, DownloadingLess
    <3>2. r.nPeers = dl.nPeers - 1
      BY <1>3, <2>2
    <3> QED
      BY <2>1, <3>1, <3>2
  <2>3. CASE dl.queue[p] = <<>>
    <3>1. r.queue = dl.queue /\ r.nPeers = dl.nPeers
      BY <1>3, <1>4, <1>5, <2>3
    <3> QED
      BY <2>1, <3>1
  <2> QED
    BY <2>2, <2>3
<1>8. DlType(r)
  <2>1. r.queue \in [Peer -> Seq(Block)]
    BY <1>3, <1>4
  <2> QED
    BY <1>1, <1>3, <1>6, <1>7, <2>1 DEF DlType
<1>9. ASSUME NEW q \in Peer
      PROVE  /\ Distinct(r.queue[q])
             /\ Range(r.queue[q]) = {b \in DOMAIN r.flight : r.flight[b] = q}
             /\ Len(r.queue[q]) <= MaxTransit
             /\ r.queue[q] # <<>> => q \in connected \ {p}
  <2>1. CASE q = p
    <3>1. Range(<<>>) = {} /\ Distinct(<<>>)
      BY SMT DEF Range, Distinct
    <3>2. {b \in DOMAIN r.flight : r.flight[b] = q} = {}
      BY <1>6, <2>1
    <3>3. r.queue[q] = <<>>
      BY <1>5, <2>1
    <3> QED
      BY <1>4, <3>1, <3>2, <3>3
  <2>2. CASE q # p
    <3>1. {b \in DOMAIN r.flight : r.flight[b] = q} = {b \in DOMAIN dl.flight : dl.flight[b] = q}
      BY <1>6, <2>2
    <3> QED
      BY <1>5, <2>2, <3>1 DEF DlOk
  <2> QED
    BY <2>1, <2>2
<1>10. r.partial \subseteq DOMAIN r.flight
  BY <1>3, <1>6 DEF DlOk
<1>11. r.stalling \subseteq Downloading(r.queue)
  BY <1>3, <1>5 DEF DlOk, Downloading
<1> QED
  BY <1>7, <1>8, <1>9, <1>10, <1>11 DEF DlOk, r

-----------------------------------------------------------------------------
(* What a stalling peer owes. *)

\* Between the downloads d and e no peer begins to stall, and one that still stalls has
\* every block in flight that it had.
Carries(d, e) ==
    \A q \in e.stalling :
      /\ q \in d.stalling
      /\ \A b \in DOMAIN d.flight : d.flight[b] = q => b \in DOMAIN e.flight /\ e.flight[b] = q

LEMMA CarriesSelf == ASSUME NEW d PROVE Carries(d, d)
  BY DEF Carries

LEMMA CarriesTrans ==
  ASSUME NEW d, NEW e, NEW f, Carries(d, e), Carries(e, f)
  PROVE  Carries(d, f)
  BY DEF Carries

\* MarkBlockAsReceived ends the stalling of the peer that loses a block.
LEMMA ReceivedCarries ==
  ASSUME NEW d, DlType(d), NEW b
  PROVE  Carries(d, MarkBlockAsReceived(d, b))
<1>1. CASE b \notin DOMAIN d.flight
  BY <1>1 DEF MarkBlockAsReceived, Carries
<1>2. CASE b \in DOMAIN d.flight
  <2> DEFINE r == MarkBlockAsReceived(d, b)
             p == d.flight[b]
             rest == Erase(d.queue[p], b)
  <2>0. /\ DOMAIN r = DOMAIN d
        /\ r.flight = [x \in DOMAIN d.flight \ {b} |-> d.flight[x]]
        /\ r.queue = [d.queue EXCEPT ![p] = rest]
        /\ r.partial = d.partial \ {b}
        /\ r.stalling = d.stalling \ {p}
        /\ r.nPeers = IF rest = <<>> THEN d.nPeers - 1 ELSE d.nPeers
    BY <1>2, ReceivedFields
  <2>1. /\ r.flight = [x \in DOMAIN d.flight \ {b} |-> d.flight[x]]
        /\ r.stalling = d.stalling \ {d.flight[b]}
    BY <2>0
  <2> HIDE DEF r
  <2>2. DOMAIN r.flight = DOMAIN d.flight \ {b} /\ \A x \in DOMAIN d.flight \ {b} : r.flight[x] = d.flight[x]
    BY <2>1
  <2>3. Carries(d, r)
    BY <2>1, <2>2 DEF Carries
  <2> QED
    BY <2>3 DEF r
<1> QED
  BY <1>1, <1>2

\* MarkBlockAsInFlight only adds to what is in flight once the block is received.
LEMMA InFlightCarries ==
  ASSUME NEW d, NEW conn, DlOk(d, conn), NEW p, NEW b \in Block, NEW partial
  PROVE  Carries(d, MarkBlockAsInFlight(d, p, b, partial))
<1>1. CASE b \in DOMAIN d.flight /\ d.flight[b] = p
  BY <1>1 DEF MarkBlockAsInFlight, Carries
<1>2. CASE ~(b \in DOMAIN d.flight /\ d.flight[b] = p)
  <2> DEFINE r == MarkBlockAsReceived(d, b)
             m == MarkBlockAsInFlight(d, p, b, partial)
  <2>1. m = [r EXCEPT !.flight = [x \in DOMAIN @ \cup {b} |-> IF x = b THEN p ELSE @[x]],
                      !.queue[p] = Append(@, b),
                      !.partial = IF partial THEN @ \cup {b} ELSE @,
                      !.nPeers = IF r.queue[p] = <<>> THEN @ + 1 ELSE @]
    BY <1>2 DEF MarkBlockAsInFlight
  <2>2. DlOk(r, conn) /\ b \notin DOMAIN r.flight
    BY ReceivedOk
  <2>3. Carries(d, r)
    BY ReceivedCarries DEF DlOk
  <2> HIDE DEF r, m
  <2>4. /\ m.flight = [x \in DOMAIN r.flight \cup {b} |-> IF x = b THEN p ELSE r.flight[x]]
        /\ m.stalling = r.stalling
    BY <2>1, <2>2 DEF DlOk, DlType
  <2>5. \A x \in DOMAIN r.flight : x \in DOMAIN m.flight /\ m.flight[x] = r.flight[x]
    BY <2>2, <2>4
  <2>6. Carries(r, m)
    BY <2>4, <2>5 DEF Carries
  <2>7. Carries(d, m)
    BY <2>3, <2>6, CarriesTrans
  <2> QED
    BY <2>7 DEF m
<1> QED
  BY <1>1, <1>2

\* A peer that goes takes only its own blocks along.
LEMMA ReleasedCarries ==
  ASSUME DlType(dl), NEW p \in Peer
  PROVE  Carries(dl, Released(p))
<1> DEFINE r == Released(p)
           F == {b \in DOMAIN dl.flight : dl.flight[b] # p}
<1>1. r = [dl EXCEPT !.flight = [b \in F |-> dl.flight[b]],
                     !.queue[p] = <<>>,
                     !.partial = {b \in @ : dl.flight[b] # p},
                     !.stalling = @ \ {p},
                     !.nPeers = IF dl.queue[p] # <<>> THEN @ - 1 ELSE @]
  BY DEF Released, Restrict
<1> HIDE DEF r
<1>2. r.flight = [b \in F |-> dl.flight[b]] /\ r.stalling = dl.stalling \ {p}
  BY <1>1 DEF DlType
<1>3. DOMAIN r.flight = F /\ \A b \in F : r.flight[b] = dl.flight[b]
  BY <1>2
<1>4. Carries(dl, r)
  BY <1>2, <1>3 DEF Carries
<1> QED
  BY <1>4 DEF r

-----------------------------------------------------------------------------
(* Asking for several blocks. *)

LEMMA NumberInduction ==
  ASSUME NEW S, 0 \in S, \A n \in Nat : n \in S => n + 1 \in S
  PROVE  \A n \in Nat : n \in S
<1> SUFFICES ASSUME Nat \ S # {} PROVE FALSE
  OBVIOUS
<1>1. PICK n \in Nat \ S : \A m \in Nat \ S : n <= m
  BY LeastNumber
<1>2. n # 0
  BY <1>1
<1>3. n - 1 \in Nat /\ ~(n <= n - 1) /\ (n - 1) + 1 = n
  BY SMT, <1>2
<1> QED
  BY <1>1, <1>3

\* The loop of RequestAll as a function of the number of blocks asked for.
LEMMA RequestAllLoop ==
  ASSUME NEW p, NEW blocks, Len(blocks) \in Nat
  PROVE  \E w : /\ w = [n \in 0 .. Len(blocks) |->
                          IF n = 0 THEN dl ELSE MarkBlockAsInFlight(w[n - 1], p, blocks[n], FALSE)]
                /\ RequestAll(p, blocks) = w[Len(blocks)]
<1> DEFINE Sol(k, w) == w = [n \in 0 .. k |->
                          IF n = 0 THEN dl ELSE MarkBlockAsInFlight(w[n - 1], p, blocks[n], FALSE)]
           S == {k \in Nat : \E w : Sol(k, w)}
<1>1. 0 \in S
  <2> DEFINE w == [n \in 0 .. 0 |-> dl]
  <2>1. \A n \in 0 .. 0 : n = 0
    BY SMT
  <2>2. Sol(0, w)
    BY <2>1
  <2> QED
    BY <2>2
<1>2. ASSUME NEW k \in Nat, k \in S PROVE k + 1 \in S
  <2>1. PICK w : Sol(k, w)
    BY <1>2
  <2> DEFINE g == [n \in 0 .. k + 1 |->
                     IF n = k + 1 THEN MarkBlockAsInFlight(w[k], p, blocks[k + 1], FALSE) ELSE w[n]]
  <2>2. ASSUME NEW n \in 0 .. k + 1
        PROVE  g[n] = IF n = 0 THEN dl ELSE MarkBlockAsInFlight(g[n - 1], p, blocks[n], FALSE)
    <3>1. CASE n = k + 1
      <4>1. n # 0 /\ n - 1 = k /\ k \in 0 .. k + 1 /\ k # k + 1
        BY SMT, <3>1
      <4> QED
        BY <3>1, <4>1
    <3>2. CASE n # k + 1
      <4>1. n \in 0 .. k /\ (n # 0 => n - 1 \in 0 .. k + 1 /\ n - 1 # k + 1)
        BY SMT, <3>2
      <4>2. w[n] = IF n = 0 THEN dl ELSE MarkBlockAsInFlight(w[n - 1], p, blocks[n], FALSE)
        BY <2>1, <4>1
      <4>3. g[n] = w[n] /\ (n # 0 => g[n - 1] = w[n - 1])
        BY <3>2, <4>1
      <4> QED
        BY <4>2, <4>3
    <3> QED
      BY <3>1, <3>2
  <2>3. Sol(k + 1, g)
    <3> DEFINE h == [n \in 0 .. k + 1 |->
                       IF n = 0 THEN dl ELSE MarkBlockAsInFlight(g[n - 1], p, blocks[n], FALSE)]
    <3>1. \A n \in 0 .. k + 1 : g[n] = h[n]
      BY <2>2
    <3> QED
      BY <3>1
  <2>4. k + 1 \in Nat
    BY SMT
  <2> QED
    BY <2>3, <2>4
<1>3. Len(blocks) \in S
  <2> HIDE DEF S
  <2> QED
    BY <1>1, <1>2, NumberInduction
<1> DEFINE asked == CHOOSE w : Sol(Len(blocks), w)
<1>4. Sol(Len(blocks), asked)
  BY <1>3
<1>5. RequestAll(p, blocks) = asked[Len(blocks)]
  BY DEF RequestAll
<1> QED
  BY <1>4, <1>5

\* SendMessages asks for no more blocks than the peer may have in flight.
LEMMA RequestAllOk ==
  ASSUME DlOk(dl, connected), NEW p \in Peer \cap connected, NEW blocks \in Seq(Block),
         Len(dl.queue[p]) + Len(blocks) <= MaxTransit
  PROVE  /\ DlOk(RequestAll(p, blocks), connected)
         /\ Carries(dl, RequestAll(p, blocks))
         /\ blocks = <<>> => RequestAll(p, blocks) = dl
<1>1. Len(blocks) \in Nat /\ Len(dl.queue[p]) \in Nat /\ MaxTransit \in Nat
  BY PeerAssumption, SeqLen DEF DlOk, DlType
<1>2. PICK w : /\ w = [n \in 0 .. Len(blocks) |->
                         IF n = 0 THEN dl ELSE MarkBlockAsInFlight(w[n - 1], p, blocks[n], FALSE)]
               /\ RequestAll(p, blocks) = w[Len(blocks)]
  BY <1>1, RequestAllLoop
<1>3. /\ 0 \in 0 .. Len(blocks) /\ Len(blocks) \in 0 .. Len(blocks)
      /\ \A n \in Nat : n + 1 \in 0 .. Len(blocks) =>
           n \in 0 .. Len(blocks) /\ (n + 1) - 1 = n /\ n + 1 # 0 /\ n + 1 \in 1 .. Len(blocks)
  BY SMT, <1>1
<1>4. w[0] = dl /\ \A n \in Nat : n + 1 \in 0 .. Len(blocks) =>
                     w[n + 1] = MarkBlockAsInFlight(w[n], p, blocks[n + 1], FALSE)
  BY <1>2, <1>3
<1> DEFINE S == {n \in Nat : n \in 0 .. Len(blocks) =>
                   /\ DlOk(w[n], connected) /\ Carries(dl, w[n])
                   /\ Len(w[n].queue[p]) \in Nat
                   /\ Len(w[n].queue[p]) <= Len(dl.queue[p]) + n}
<1>5. 0 \in S
  <2>1. Len(dl.queue[p]) <= Len(dl.queue[p]) + 0 /\ 0 \in Nat
    BY SMT, <1>1
  <2> QED
    BY <1>1, <1>4, <2>1, CarriesSelf
<1>6. ASSUME NEW n \in Nat, n \in S PROVE n + 1 \in S
  <2>1. n + 1 \in Nat
    BY SMT
  <2>2. ASSUME n + 1 \in 0 .. Len(blocks)
        PROVE  /\ DlOk(w[n + 1], connected) /\ Carries(dl, w[n + 1])
               /\ Len(w[n + 1].queue[p]) \in Nat
               /\ Len(w[n + 1].queue[p]) <= Len(dl.queue[p]) + (n + 1)
    <3> DEFINE d == w[n]
               m == MarkBlockAsInFlight(d, p, blocks[n + 1], FALSE)
    <3>1. w[n + 1] = m /\ blocks[n + 1] \in Block
      BY <1>3, <1>4, <2>2, SeqEntry
    <3>2. /\ DlOk(d, connected) /\ Carries(dl, d)
          /\ Len(d.queue[p]) \in Nat /\ Len(d.queue[p]) <= Len(dl.queue[p]) + n
      BY <1>3, <1>6, <2>2
    <3> HIDE DEF d
    <3>3. Len(d.queue[p]) < MaxTransit
      BY SMT, <1>1, <2>2, <3>2
    <3>4. DlOk(m, connected) /\ Len(m.queue[p]) <= Len(d.queue[p]) + 1
      BY <3>1, <3>2, <3>3, InFlightOk
    <3>7. Carries(dl, m)
      BY <3>1, <3>2, InFlightCarries, CarriesTrans
    <3> HIDE DEF m
    <3>5. Len(m.queue[p]) \in Nat
      BY <3>4, SeqLen DEF DlOk, DlType
    <3>6. Len(m.queue[p]) <= Len(dl.queue[p]) + (n + 1)
      <4>1. \A x, y, z \in Nat : x <= y + 1 /\ y <= z + n => x <= z + (n + 1)
        BY SMT
      <4> QED
        BY <1>1, <3>2, <3>4, <3>5, <4>1
    <3> QED
      BY <3>1, <3>4, <3>5, <3>6, <3>7
  <2> QED
    BY <2>1, <2>2
<1>7. Len(blocks) \in S
  <2> HIDE DEF S
  <2> QED
    BY <1>1, <1>5, <1>6, NumberInduction
<1>8. blocks = <<>> => Len(blocks) = 0
  BY SeqLen
<1> QED
  BY <1>2, <1>3, <1>4, <1>7, <1>8

\* The loop of DirectFetch as a function of the number of blocks looked at.
LEMMA DirectFetchLoop ==
  ASSUME NEW p \in Peer, NEW path \in Seq(Block), NEW missing \in SUBSET Range(path), Len(path) \in Nat
  PROVE  \E w : w = [n \in 0 .. Len(path) |->
               IF n = 0 THEN dl
               ELSE LET d == w[n - 1]
                    IN  IF path[n] \notin missing \/ Len(d.queue[p]) >= MaxTransit THEN d
                        ELSE MarkBlockAsInFlight(d, p, path[n], FALSE)]
<1> DEFINE Step(d, n) == IF path[n] \notin missing \/ Len(d.queue[p]) >= MaxTransit THEN d
                         ELSE MarkBlockAsInFlight(d, p, path[n], FALSE)
           Sol(k, w) == w = [n \in 0 .. k |-> IF n = 0 THEN dl ELSE Step(w[n - 1], n)]
           S == {k \in Nat : \E w : Sol(k, w)}

<1> HIDE DEF Step
<1>1. 0 \in S
  <2> DEFINE w == [n \in 0 .. 0 |-> dl]
  <2>1. \A n \in 0 .. 0 : n = 0
    BY SMT
  <2>2. Sol(0, w)
    BY <2>1
  <2> QED
    BY <2>2
<1>2. ASSUME NEW k \in Nat, k \in S PROVE k + 1 \in S
  <2>1. PICK w : Sol(k, w)
    BY <1>2
  <2> DEFINE g == [n \in 0 .. k + 1 |-> IF n = k + 1 THEN Step(w[k], k + 1) ELSE w[n]]
  <2>2. ASSUME NEW n \in 0 .. k + 1
        PROVE  g[n] = IF n = 0 THEN dl ELSE Step(g[n - 1], n)
    <3>1. CASE n = k + 1
      <4>1. n # 0 /\ n - 1 = k /\ k \in 0 .. k + 1 /\ k # k + 1
        BY SMT, <3>1
      <4> QED
        BY <3>1, <4>1
    <3>2. CASE n # k + 1
      <4>1. n \in 0 .. k /\ (n # 0 => n - 1 \in 0 .. k + 1 /\ n - 1 # k + 1)
        BY SMT, <3>2
      <4>2. w[n] = IF n = 0 THEN dl ELSE Step(w[n - 1], n)
        BY <2>1, <4>1
      <4>3. g[n] = w[n] /\ (n # 0 => g[n - 1] = w[n - 1])
        BY <3>2, <4>1
      <4> QED
        BY <4>2, <4>3
    <3> QED
      BY <3>1, <3>2
  <2>3. Sol(k + 1, g)
    <3> DEFINE h == [n \in 0 .. k + 1 |-> IF n = 0 THEN dl ELSE Step(g[n - 1], n)]
    <3>1. \A n \in 0 .. k + 1 : g[n] = h[n]
      BY <2>2
    <3> QED
      BY <3>1
  <2>4. k + 1 \in Nat
    BY SMT
  <2> QED
    BY <2>3, <2>4
<1>3. Len(path) \in S
  <2> HIDE DEF S
  <2> QED
    BY <1>1, <1>2, NumberInduction
<1>4. \E w : Sol(Len(path), w)
  BY <1>3
<1> QED
  BY <1>4 DEF Step

\* The path that DirectFetch looks at consists of blocks.
LEMMA DirectFetchPath ==
  ASSUME NEW b \in Block, tip \in Block
  PROVE  /\ Path(b, Height[LastCommonAncestor[b][tip]], Height[b]) \in Seq(Block)
<1>1. LastCommonAncestor[b][tip] \in Block
  BY LastCommonAncestorType, AncType
<1>2. Height[LastCommonAncestor[b][tip]] \in Nat /\ Height[b] \in Nat
  BY <1>1, HeightType
<1>3. Height[b] <= Height[b]
  BY SMT, <1>2
<1> QED
  BY <1>2, <1>3, PathType

\* Headers that connect make the peer owe blocks, but not more than it may.
LEMMA DirectFetchOk ==
  ASSUME DlOk(dl, connected), NEW p \in Peer \cap connected, NEW b \in Block, tip \in Block
  PROVE  DlOk(DirectFetch(p, b), connected) /\ Carries(dl, DirectFetch(p, b))
<1> DEFINE path == Path(b, Height[LastCommonAncestor[b][tip]], Height[b])
           missing == Range(path) \ (have \cup DOMAIN dl.flight)
           asked[n \in 0 .. Len(path)] ==
             IF n = 0 THEN dl
             ELSE LET d == asked[n - 1]
                  IN  IF path[n] \notin missing \/ Len(d.queue[p]) >= MaxTransit THEN d
                      ELSE MarkBlockAsInFlight(d, p, path[n], FALSE)
<1>1. DirectFetch(p, b) \in {asked[Len(path)], dl}
  BY DEF DirectFetch
<1>2. path \in Seq(Block) /\ Len(path) \in Nat /\ missing \in SUBSET Range(path)
  BY DirectFetchPath, SeqLen
<1> HIDE DEF path, missing
<1>3. asked = [n \in 0 .. Len(path) |->
               IF n = 0 THEN dl
               ELSE LET d == asked[n - 1]
                    IN  IF path[n] \notin missing \/ Len(d.queue[p]) >= MaxTransit THEN d
                        ELSE MarkBlockAsInFlight(d, p, path[n], FALSE)]
  <2>1. \E w : w = [n \in 0 .. Len(path) |->
               IF n = 0 THEN dl
               ELSE LET d == w[n - 1]
                    IN  IF path[n] \notin missing \/ Len(d.queue[p]) >= MaxTransit THEN d
                        ELSE MarkBlockAsInFlight(d, p, path[n], FALSE)]
    BY <1>2, DirectFetchLoop
  <2> QED
    BY <2>1
<1> HIDE DEF asked
<1>4. /\ 0 \in 0 .. Len(path) /\ Len(path) \in 0 .. Len(path)
      /\ \A n \in Nat : n + 1 \in 0 .. Len(path) =>
           n \in 0 .. Len(path) /\ (n + 1) - 1 = n /\ n + 1 # 0 /\ n + 1 \in 1 .. Len(path)
  BY SMT, <1>2
<1>5. asked[0] = dl
  BY <1>3, <1>4
<1>6. \A n \in Nat : n + 1 \in 0 .. Len(path) =>
        asked[n + 1] = IF path[n + 1] \notin missing \/ Len(asked[n].queue[p]) >= MaxTransit THEN asked[n]
                       ELSE MarkBlockAsInFlight(asked[n], p, path[n + 1], FALSE)
  BY <1>3, <1>4
<1> DEFINE S == {n \in Nat : n \in 0 .. Len(path) => DlOk(asked[n], connected) /\ Carries(dl, asked[n])}
<1>7. 0 \in S
  BY <1>5, CarriesSelf
<1>8. ASSUME NEW n \in Nat, n \in S PROVE n + 1 \in S
  <2>1. n + 1 \in Nat
    BY SMT
  <2>2. ASSUME n + 1 \in 0 .. Len(path)
        PROVE  DlOk(asked[n + 1], connected) /\ Carries(dl, asked[n + 1])
    <3>1. DlOk(asked[n], connected) /\ Carries(dl, asked[n]) /\ path[n + 1] \in Block
      BY <1>2, <1>4, <1>8, <2>2, SeqEntry
    <3>2. Len(asked[n].queue[p]) \in Nat /\ MaxTransit \in Nat
      BY <3>1, PeerAssumption, SeqLen DEF DlOk, DlType
    <3>3. CASE path[n + 1] \notin missing \/ Len(asked[n].queue[p]) >= MaxTransit
      BY <1>6, <2>2, <3>1, <3>3
    <3>4. CASE ~(path[n + 1] \notin missing \/ Len(asked[n].queue[p]) >= MaxTransit)
      <4>1. Len(asked[n].queue[p]) < MaxTransit
        BY SMT, <3>2, <3>4
      <4>2. DlOk(MarkBlockAsInFlight(asked[n], p, path[n + 1], FALSE), connected)
        BY <3>1, <4>1, InFlightOk
      <4>3. Carries(dl, MarkBlockAsInFlight(asked[n], p, path[n + 1], FALSE))
        BY <3>1, InFlightCarries, CarriesTrans
      <4> QED
        BY <1>6, <2>2, <3>4, <4>2, <4>3
    <3> QED
      BY <3>3, <3>4
  <2> QED
    BY <2>1, <2>2
<1>9. Len(path) \in S
  <2> HIDE DEF S
  <2> QED
    BY <1>2, <1>7, <1>8, NumberInduction
<1> QED
  BY <1>1, <1>4, <1>9, CarriesSelf

-----------------------------------------------------------------------------
(* FindNextBlocksToDownload. *)

\* A block that is missing is in flight from the peer q.
Awaited(q) ==
    /\ q \in Downloading(dl.queue)
    /\ \E b \in DOMAIN dl.flight : dl.flight[b] = q /\ b \notin have

\* What the walk towards the peer's best block has found: no more blocks than asked for,
\* and somebody to wait for only if that peer owes a missing block.
WalkOk(s, count) ==
    /\ DOMAIN s = {"blocks", "waitingfor", "staller", "common", "done"}
    /\ s.blocks \in Seq(Block)
    /\ Len(s.blocks) <= count
    /\ Len(s.blocks) = count => s.done
    /\ s.waitingfor # NULL => Awaited(s.waitingfor)
    /\ s.staller # NULL => Awaited(s.staller) /\ s.blocks = <<>> /\ s.done
    /\ s.common \in Block

LEMMA WalkStep ==
  ASSUME DlOk(dl, connected), NEW p, NEW count \in Nat, NEW windowEnd, NEW s, WalkOk(s, count), NEW b \in Block
  PROVE  WalkOk(Walk(p, count, windowEnd, s, b), count)
<1> DEFINE w == Walk(p, count, windowEnd, s, b)
<1>0. Len(s.blocks) \in Nat
  BY SeqLen DEF WalkOk
<1>1. CASE s.done
  BY <1>1 DEF Walk
<1>2. CASE ~s.done /\ b \in failed
  <2>1. w = [s EXCEPT !.done = TRUE]
    BY <1>2 DEF Walk
  <2> HIDE DEF w
  <2> QED
    BY <2>1 DEF WalkOk, w
<1>3. CASE ~s.done /\ b \notin failed /\ b \in have \cup Anc[tip]
  <2>1. CASE Anc[b] \subseteq have
    <3>1. w = [s EXCEPT !.common = b]
      BY <1>3, <2>1 DEF Walk
    <3> HIDE DEF w
    <3> QED
      BY <3>1 DEF WalkOk, w
  <2>2. CASE ~(Anc[b] \subseteq have)
    BY <1>3, <2>2 DEF Walk
  <2> QED
    BY <2>1, <2>2
<1>4. CASE ~s.done /\ b \notin failed /\ b \notin have \cup Anc[tip] /\ b \in DOMAIN dl.flight
  <2>1. Awaited(dl.flight[b])
    <3>1. dl.flight[b] \in Peer /\ b \in Range(dl.queue[dl.flight[b]])
      BY <1>4 DEF DlOk, DlType
    <3>2. \A q : q = <<>> => Range(q) = {}
      BY SMT DEF Range
    <3> QED
      BY <1>4, <3>1, <3>2 DEF Downloading, Awaited
  <2>2. CASE s.waitingfor = NULL
    <3>1. w = [s EXCEPT !.waitingfor = dl.flight[b]]
      BY <1>4, <2>2 DEF Walk
    <3> HIDE DEF w
    <3> QED
      BY <2>1, <3>1 DEF WalkOk, w
  <2>3. CASE s.waitingfor # NULL
    BY <1>4, <2>3 DEF Walk
  <2> QED
    BY <2>2, <2>3
<1>5. CASE ~s.done /\ b \notin failed /\ b \notin have \cup Anc[tip] /\ b \notin DOMAIN dl.flight
           /\ Height[b] > windowEnd
  <2> DEFINE st == IF s.blocks = <<>> /\ s.waitingfor # p THEN s.waitingfor ELSE s.staller
  <2>1. w = [s EXCEPT !.done = TRUE, !.staller = st]
    BY <1>5 DEF Walk
  <2>2. st # NULL => Awaited(st) /\ s.blocks = <<>>
    BY DEF WalkOk
  <2> HIDE DEF w, st
  <2> QED
    BY <2>1, <2>2 DEF WalkOk, w
<1>6. CASE ~s.done /\ b \notin failed /\ b \notin have \cup Anc[tip] /\ b \notin DOMAIN dl.flight
           /\ ~(Height[b] > windowEnd)
  <2> DEFINE blocks == Append(s.blocks, b)
             done == (Len(s.blocks) + 1 = count)
  <2>1. w = [s EXCEPT !.blocks = blocks, !.done = done]
    BY <1>6 DEF Walk
  <2>2. blocks \in Seq(Block) /\ Len(blocks) = Len(s.blocks) + 1
    <3>1. s.blocks \in Seq(Block)
      BY DEF WalkOk
    <3> QED
      BY <3>1, SeqAppend
  <2>3. Len(blocks) <= count
    <3>1. Len(s.blocks) <= count /\ Len(s.blocks) # count
      BY <1>6 DEF WalkOk
    <3>2. \A x \in Nat : x <= count /\ x # count => x + 1 <= count
      BY SMT
    <3> QED
      BY <1>0, <2>2, <3>1, <3>2
  <2>4. s.staller = NULL
    BY <1>6 DEF WalkOk
  <2>5. Len(blocks) = count => done
    BY <2>2
  <2> HIDE DEF w, blocks, done
  <2> QED
    BY <2>1, <2>2, <2>3, <2>4, <2>5 DEF WalkOk, w
<1> QED
  BY <1>1, <1>2, <1>3, <1>4, <1>5, <1>6

LEMMA LowerType ==
  ASSUME NEW m \in Nat, NEW n \in Nat
  PROVE  Lower(m, n) \in Nat /\ Lower(m, n) <= m /\ Lower(m, n) <= n
  BY SMT DEF Lower

LEMMA FindNextOk ==
  ASSUME DlOk(dl, connected), tip \in Block,
         NEW p \in Peer, NEW from \in Block \cup {NULL}, NEW known \in Block, NEW count \in Nat \ {0}
  PROVE  WalkOk(FindNextBlocksToDownload(p, from, known, count), count)
<1> DEFINE base == IF from = NULL THEN AncestorAt(tip, Lower(Height[known], Height[tip])) ELSE from
           start == LastCommonAncestor[base][known]
           windowEnd == Height[start] + Window
           none == [blocks |-> <<>>, waitingfor |-> NULL, staller |-> NULL, common |-> start, done |-> FALSE]
           path == Path(known, Height[start], Lower(Height[known], windowEnd + 1))
           walked[n \in 0 .. Len(path)] ==
             IF n = 0 THEN none ELSE Walk(p, count, windowEnd, walked[n - 1], path[n])
<1>1. FindNextBlocksToDownload(p, from, known, count) = walked[Len(path)]
  BY DEF FindNextBlocksToDownload
<1>2. Height[known] \in Nat /\ Height[tip] \in Nat
  BY HeightType
<1>3. base \in Block
  <2>1. CASE from = NULL
    <3>1. Lower(Height[known], Height[tip]) \in Nat /\ Lower(Height[known], Height[tip]) <= Height[tip]
      BY <1>2, LowerType
    <3>2. Lower(Height[known], Height[tip]) \in 0 .. Height[tip]
      BY SMT, <1>2, <3>1
    <3> QED
      BY <2>1, <3>2, AncestorAtType
  <2>2. CASE from # NULL
    BY <2>2
  <2> QED
    BY <2>1, <2>2
<1> HIDE DEF base
<1>4. start \in Block
  BY <1>3, LastCommonAncestorType, AncType
<1> HIDE DEF start
<1>5. Height[start] \in Nat
  BY <1>4, HeightType
<1>6. windowEnd \in Nat /\ windowEnd + 1 \in Nat
  BY SMT, <1>5, PeerAssumption
<1> HIDE DEF windowEnd
<1>7. path \in Seq(Block) /\ Len(path) \in Nat
  BY <1>2, <1>5, <1>6, LowerType, PathType, SeqLen
<1> HIDE DEF path
<1>8. WalkOk(none, count)
  <2>1. <<>> \in Seq(Block) /\ Len(<<>>) = 0 /\ 0 <= count /\ 0 # count
    BY SMT
  <2> QED
    BY <1>4, <2>1 DEF WalkOk
<1> HIDE DEF none
<1>9. walked = [n \in 0 .. Len(path) |->
                  IF n = 0 THEN none ELSE Walk(p, count, windowEnd, walked[n - 1], path[n])]
  <2>1. \E w : w = [n \in 0 .. Len(path) |->
                      IF n = 0 THEN none ELSE Walk(p, count, windowEnd, w[n - 1], path[n])]
    <3> DEFINE Step(s, n) == Walk(p, count, windowEnd, s, path[n])
               Sol(k, w) == w = [n \in 0 .. k |-> IF n = 0 THEN none ELSE Step(w[n - 1], n)]
               S == {k \in Nat : \E w : Sol(k, w)}
    <3> HIDE DEF Step
    <3>1. 0 \in S
      <4> DEFINE w == [n \in 0 .. 0 |-> none]
      <4>1. \A n \in 0 .. 0 : n = 0
        BY SMT
      <4>2. Sol(0, w)
        BY <4>1
      <4> QED
        BY <4>2
    <3>2. ASSUME NEW k \in Nat, k \in S PROVE k + 1 \in S
      <4>1. PICK w : Sol(k, w)
        BY <3>2
      <4> DEFINE g == [n \in 0 .. k + 1 |-> IF n = k + 1 THEN Step(w[k], k + 1) ELSE w[n]]
      <4>2. ASSUME NEW n \in 0 .. k + 1
            PROVE  g[n] = IF n = 0 THEN none ELSE Step(g[n - 1], n)
        <5>1. CASE n = k + 1
          <6>1. n # 0 /\ n - 1 = k /\ k \in 0 .. k + 1 /\ k # k + 1
            BY SMT, <5>1
          <6> QED
            BY <5>1, <6>1
        <5>2. CASE n # k + 1
          <6>1. n \in 0 .. k /\ (n # 0 => n - 1 \in 0 .. k + 1 /\ n - 1 # k + 1)
            BY SMT, <5>2
          <6>2. w[n] = IF n = 0 THEN none ELSE Step(w[n - 1], n)
            BY <4>1, <6>1
          <6>3. g[n] = w[n] /\ (n # 0 => g[n - 1] = w[n - 1])
            BY <5>2, <6>1
          <6> QED
            BY <6>2, <6>3
        <5> QED
          BY <5>1, <5>2
      <4>3. Sol(k + 1, g)
        <5> DEFINE h == [n \in 0 .. k + 1 |-> IF n = 0 THEN none ELSE Step(g[n - 1], n)]
        <5>1. \A n \in 0 .. k + 1 : g[n] = h[n]
          BY <4>2
        <5> QED
          BY <5>1
      <4>4. k + 1 \in Nat
        BY SMT
      <4> QED
        BY <4>3, <4>4
    <3>3. Len(path) \in S
      <4> HIDE DEF S
      <4> QED
        BY <1>7, <3>1, <3>2, NumberInduction
    <3>4. \E w : Sol(Len(path), w)
      BY <3>3
    <3> QED
      BY <3>4 DEF Step
  <2> QED
    BY <2>1
<1> HIDE DEF walked
<1>10. /\ 0 \in 0 .. Len(path) /\ Len(path) \in 0 .. Len(path)
       /\ \A n \in Nat : n + 1 \in 0 .. Len(path) =>
            n \in 0 .. Len(path) /\ (n + 1) - 1 = n /\ n + 1 # 0 /\ n + 1 \in 1 .. Len(path)
  BY SMT, <1>7
<1>11. walked[0] = none /\ \A n \in Nat : n + 1 \in 0 .. Len(path) =>
                             walked[n + 1] = Walk(p, count, windowEnd, walked[n], path[n + 1])
  BY <1>9, <1>10
<1> DEFINE S == {n \in Nat : n \in 0 .. Len(path) => WalkOk(walked[n], count)}
<1>12. 0 \in S
  BY <1>8, <1>11
<1>13. ASSUME NEW n \in Nat, n \in S PROVE n + 1 \in S
  <2>1. n + 1 \in Nat
    BY SMT
  <2>2. ASSUME n + 1 \in 0 .. Len(path) PROVE WalkOk(walked[n + 1], count)
    <3>1. WalkOk(walked[n], count) /\ path[n + 1] \in Block
      BY <1>7, <1>10, <1>13, <2>2, SeqEntry
    <3>2. WalkOk(Walk(p, count, windowEnd, walked[n], path[n + 1]), count)
      BY <3>1, WalkStep
    <3> QED
      BY <1>11, <2>2, <3>2
  <2> QED
    BY <2>1, <2>2
<1>14. Len(path) \in S
  <2> HIDE DEF S
  <2> QED
    BY <1>7, <1>12, <1>13, NumberInduction
<1> QED
  BY <1>1, <1>10, <1>14

-----------------------------------------------------------------------------
(* Blocks and headers as validation takes them. *)

\* Among finitely many blocks one has the most work.
LEMMA MostWork ==
  ASSUME NEW B \in SUBSET Block, B # {}
  PROVE  \E b \in B : \A c \in B : Work[c] <= Work[b]
<1> DEFINE Above(b) == {c \in B : Work[c] > Work[b]}
           T == {Cardinality(Above(b)) : b \in B}
<1>1. \A b \in B : Work[b] \in Nat
  BY TreeAssumption
<1>2. IsFiniteSet(B)
  BY TreeAssumption, FS_Subset
<1>3. ASSUME NEW b \in B PROVE IsFiniteSet(Above(b)) /\ Cardinality(Above(b)) \in Nat
  <2>1. Above(b) \subseteq B
    OBVIOUS
  <2> QED
    BY <1>2, <2>1, FS_Subset, FS_CardinalityType
<1> HIDE DEF Above
<1>4. T \in SUBSET Nat /\ T # {}
  BY <1>3
<1>5. PICK n \in T : \A m \in T : n <= m
  BY <1>4, LeastNumber
<1>6. PICK b \in B : n = Cardinality(Above(b))
  BY <1>5
<1>7. ASSUME NEW c \in B, ~(Work[c] <= Work[b]) PROVE FALSE
  <2>1. Work[c] \in Nat /\ Work[b] \in Nat /\ Work[c] > Work[b]
    BY SMT, <1>1, <1>7
  <2>2. Above(c) \subseteq Above(b) \ {c}
    <3> SUFFICES ASSUME NEW x \in B, Work[x] > Work[c] PROVE Work[x] > Work[b] /\ x # c
      BY DEF Above
    <3>1. Work[x] \in Nat
      BY <1>1
    <3> QED
      BY SMT, <2>1, <3>1
  <2>3. c \in Above(b)
    BY <2>1 DEF Above
  <2>4. IsFiniteSet(Above(b) \ {c}) /\ Cardinality(Above(b) \ {c}) = Cardinality(Above(b)) - 1
    BY <1>3, <2>3, FS_RemoveElement
  <2>5. Cardinality(Above(c)) <= Cardinality(Above(b) \ {c})
    BY <2>2, <2>4, FS_Subset
  <2>6. n <= Cardinality(Above(c)) /\ Cardinality(Above(c)) \in Nat /\ Cardinality(Above(b)) \in Nat
    BY <1>3, <1>5
  <2>7. \A x, y \in Nat : x <= y - 1 => ~(y <= x)
    BY SMT
  <2> QED
    BY <1>6, <2>4, <2>5, <2>6, <2>7
<1> QED
  BY <1>7

LEMMA NewTipType ==
  ASSUME NEW stored \in SUBSET Block, tip \in Block
  PROVE  NewTip(stored) \in Block
<1> DEFINE better == {b \in Linked(stored) : Work[b] > Work[tip]}
<1>1. better \in SUBSET Block
  BY DEF Linked
<1>2. NewTip(stored) = IF better = {} THEN tip ELSE CHOOSE b \in better : \A c \in better : Work[c] <= Work[b]
  BY DEF NewTip
<1> HIDE DEF better
<1>3. CASE better = {}
  BY <1>2, <1>3
<1>4. CASE better # {}
  <2>1. \E b \in better : \A c \in better : Work[c] <= Work[b]
    BY <1>1, <1>4, MostWork
  <2> QED
    BY <1>1, <1>2, <1>4, <2>1
<1> QED
  BY <1>3, <1>4

-----------------------------------------------------------------------------
(* The inductive invariant. *)

BlockOrNull == Block \cup {NULL}

StateType ==
    /\ index \in SUBSET Block /\ have \in SUBSET Block /\ failed \in SUBSET Block
    /\ tip \in Block
    /\ connected \in SUBSET Peer
    /\ best \in [Peer -> BlockOrNull]
    /\ unknown \in [Peer -> BlockOrNull]
    /\ common \in [Peer -> BlockOrNull]

\* A stalling peer owes a block that is missing, or that submitblock may have brought.
StallInv ==
    \A p \in dl.stalling : \E b \in DOMAIN dl.flight :
      dl.flight[b] = p /\ (b \notin have \/ b \in setting.submitted)

DownloadInv == StateType /\ DlOk(dl, connected) /\ StallInv

\* What the reliable peer has, and what other peers announce, are blocks.
WorldType == setting \in Settings /\ remote.tip \in Block

\* A step that carries the blocks of the stalling peers along, and after which no block
\* that came is in flight unless it was submitted, lets a stalling peer owe a block still.
LEMMA StallCarried ==
  ASSUME StallInv, Carries(dl, dl'), setting' = setting,
         \A b \in have' \ have : b \notin DOMAIN dl'.flight \/ b \in setting.submitted
  PROVE  StallInv'
<1> SUFFICES ASSUME NEW p \in dl'.stalling
             PROVE  \E b \in DOMAIN dl'.flight : dl'.flight[b] = p /\ (b \notin have' \/ b \in setting.submitted)
  BY DEF StallInv
<1>1. p \in dl.stalling
  BY DEF Carries
<1>2. PICK b \in DOMAIN dl.flight : dl.flight[b] = p /\ (b \notin have \/ b \in setting.submitted)
  BY <1>1 DEF StallInv
<1>3. b \in DOMAIN dl'.flight /\ dl'.flight[b] = p
  BY <1>2 DEF Carries
<1> QED
  BY <1>2, <1>3

\* The bookkeeping is exact in an initial state.
LEMMA InitDownload == Init => DownloadInv
<1> SUFFICES ASSUME Init PROVE DownloadInv
  OBVIOUS
<1>1. StateType
  BY TreeAssumption DEF Init, StateType, BlockOrNull
<1>2. /\ DOMAIN dl = {"flight", "queue", "partial", "stalling", "nPeers"}
      /\ dl.flight = [b \in {} |-> NULL] /\ dl.queue = [p \in Peer |-> <<>>]
      /\ dl.partial = {} /\ dl.stalling = {} /\ dl.nPeers = 0
  BY DEF Init
<1>3. <<>> \in Seq(Block) /\ Len(<<>>) <= MaxTransit /\ Distinct(<<>>) /\ Range(<<>>) = {} /\ 0 \in Nat
  BY SMT, PeerAssumption DEF Distinct, Range
<1>4. Downloading(dl.queue) = {}
  BY <1>2 DEF Downloading
<1>5. DlType(dl)
  BY <1>2, <1>3 DEF DlType
<1>6. dl.nPeers = Cardinality(Downloading(dl.queue))
  BY <1>2, <1>4, FS_EmptySet
<1>7. ASSUME NEW p \in Peer
      PROVE  /\ Distinct(dl.queue[p])
             /\ Range(dl.queue[p]) = {b \in DOMAIN dl.flight : dl.flight[b] = p}
             /\ Len(dl.queue[p]) <= MaxTransit
             /\ dl.queue[p] # <<>> => p \in connected
  BY <1>2, <1>3
<1>8. dl.partial \subseteq DOMAIN dl.flight /\ dl.stalling \subseteq Downloading(dl.queue)
  BY <1>2
<1>9. StallInv
  BY <1>2 DEF StallInv
<1> QED
  BY <1>1, <1>5, <1>6, <1>7, <1>8, <1>9 DEF DownloadInv, DlOk

\* What a peer is known to have is a block.
LEMMA AvailabilityType ==
  ASSUME StateType, NEW p \in Peer, NEW known \in SUBSET Block
  PROVE  /\ Availability(p, known).best \in BlockOrNull
         /\ Availability(p, known).unknown \in BlockOrNull
         /\ DOMAIN Availability(p, known) = {"best", "unknown"}
<1>1. best[p] \in BlockOrNull /\ unknown[p] \in BlockOrNull /\ NULL \in BlockOrNull
  BY DEF StateType, BlockOrNull
<1>2. \A x, y : /\ [best |-> x, unknown |-> y].best = x /\ [best |-> x, unknown |-> y].unknown = y
                /\ DOMAIN [best |-> x, unknown |-> y] = {"best", "unknown"}
  OBVIOUS
<1>3. \E x, y \in BlockOrNull : Availability(p, known) = [best |-> x, unknown |-> y]
  BY <1>1 DEF Availability
<1> QED
  BY <1>2, <1>3

LEMMA AnnouncedType ==
  ASSUME StateType, NEW p \in Peer, NEW b \in Block, NEW known \in SUBSET Block
  PROVE  /\ Announced(p, b, known).best \in BlockOrNull
         /\ Announced(p, b, known).unknown \in BlockOrNull
<1> DEFINE a == Availability(p, known)
<1>1. a.best \in BlockOrNull /\ a.unknown \in BlockOrNull /\ DOMAIN a = {"best", "unknown"}
  BY AvailabilityType
<1>2. Announced(p, b, known) \in {a, [a EXCEPT !.unknown = b], [a EXCEPT !.best = b]}
  BY DEF Announced
<1>3. b \in BlockOrNull
  BY DEF BlockOrNull
<1> HIDE DEF a
<1> QED
  BY <1>1, <1>2, <1>3

\* ProcessNewBlock deals in blocks.
LEMMA ProcessType ==
  ASSUME StateType, NEW b \in Block, NEW forced, NEW intact, ProcessNewBlock(b, forced, intact)
  PROVE  /\ index' \in SUBSET Block /\ have' \in SUBSET Block /\ failed' \in SUBSET Block /\ tip' \in Block
         /\ have' \ have \subseteq {b} \ BadBlock
<1>0. index \in SUBSET Block /\ have \in SUBSET Block /\ failed \in SUBSET Block /\ tip \in Block
  BY DEF StateType
<1>1. CASE intact /\ HeaderOk(b)
  <2>1. /\ index' \in SUBSET Block /\ have' \in SUBSET Block /\ failed' \in SUBSET Block /\ tip' = NewTip(have')
        /\ have' \ have \subseteq {b} \ BadBlock
    BY <1>0, <1>1 DEF ProcessNewBlock
  <2>2. ASSUME NEW stored \in SUBSET Block PROVE NewTip(stored) \in Block
    BY <1>0, NewTipType
  <2> QED
    BY <2>1, <2>2
<1>2. CASE ~(intact /\ HeaderOk(b))
  BY <1>0, <1>2 DEF ProcessNewBlock, chainstate
<1> QED
  BY <1>1, <1>2

\* The steps of a peer preserve the invariant.
LEMMA ConnectionStep ==
  ASSUME DownloadInv, setting' = setting,
         NEW p \in Peer, InitializeNode(p) \/ FinalizeNode(p) \/ StartSync(p) \/ Timeout(p)
  PROVE  DownloadInv'
<1>0. StateType /\ DlOk(dl, connected) /\ StallInv
  BY DEF DownloadInv
<1>1. CASE InitializeNode(p)
  <2>1. dl' = dl /\ connected' = connected \cup {p} /\ have' = have
    BY <1>1 DEF InitializeNode, chainstate
  <2>2. DlOk(dl', connected') /\ StallInv'
    BY <1>0, <2>1 DEF DlOk, StallInv
  <2>3. StateType'
    BY <1>0, <1>1 DEF StateType, InitializeNode, chainstate, availability
  <2> QED
    BY <2>2, <2>3 DEF DownloadInv
<1>2. CASE FinalizeNode(p)
  <2>1. DlOk(dl', connected')
    BY <1>0, <1>2, ReleasedOk DEF FinalizeNode
  <2>2. StallInv'
    <3>1. Carries(dl, dl') /\ have' = have
      BY <1>0, <1>2, ReleasedCarries DEF FinalizeNode, DlOk, chainstate
    <3> QED
      BY <1>0, <3>1, StallCarried
  <2>3. StateType'
    BY <1>0, <1>2 DEF StateType, BlockOrNull, FinalizeNode, chainstate
  <2> QED
    BY <2>1, <2>2, <2>3 DEF DownloadInv
<1>3. CASE StartSync(p) \/ Timeout(p)
  <2>1. UNCHANGED <<index, have, failed, tip, best, unknown, common, connected, dl>>
    BY <1>3 DEF StartSync, Timeout, HeadersSyncTimeout, StallingTimeout, DownloadTimeout,
                chainstate, availability, nodes, connections
  <2> QED
    BY <1>0, <2>1 DEF DownloadInv, StateType, StallInv
<1> QED
  BY <1>1, <1>2, <1>3

\* Messages and steps that leave the downloads alone.
LEMMA IdleStep ==
  ASSUME DownloadInv, setting' = setting, UNCHANGED <<index, have, failed, tip, best, unknown, common, connected, dl>>
  PROVE  DownloadInv'
  BY DEF DownloadInv, StateType, StallInv

LEMMA AnnouncementStep ==
  ASSUME DownloadInv, setting' = setting, NEW p \in Peer, NEW b \in Block,
         Inv(p, b) \/ Unconnecting(p, b) \/ \E a, q : Headers(p, a, b, q)
  PROVE  DownloadInv'
<1>0. StateType /\ DlOk(dl, connected) /\ StallInv
  BY DEF DownloadInv
<1>1. ASSUME NEW known \in SUBSET Block, SetAvailability(p, Announced(p, b, known))
      PROVE  best' \in [Peer -> BlockOrNull] /\ unknown' \in [Peer -> BlockOrNull]
  BY <1>0, <1>1, AnnouncedType DEF SetAvailability, StateType
<1>2. CASE Inv(p, b) \/ Unconnecting(p, b)
  <2>1. best' \in [Peer -> BlockOrNull] /\ unknown' \in [Peer -> BlockOrNull]
    BY <1>0, <1>1, <1>2 DEF Inv, Unconnecting, StateType
  <2>2. UNCHANGED <<index, have, failed, tip, common, connected, dl>>
    BY <1>2 DEF Inv, Unconnecting, chainstate, connections
  <2> QED
    BY <1>0, <2>1, <2>2 DEF DownloadInv, StateType, StallInv
<1>3. ASSUME NEW a, NEW q, Headers(p, a, b, q) PROVE DownloadInv'
  <2> DEFINE headers == Anc[b] \ Anc[Parent[a]]
  <2>1. p \in Peer \cap connected /\ tip \in Block /\ UNCHANGED connected
    BY <1>0, <1>3 DEF Headers, Live, connections, StateType
  <2>2. CASE HeaderOk(a) /\ headers \cap failed = {}
    <3>1. /\ index' = index \cup headers
          /\ SetAvailability(p, Announced(p, b, index'))
          /\ dl' = DirectFetch(p, b)
          /\ UNCHANGED <<have, failed, tip, common>>
      BY <1>3, <2>2 DEF Headers
    <3>2. index' \in SUBSET Block
      BY <1>0, <3>1, AncType DEF StateType
    <3>3. best' \in [Peer -> BlockOrNull] /\ unknown' \in [Peer -> BlockOrNull]
      BY <1>1, <3>1, <3>2
    <3>4. DlOk(dl', connected') /\ Carries(dl, dl')
      BY <1>0, <2>1, <3>1, DirectFetchOk
    <3>5. StallInv'
      BY <1>0, <3>1, <3>4, StallCarried
    <3> QED
      BY <1>0, <2>1, <3>1, <3>2, <3>3, <3>4, <3>5 DEF DownloadInv, StateType
  <2>3. CASE ~(HeaderOk(a) /\ headers \cap failed = {})
    <3>1. UNCHANGED <<index, have, failed, tip, best, unknown, common, dl>>
      BY <1>3, <2>3 DEF Headers, chainstate, availability
    <3> QED
      BY <1>0, <2>1, <3>1, IdleStep
  <2> QED
    BY <2>2, <2>3
<1> QED
  BY <1>2, <1>3

LEMMA BlockStep ==
  ASSUME DownloadInv, setting' = setting, NEW p \in Peer, NEW b \in Block,
         (\E intact : BlockMsg(p, b, intact)) \/ (\E status : BlockTxn(p, b, status))
  PROVE  DownloadInv'
<1>0. StateType /\ DlOk(dl, connected) /\ StallInv
  BY DEF DownloadInv
<1>1. dl' = MarkBlockAsReceived(dl, b) /\ UNCHANGED <<best, unknown, common, connected>>
  BY DEF BlockMsg, BlockTxn, availability, nodes, connections
<1>2. DlOk(dl', connected') /\ b \notin DOMAIN dl'.flight
  BY <1>0, <1>1, ReceivedOk
<1>3. (\E forced, intact : ProcessNewBlock(b, forced, intact)) \/ UNCHANGED chainstate
  BY DEF BlockMsg, BlockTxn
<1>4. /\ index' \in SUBSET Block /\ have' \in SUBSET Block /\ failed' \in SUBSET Block /\ tip' \in Block
      /\ have' \ have \subseteq {b}
  BY <1>0, <1>3, ProcessType DEF chainstate, StateType
<1>5. Carries(dl, dl')
  BY <1>0, <1>1, ReceivedCarries DEF DlOk
<1>6. StallInv'
  BY <1>0, <1>2, <1>4, <1>5, StallCarried
<1> QED
  BY <1>0, <1>1, <1>2, <1>4, <1>6 DEF DownloadInv, StateType

LEMMA CompactStep ==
  ASSUME DownloadInv, setting' = setting, NEW p \in Peer, NEW b \in Block, NEW status, CmpctBlock(p, b, status)
  PROVE  DownloadInv'
<1> DEFINE inFlight == b \in DOMAIN dl.flight
           wanted == b \notin have /\ Work[b] > Work[tip] /\ (inFlight \/ TipRecent)
           near == Height[b] <= Height[tip] + 2
           mine == IF inFlight THEN dl.flight[b] = p ELSE Len(dl.queue[p]) < MaxTransit
           syncs == mine /\ inFlight /\ b \in dl.partial
           fills == wanted /\ near /\ mine /\ ~syncs
           marked == MarkBlockAsInFlight(dl, p, b, TRUE)
           asked == [marked EXCEPT !.partial = @ \cup {b}]
<1>0. StateType /\ DlOk(dl, connected) /\ StallInv /\ p \in Peer \cap connected
  BY DEF DownloadInv, CmpctBlock, Live
<1>1. UNCHANGED <<common, connected>>
  BY DEF CmpctBlock, connections
<1>2. CASE ~HeaderOk(b)
  <2>1. UNCHANGED <<index, have, failed, tip, best, unknown, dl>>
    BY <1>2 DEF CmpctBlock, chainstate
  <2> QED
    BY <1>1, <2>1, IdleStep
<1>3. CASE HeaderOk(b)
  <2>1. /\ SetAvailability(p, Announced(p, b, index \cup {b}))
        /\ \/ ProcessNewBlock(b, TRUE, TRUE)
           \/ index' = index \cup {b} /\ UNCHANGED <<have, failed, tip>>
        /\ \/ dl' = dl
           \/ dl' = DirectFetch(p, b)
           \/ fills /\ dl' = asked
           \/ fills /\ dl' = MarkBlockAsReceived(asked, b)
           \/ dl' = MarkBlockAsReceived(dl, b)
    BY <1>3 DEF CmpctBlock
  <2>6. ASSUME ~UNCHANGED have
        PROVE  \/ b \in BadBlock
               \/ fills /\ dl' = MarkBlockAsReceived(asked, b)
               \/ dl' = MarkBlockAsReceived(dl, b)
    BY <1>3, <2>6 DEF CmpctBlock
  <2>2. best' \in [Peer -> BlockOrNull] /\ unknown' \in [Peer -> BlockOrNull]
    <3>1. index \cup {b} \in SUBSET Block
      BY <1>0 DEF StateType
    <3> QED
      BY <1>0, <2>1, <3>1, AnnouncedType DEF SetAvailability, StateType
  <2>3. /\ index' \in SUBSET Block /\ have' \in SUBSET Block /\ failed' \in SUBSET Block /\ tip' \in Block
        /\ have' \ have \subseteq {b} \ BadBlock
    <3>1. CASE ProcessNewBlock(b, TRUE, TRUE)
      BY <1>0, <3>1, ProcessType
    <3>2. CASE index' = index \cup {b} /\ UNCHANGED <<have, failed, tip>>
      BY <1>0, <3>2 DEF StateType
    <3> QED
      BY <2>1, <3>1, <3>2
  <2>4. ASSUME fills PROVE DlOk(asked, connected) /\ Carries(dl, asked)
    <3>1. (b \in DOMAIN dl.flight /\ dl.flight[b] = p) \/ Len(dl.queue[p]) < MaxTransit
      BY <2>4
    <3>2. DlOk(marked, connected) /\ b \in DOMAIN marked.flight
      BY <1>0, <3>1, InFlightOk
    <3>5. Carries(dl, marked)
      BY <1>0, InFlightCarries
    <3> HIDE DEF marked
    <3>3. /\ DOMAIN asked = DOMAIN marked
          /\ asked.flight = marked.flight /\ asked.queue = marked.queue
          /\ asked.partial = marked.partial \cup {b}
          /\ asked.stalling = marked.stalling /\ asked.nPeers = marked.nPeers
      BY <3>2 DEF DlOk, DlType
    <3> HIDE DEF asked
    <3>4. DlType(asked)
      BY <3>2, <3>3 DEF DlOk, DlType
    <3> QED
      BY <3>2, <3>3, <3>4, <3>5 DEF DlOk, Carries
  <2>5. DlOk(dl', connected) /\ Carries(dl, dl')
    <3>1. CASE dl' = dl
      BY <1>0, <3>1, CarriesSelf
    <3>2. CASE dl' = DirectFetch(p, b)
      BY <1>0, <3>2, DirectFetchOk DEF StateType
    <3>3. CASE fills /\ dl' = asked
      BY <2>4, <3>3
    <3>4. CASE fills /\ dl' = MarkBlockAsReceived(asked, b)
      <4>1. DlOk(asked, connected) /\ Carries(dl, asked)
        BY <2>4, <3>4
      <4> HIDE DEF asked
      <4>2. DlOk(MarkBlockAsReceived(asked, b), connected)
        BY <4>1, ReceivedOk
      <4>3. Carries(asked, MarkBlockAsReceived(asked, b))
        BY <4>1, ReceivedCarries DEF DlOk
      <4> QED
        BY <3>4, <4>1, <4>2, <4>3, CarriesTrans
    <3>5. CASE dl' = MarkBlockAsReceived(dl, b)
      <4>1. DlOk(MarkBlockAsReceived(dl, b), connected)
        BY <1>0, ReceivedOk
      <4>2. Carries(dl, MarkBlockAsReceived(dl, b))
        BY <1>0, ReceivedCarries DEF DlOk
      <4> QED
        BY <3>5, <4>1, <4>2
    <3> QED
      BY <2>1, <3>1, <3>2, <3>3, <3>4, <3>5
  <2>7. \A x \in have' \ have : x \notin DOMAIN dl'.flight
    <3> SUFFICES ASSUME NEW x \in have' \ have PROVE x \notin DOMAIN dl'.flight
      OBVIOUS
    <3>1. x = b /\ b \notin BadBlock /\ ~UNCHANGED have
      BY <2>3
    <3>2. CASE fills /\ dl' = MarkBlockAsReceived(asked, b)
      <4>1. DlOk(asked, connected)
        BY <2>4, <3>2
      <4> HIDE DEF asked
      <4> QED
        BY <3>1, <3>2, <4>1, ReceivedOk
    <3>3. CASE dl' = MarkBlockAsReceived(dl, b)
      BY <1>0, <3>1, <3>3, ReceivedOk
    <3> QED
      BY <2>6, <3>1, <3>2, <3>3
  <2>8. StallInv'
    BY <1>0, <2>5, <2>7, StallCarried
  <2> QED
    BY <1>0, <1>1, <2>2, <2>3, <2>5, <2>8 DEF DownloadInv, StateType
<1> QED
  BY <1>2, <1>3

LEMMA SubmitStep ==
  ASSUME DownloadInv, setting' = setting, NEW b \in Block, SubmitBlock(b)
  PROVE  DownloadInv'
<1>0. StateType /\ DlOk(dl, connected) /\ StallInv /\ b \in setting.submitted
  BY DEF DownloadInv, SubmitBlock
<1>1. UNCHANGED <<best, unknown, common, connected, dl>>
  BY DEF SubmitBlock, availability, nodes, connections
<1>2. /\ index' \in SUBSET Block /\ have' \in SUBSET Block /\ failed' \in SUBSET Block /\ tip' \in Block
      /\ have' \ have \subseteq {b}
  BY <1>0, ProcessType DEF SubmitBlock
<1>3. StallInv'
  BY <1>0, <1>1, <1>2, CarriesSelf, StallCarried
<1> QED
  BY <1>0, <1>1, <1>2, <1>3 DEF DownloadInv, StateType

LEMMA RequestStep ==
  ASSUME DownloadInv, setting' = setting, NEW p \in Peer, RequestBlocks(p)
  PROVE  DownloadInv'
<1>0. StateType /\ DlOk(dl, connected) /\ StallInv /\ p \in Peer \cap connected /\ tip \in Block
  BY DEF DownloadInv, RequestBlocks, Live, StateType
<1>1. UNCHANGED <<index, have, failed, tip, connected>>
  BY DEF RequestBlocks, chainstate, nodes, connections
<1>2. best' \in [Peer -> BlockOrNull] /\ unknown' \in [Peer -> BlockOrNull]
  BY <1>0, AvailabilityType DEF RequestBlocks, SetAvailability, StateType
<1> DEFINE asks == best'[p] # NULL /\ Work[IF best'[p] = NULL THEN Genesis ELSE best'[p]] >= Work[tip]
<1>3. CASE ~asks
  <2>1. UNCHANGED <<common, dl>>
    BY <1>3 DEF RequestBlocks
  <2> QED
    BY <1>0, <1>1, <1>2, <2>1 DEF DownloadInv, StateType, StallInv
<1>4. CASE asks
  <2> DEFINE count == MaxTransit - Len(dl.queue[p])
             f == FindNextBlocksToDownload(p, common[p], best'[p], count)
             asked == RequestAll(p, f.blocks)
  <2>1. /\ common' = [common EXCEPT ![p] = f.common]
        /\ dl' = IF asked.queue[p] = <<>> /\ f.staller # NULL
                 THEN [asked EXCEPT !.stalling = @ \cup {f.staller}] ELSE asked
    BY <1>4 DEF RequestBlocks
  <2>2. Len(dl.queue[p]) < MaxTransit /\ Len(dl.queue[p]) \in Nat /\ MaxTransit \in Nat
    BY <1>0, PeerAssumption, SeqLen DEF RequestBlocks, DlOk, DlType
  <2>3. count \in Nat \ {0}
    BY SMT, <2>2
  <2>4. common[p] \in Block \cup {NULL} /\ best'[p] \in Block
    BY <1>0, <1>2, <1>4 DEF StateType, BlockOrNull
  <2>5. WalkOk(f, count)
    <3>1. \A known \in Block : WalkOk(FindNextBlocksToDownload(p, common[p], known, count), count)
      <4> HIDE DEF count
      <4> QED
        BY <1>0, <2>3, <2>4, FindNextOk
    <3> QED
      BY <2>4, <3>1
  <2> HIDE DEF f
  <2>6. f.blocks \in Seq(Block) /\ Len(f.blocks) <= count /\ Len(f.blocks) \in Nat /\ f.common \in BlockOrNull
    BY <2>5, SeqLen DEF WalkOk, BlockOrNull
  <2>7. Len(dl.queue[p]) + Len(f.blocks) <= MaxTransit
    <3>1. \A x, y \in Nat : y <= MaxTransit - x => x + y <= MaxTransit
      BY SMT, PeerAssumption
    <3> QED
      BY <2>2, <2>6, <3>1
  <2>8. DlOk(asked, connected) /\ Carries(dl, asked) /\ (f.blocks = <<>> => asked = dl)
    BY <1>0, <2>6, <2>7, RequestAllOk
  <2> HIDE DEF asked
  <2>9. DlOk(dl', connected) /\ StallInv'
    <3>1. CASE asked.queue[p] = <<>> /\ f.staller # NULL
      <4>1. dl' = [dl EXCEPT !.stalling = @ \cup {f.staller}] /\ Awaited(f.staller)
        BY <2>1, <2>5, <2>8, <3>1 DEF WalkOk
      <4>2. /\ DOMAIN dl' = DOMAIN dl
            /\ dl'.flight = dl.flight /\ dl'.queue = dl.queue /\ dl'.partial = dl.partial
            /\ dl'.stalling = dl.stalling \cup {f.staller} /\ dl'.nPeers = dl.nPeers
        BY <1>0, <4>1 DEF DlOk, DlType
      <4>3. f.staller \in Peer
        BY <4>1 DEF Awaited, Downloading
      <4>4. DlType(dl')
        BY <1>0, <4>2, <4>3 DEF DlOk, DlType
      <4>5. dl'.stalling \subseteq Downloading(dl'.queue) /\ dl'.nPeers = Cardinality(Downloading(dl'.queue))
        BY <1>0, <4>1, <4>2 DEF DlOk, Awaited
      <4>6. \A q \in Peer : /\ Distinct(dl'.queue[q])
                            /\ Range(dl'.queue[q]) = {x \in DOMAIN dl'.flight : dl'.flight[x] = q}
                            /\ Len(dl'.queue[q]) <= MaxTransit
                            /\ dl'.queue[q] # <<>> => q \in connected
        BY <1>0, <4>2 DEF DlOk
      <4>7. dl'.partial \subseteq DOMAIN dl'.flight
        BY <1>0, <4>2 DEF DlOk
      <4>8. StallInv'
        BY <1>0, <1>1, <4>1, <4>2 DEF StallInv, Awaited
      <4> QED
        BY <4>4, <4>5, <4>6, <4>7, <4>8 DEF DlOk
    <3>2. CASE ~(asked.queue[p] = <<>> /\ f.staller # NULL)
      <4>1. dl' = asked
        BY <2>1, <3>2
      <4>2. StallInv'
        BY <1>0, <1>1, <2>8, <4>1, StallCarried
      <4> QED
        BY <2>8, <4>1, <4>2
    <3> QED
      BY <3>1, <3>2
  <2>10. common' \in [Peer -> BlockOrNull]
    BY <1>0, <2>1, <2>6 DEF StateType
  <2> QED
    BY <1>0, <1>1, <1>2, <2>9, <2>10 DEF DownloadInv, StateType
<1> QED
  BY <1>3, <1>4

\* The reliable peer's chain stays in the tree.
LEMMA NextWorld == WorldType /\ [Next]_vars => WorldType'
<1> SUFFICES ASSUME WorldType, [Next]_vars PROVE WorldType'
  OBVIOUS
<1>1. CASE UNCHANGED world
  BY <1>1 DEF world, WorldType
<1>2. CASE Grow
  <2>1. PICK b \in Anc[Best] : remote' = [tip |-> b, untold |-> Reliable \in connected]
    BY <1>2 DEF Grow
  <2>2. b \in Block /\ remote'.tip = b /\ setting' = setting
    BY <1>2, <2>1, SettingsAssumption, AncType DEF Grow
  <2> QED
    BY <2>2 DEF WorldType
<1>3. CASE Announce
  <2>1. remote' = [tip |-> remote.tip, untold |-> FALSE] /\ setting' = setting
    BY <1>3 DEF Announce
  <2>2. remote'.tip = remote.tip
    BY <2>1
  <2> QED
    BY <2>1, <2>2 DEF WorldType
<1> QED
  BY <1>1, <1>2, <1>3 DEF Next, AnswerHeaders, vars

LEMMA NextDownload == DownloadInv /\ WorldType /\ [Next]_vars => DownloadInv'
<1> SUFFICES ASSUME DownloadInv, WorldType, [Next]_vars PROVE DownloadInv'
  OBVIOUS
<1>0. setting' = setting
  BY DEF Next, AnswerHeaders, Grow, Announce, vars, world
<1>1. ASSUME NEW p, NEW q, NoHeaders(p, q) PROVE DownloadInv'
  <2>1. UNCHANGED <<index, have, failed, tip, best, unknown, common, connected, dl>>
    BY <1>1 DEF NoHeaders, chainstate, availability, connections
  <2> QED
    BY <1>0, <2>1, IdleStep
<1>2. ASSUME NEW p \in Peer, PeerStep(p) PROVE DownloadInv'
  <2>1. CASE InitializeNode(p) \/ FinalizeNode(p) \/ StartSync(p) \/ Timeout(p)
    BY <1>0, <2>1, ConnectionStep
  <2>2. CASE RequestBlocks(p)
    BY <1>0, <2>2, RequestStep
  <2>3. CASE Announces(p)
    <3>1. ASSUME NEW b \in setting.hashes, Inv(p, b) \/ Unconnecting(p, b) PROVE DownloadInv'
      <4>1. b \in Block
        BY SettingsAssumption DEF WorldType
      <4> QED
        BY <1>0, <3>1, <4>1, AnnouncementStep
    <3>2. ASSUME NEW b \in setting.headers, NEW a \in Block, Headers(p, a, b, requests) PROVE DownloadInv'
      <4>1. b \in Block
        BY SettingsAssumption DEF WorldType
      <4> QED
        BY <1>0, <3>2, <4>1, AnnouncementStep
    <3>3. ASSUME NEW b \in Block, CmpctUnconnecting(p, b) PROVE DownloadInv'
      <4>1. UNCHANGED <<index, have, failed, tip, best, unknown, common, connected, dl>>
        BY <3>3 DEF CmpctUnconnecting, chainstate, availability, connections
      <4> QED
        BY <1>0, <4>1, IdleStep
    <3> QED
      BY <1>1, <2>3, <3>1, <3>2, <3>3 DEF Announces
  <2>4. ASSUME NEW b \in Block, (\E intact : BlockMsg(p, b, intact)) \/ (\E status : BlockTxn(p, b, status))
        PROVE  DownloadInv'
    BY <1>0, <2>4, BlockStep
  <2>5. ASSUME NEW b \in Block, \E status : CmpctBlock(p, b, status) PROVE DownloadInv'
    BY <1>0, <2>5, CompactStep
  <2> QED
    BY <1>2, <2>1, <2>2, <2>3, <2>4, <2>5 DEF PeerStep
<1>3. ASSUME NEW b \in Block, SubmitBlock(b) PROVE DownloadInv'
  BY <1>0, <1>3, SubmitStep
<1>4. CASE AnswerHeaders
  <2> DEFINE asked == Head(requests.asked)
             start == LastCommonAncestor[asked.from][remote.tip]
             end == IF asked.stop \in Anc[remote.tip] \ Anc[start] THEN asked.stop ELSE remote.tip
  <2>1. \/ \E q : NoHeaders(Reliable, q)
        \/ \E q : \E a, b \in Anc[end] : Headers(Reliable, a, b, q)
    BY <1>4 DEF AnswerHeaders
  <2>2. Anc[end] \in SUBSET Block
    <3>1. end \in Block
      BY AncType DEF WorldType
    <3> QED
      BY <3>1, AncType
  <2> QED
    BY <1>0, <1>1, <2>1, <2>2, PeerAssumption, AnnouncementStep
<1>5. CASE Grow
  <2>1. UNCHANGED <<index, have, failed, tip, best, unknown, common, connected, dl>>
    BY <1>5 DEF Grow, chainstate, availability, nodes, connections
  <2> QED
    BY <1>0, <2>1, IdleStep
<1>6. CASE Announce
  <2>1. Inv(Reliable, remote.tip) \/ Unconnecting(Reliable, remote.tip)
          \/ \E a, q : Headers(Reliable, a, remote.tip, q)
    BY <1>6 DEF Announce
  <2> QED
    BY <1>0, <2>1, PeerAssumption, AnnouncementStep DEF WorldType
<1>7. CASE UNCHANGED vars
  <2>1. UNCHANGED <<index, have, failed, tip, best, unknown, common, connected, dl>>
    BY <1>7 DEF vars, chainstate, availability, nodes, connections
  <2> QED
    BY <1>0, <2>1, IdleStep
<1> QED
  BY <1>2, <1>3, <1>4, <1>5, <1>6, <1>7 DEF Next

\* The inductive invariant of the downloads: DlOk, which says of each peer's queue that it
\* has no block twice and is what mapBlocksInFlight says, and StallInv, which says what a
\* stalling peer owes, whatever the handlers do.
THEOREM DownloadInvHolds == Spec => []DownloadInv
<1>1. Init => DownloadInv /\ WorldType
  <2>1. ASSUME Init PROVE WorldType
    <3>1. setting \in Settings /\ remote = [tip |-> setting.offer, untold |-> FALSE]
      BY <2>1 DEF Init
    <3>2. setting.offer \in Block /\ remote.tip = setting.offer
      BY <3>1, SettingsAssumption
    <3> QED
      BY <3>1, <3>2 DEF WorldType
  <2> QED
    BY <2>1, InitDownload
<1>2. DownloadInv /\ WorldType /\ [Next]_vars => DownloadInv' /\ WorldType'
  BY NextDownload, NextWorld
<1> QED
  BY <1>1, <1>2, PTL DEF Spec

\* mapBlocksInFlight and the vBlocksInFlight of the peers agree after every message,
\* timeout and disconnection, no peer is asked for more than
\* MAX_BLOCKS_IN_TRANSIT_PER_PEER blocks, and nPeersWithValidatedDownloads counts the
\* peers with a queue, as FinalizeNode asserts: for every tree, number of peers, window
\* and limit.
THEOREM InFlightExactHolds == Spec => []InFlightExact
<1>1. DownloadInv => InFlightExact
  <2> SUFFICES ASSUME DownloadInv PROVE InFlightExact
    OBVIOUS
  <2>1. DlOk(dl, connected)
    BY DEF DownloadInv
  <2>2. \A p \in Peer : Len(dl.queue[p]) = Cardinality(Range(dl.queue[p]))
    BY <2>1, DistinctLen DEF DlOk, DlType
  <2> QED
    BY <2>1, <2>2 DEF InFlightExact, DlOk, Downloading
<1> QED
  BY <1>1, DownloadInvHolds, PTL

\* nStallingSince is set only for a peer that owes a missing block, and cleared when that
\* block comes, from whomever: MarkBlockAsReceived clears it, a download that moves to
\* another peer clears it, and FindNextBlocksToDownload names a staller only where a block
\* of the window is in flight from it. Only submitblock brings a block past that.
THEOREM StallersOweHolds == Spec => []StallersOwe
<1>1. DownloadInv => StallersOwe
  <2> SUFFICES ASSUME DownloadInv, NEW p \in dl.stalling
               PROVE  \E b \in Range(dl.queue[p]) : b \notin have \/ b \in setting.submitted
    BY DEF StallersOwe
  <2>1. DlOk(dl, connected) /\ StallInv
    BY DEF DownloadInv
  <2>2. Range(dl.queue[p]) = {b \in DOMAIN dl.flight : dl.flight[b] = p}
    BY <2>1 DEF DlOk, DlType
  <2>3. PICK b \in DOMAIN dl.flight : dl.flight[b] = p /\ (b \notin have \/ b \in setting.submitted)
    BY <2>1 DEF StallInv
  <2> QED
    BY <2>2, <2>3
<1> QED
  BY <1>1, DownloadInvHolds, PTL
=============================================================================
