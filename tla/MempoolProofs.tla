---------------------------- MODULE MempoolProofs ----------------------------
(***************************************************************************)
(* Proofs about Mempool, for every set of transactions and blocks.         *)
(***************************************************************************)
EXTENDS Mempool, MempoolEntriesProofs

\* Zenon proves a leaf unless the leaf names the SMT solver.
USE Zenon

-----------------------------------------------------------------------------
(* The inductive invariant.                                                *)

Types ==
    /\ mapDeltas \in [Tx -> Int]
    /\ chain \in Seq(Seq(Tx))
    /\ vtx \in Seq(Tx) /\ vHashUpdate \in Seq(Tx)
    /\ nHeight \in Int

\* Every entry may be in the block at this height.
MatureIn(c, i, height) ==
    i[1] \in CoinBase => \E h \in DOMAIN c : i[1] \in Range(c[h]) /\ height - h >= Maturity
ValidIn(p, c, height) ==
    \A t \in DOMAIN p : /\ Final(t, height)
                        /\ \A i \in Vin[t] : i[1] \notin DOMAIN p => MatureIn(c, i, height)

Held == IF stage = "resurrect" THEN Range(vHashUpdate) ELSE {}
Left == IF stage = "resurrect" THEN Range(vtx) ELSE {}

\* removeForReorg has run since the last block was disconnected.
Settled == stage = "idle" \/ (stage \in {"expire", "trim"} /\ job # "invalidate")

PoolInv ==
    /\ Types
    /\ ChainOk(chain)
    /\ Good(pool, mapDeltas, Conf(chain), Outputs(Conf(chain)), Left, Held)
    /\ stage = "resurrect" => Coming(pool, Conf(chain), vtx, vHashUpdate)
    /\ stage # "resurrect" => nHeight = Len(chain)
    /\ Settled => ValidIn(pool, chain, nHeight + 1)

LEMMA ConfirmedIs == Confirmed = Conf(chain) /\ Spent = Outputs(Conf(chain))
  BY DEF Confirmed, Conf, Spent, Outputs

-----------------------------------------------------------------------------
(* The steps.                                                              *)

LEMMA PoolInit == Init => PoolInv
<1> SUFFICES ASSUME Init PROVE PoolInv
  OBVIOUS
<1>1. Types
  <2>1. mapDeltas \in [Tx -> Int]
    BY SMT DEF Init
  <2>2. chain \in Seq(Seq(Tx)) /\ vtx \in Seq(Tx) /\ vHashUpdate \in Seq(Tx) /\ nHeight \in Int
    BY SMT DEF Init
  <2> QED
    BY <2>1, <2>2 DEF Types
<1>2. DOMAIN pool = {} /\ stage = "idle" /\ chain = <<>> /\ nHeight = 0
  BY DEF Init
<1>3. DOMAIN chain = {} /\ Len(chain) = 0
  BY SMT, <1>2
<1>4. ChainOk(chain)
  BY <1>3 DEF ChainOk
<1>5. Left = {} /\ Held = {}
  <2>1. stage # "resurrect"
    BY SMT, <1>2
  <2> QED
    BY <2>1 DEF Left, Held
<1>6. Good(pool, mapDeltas, Conf(chain), Outputs(Conf(chain)), {}, {})
  BY <1>2 DEF Good, Shape, FeesInt, TotalsOk, LinksBy
<1>7. ValidIn(pool, chain, nHeight + 1)
  BY <1>2 DEF ValidIn
<1>8. stage # "resurrect"
  BY SMT, <1>2
<1> QED
  BY <1>1, <1>2, <1>3, <1>4, <1>5, <1>6, <1>7, <1>8 DEF PoolInv

\* What a step leads to when no block is being disconnected after it.
LEMMA Quiet ==
  ASSUME Types', ChainOk(chain'), stage' # "resurrect", nHeight' = Len(chain'),
         Good(pool', mapDeltas', Conf(chain'), Outputs(Conf(chain')), {}, {}),
         Settled' => ValidIn(pool', chain', nHeight' + 1)
  PROVE  PoolInv'
<1>1. Left' = {} /\ Held' = {}
  BY DEF Left, Held
<1> QED
  BY <1>1 DEF PoolInv

LEMMA Calm ==
  ASSUME PoolInv, stage # "resurrect"
  PROVE  /\ Types /\ ChainOk(chain) /\ nHeight = Len(chain)
         /\ Good(pool, mapDeltas, Conf(chain), Outputs(Conf(chain)), {}, {})
         /\ Settled => ValidIn(pool, chain, nHeight + 1)
<1>1. Left = {} /\ Held = {}
  BY DEF Left, Held
<1> QED
  BY <1>1 DEF PoolInv

LEMMA ValidKept ==
  ASSUME NEW p, NEW q, NEW D, Kept(p, D, q), NEW c, NEW h, ValidIn(p, c, h)
  PROVE  ValidIn(q, c, h)
<1> SUFFICES ASSUME NEW t \in DOMAIN q
             PROVE  Final(t, h) /\ \A i \in Vin[t] : i[1] \notin DOMAIN q => MatureIn(c, i, h)
  BY DEF ValidIn
<1>1. t \in DOMAIN p /\ ParentsOf(q, t) = ParentsOf(p, t)
  BY DEF Kept
<1>2. ASSUME NEW i \in Vin[t], i[1] \notin DOMAIN q PROVE i[1] \notin DOMAIN p
  <2>1. i[1] \notin ParentsOf(q, t)
    BY <1>2 DEF ParentsOf
  <2>2. i[1] \notin ParentsOf(p, t)
    BY <1>1, <2>1
  <2> QED
    BY <1>2, <2>2 DEF ParentsOf
<1> QED
  BY <1>1, <1>2 DEF ValidIn

\* Entries are removed with their descendants.
LEMMA DownStep ==
  ASSUME PoolInv, stage # "resurrect", stage' # "resurrect", NEW D, ChildClosed(pool, D),
         pool' = RemoveStaged(pool, D, FALSE), UNCHANGED <<mapDeltas, chain, nHeight, vtx, vHashUpdate>>,
         Settled' => Settled
  PROVE  PoolInv'
<1>1. /\ Types /\ ChainOk(chain) /\ nHeight = Len(chain)
      /\ Good(pool, mapDeltas, Conf(chain), Outputs(Conf(chain)), {}, {})
      /\ Settled => ValidIn(pool, chain, nHeight + 1)
  BY Calm
<1> DEFINE C == Conf(chain)
           S == Outputs(C)
<1> HIDE DEF C, S
<1>2. D \cap {} = {}
  OBVIOUS
<1>3. Good(pool, mapDeltas, C, S, {}, {})
  BY <1>1 DEF C, S
<1>4. Good(pool', mapDeltas, C, S, {}, {}) /\ Kept(pool, D, pool')
  BY <1>2, <1>3, DownGood
<1>5. Good(pool', mapDeltas', Conf(chain'), Outputs(Conf(chain')), {}, {})
  BY <1>4 DEF C, S
<1>6. Types' /\ ChainOk(chain') /\ nHeight' = Len(chain')
  BY <1>1 DEF Types
<1>7. ASSUME Settled' PROVE ValidIn(pool', chain', nHeight' + 1)
  <2> DEFINE h == nHeight + 1
  <2> HIDE DEF h
  <2>1. ValidIn(pool, chain, h)
    BY <1>1, <1>7 DEF h
  <2>2. ValidIn(pool', chain, h)
    BY <1>4, <2>1, ValidKept
  <2> QED
    BY <2>2 DEF h
<1> QED
  BY <1>5, <1>6, <1>7, Quiet

LEMMA DescendantsClosed ==
  ASSUME NEW p, Shape(p), NEW S \in SUBSET DOMAIN p
  PROVE  ChildClosed(p, CalculateDescendants(p, S))
  BY Descendants DEF ChildClosed

LEMMA ExpireStep ==
  ASSUME PoolInv, Expire
  PROVE  PoolInv'
<1>1. stage = "expire" /\ stage' = "trim" /\ job' = job /\ UNCHANGED <<mapDeltas, chain, nHeight, vtx, vHashUpdate>>
  BY DEF Expire, block
<1>2. PICK old \in SUBSET (Old \cap DOMAIN pool) : pool' = RemoveStaged(pool, CalculateDescendants(pool, old), FALSE)
  BY DEF Expire
<1>3. stage # "resurrect" /\ stage' # "resurrect" /\ (Settled' => Settled)
  BY SMT, <1>1 DEF Settled
<1>4. Shape(pool)
  BY DEF PoolInv, Good
<1>5. ChildClosed(pool, CalculateDescendants(pool, old))
  BY <1>4, DescendantsClosed
<1> DEFINE D == CalculateDescendants(pool, old)
<1> HIDE DEF D
<1>6. ChildClosed(pool, D) /\ pool' = RemoveStaged(pool, D, FALSE)
  BY <1>2, <1>5 DEF D
<1> QED
  BY <1>1, <1>3, <1>6, DownStep

LEMMA TrimStep ==
  ASSUME PoolInv, TrimToSize
  PROVE  PoolInv'
<1>1. stage = "trim" /\ stage' = stage /\ job' = job /\ UNCHANGED <<mapDeltas, chain, nHeight, vtx, vHashUpdate>>
  BY DEF TrimToSize, block
<1>2. PICK t \in DOMAIN pool : pool' = RemoveStaged(pool, CalculateDescendants(pool, {t}), FALSE)
  BY DEF TrimToSize
<1>3. stage # "resurrect" /\ stage' # "resurrect" /\ (Settled' => Settled)
  BY SMT, <1>1 DEF Settled
<1>4. Shape(pool) /\ {t} \in SUBSET DOMAIN pool
  BY DEF PoolInv, Good
<1> DEFINE D == CalculateDescendants(pool, {t})
<1>5. ChildClosed(pool, D)
  BY <1>4, DescendantsClosed
<1> HIDE DEF D
<1>6. pool' = RemoveStaged(pool, D, FALSE)
  BY <1>2 DEF D
<1> QED
  BY <1>1, <1>3, <1>5, <1>6, DownStep

\* A step that leaves the pool and the chain alone.
LEMMA SameStep ==
  ASSUME PoolInv, UNCHANGED <<pool, mapDeltas, chain, nHeight, vtx, vHashUpdate>>,
         stage # "resurrect", stage' # "resurrect", Settled' => Settled
  PROVE  PoolInv'
<1>1. /\ Types /\ ChainOk(chain) /\ nHeight = Len(chain)
      /\ Good(pool, mapDeltas, Conf(chain), Outputs(Conf(chain)), {}, {})
      /\ Settled => ValidIn(pool, chain, nHeight + 1)
  BY Calm
<1>2. Types' /\ ChainOk(chain') /\ nHeight' = Len(chain')
  BY <1>1 DEF Types
<1>3. Good(pool', mapDeltas', Conf(chain'), Outputs(Conf(chain')), {}, {})
  BY <1>1
<1>4. Settled' => ValidIn(pool', chain', nHeight' + 1)
  BY <1>1
<1> QED
  BY <1>2, <1>3, <1>4, Quiet

LEMMA TrimDoneStep ==
  ASSUME PoolInv, TrimDone
  PROVE  PoolInv'
<1>1. /\ stage = "trim" /\ UNCHANGED <<pool, mapDeltas, chain, nHeight, vtx, vHashUpdate>>
      /\ IF job = "invalidate" THEN stage' = "reorg" /\ UNCHANGED job ELSE stage' = "idle" /\ job' = "none"
  BY DEF TrimDone, block
<1>2. stage # "resurrect" /\ stage' # "resurrect" /\ (Settled' => Settled)
  BY SMT, <1>1 DEF Settled
<1> QED
  BY <1>1, <1>2, SameStep

LEMMA StartConnectStep ==
  ASSUME PoolInv, StartConnect
  PROVE  PoolInv'
<1>1. /\ stage = "disconnect" /\ UNCHANGED <<pool, mapDeltas, chain, nHeight, vtx, vHashUpdate>>
      /\ stage' = IF job = "invalidate" THEN "expire" ELSE "connect"
      /\ job' = job
  BY DEF StartConnect, block
<1>2. stage # "resurrect" /\ stage' # "resurrect" /\ (Settled' => Settled)
  BY SMT, <1>1 DEF Settled
<1> QED
  BY <1>1, <1>2, SameStep

LEMMA ConnectDoneStep ==
  ASSUME PoolInv, ConnectDone
  PROVE  PoolInv'
<1>1. stage = "connect" /\ stage' = "reorg" /\ UNCHANGED <<pool, mapDeltas, chain, nHeight, vtx, vHashUpdate>>
  BY DEF ConnectDone, block
<1>2. stage # "resurrect" /\ stage' # "resurrect" /\ (Settled' => Settled)
  BY SMT, <1>1 DEF Settled
<1> QED
  BY <1>1, <1>2, SameStep

LEMMA MinFeeStep ==
  ASSUME PoolInv, GetMinFee
  PROVE  PoolInv'
<1>1. stage = "idle" /\ UNCHANGED <<stage, job, pool, mapDeltas, chain, nHeight, vtx, vHashUpdate>>
  BY DEF GetMinFee, block
<1>2. stage # "resurrect" /\ stage' # "resurrect" /\ (Settled' => Settled)
  BY SMT, <1>1 DEF Settled
<1> QED
  BY <1>1, <1>2, SameStep

LEMMA ReorgStep ==
  ASSUME PoolInv, RemoveForReorg
  PROVE  PoolInv'
<1> DEFINE X == {t \in DOMAIN pool : NoLongerValid(t)}
           D == CalculateDescendants(pool, X)
           C == Conf(chain)
           S == Outputs(C)
           h == nHeight + 1
<1>1. /\ stage = "reorg" /\ pool' = RemoveStaged(pool, D, FALSE) /\ UNCHANGED <<mapDeltas, chain, nHeight, vtx, vHashUpdate>>
      /\ IF job = "invalidate" THEN stage' = "idle" /\ job' = "none" ELSE stage' = "expire" /\ UNCHANGED job
  BY DEF RemoveForReorg, block
<1>2. stage # "resurrect" /\ stage' # "resurrect"
  BY SMT, <1>1
<1>3. /\ Types /\ ChainOk(chain) /\ nHeight = Len(chain)
      /\ Good(pool, mapDeltas, C, S, {}, {})
  BY <1>2, Calm
<1>4. Shape(pool) /\ X \in SUBSET DOMAIN pool
  BY DEF PoolInv, Good
<1>5. ChildClosed(pool, D) /\ X \subseteq D
  <2> HIDE DEF X
  <2> QED
    BY <1>4, Descendants DEF ChildClosed
<1>6. D \cap {} = {}
  OBVIOUS
<1> HIDE DEF X, D, C, S, h
<1>7. Good(pool', mapDeltas, C, S, {}, {}) /\ Kept(pool, D, pool')
  BY <1>1, <1>3, <1>5, <1>6, DownGood
<1>8. Good(pool', mapDeltas', Conf(chain'), Outputs(Conf(chain')), {}, {})
  BY <1>1, <1>7 DEF C, S
<1>9. Types' /\ ChainOk(chain') /\ nHeight' = Len(chain')
  BY <1>1, <1>3 DEF Types
<1>10. ValidIn(pool', chain, h)
  <2> SUFFICES ASSUME NEW t \in DOMAIN pool'
               PROVE  Final(t, h) /\ \A i \in Vin[t] : i[1] \notin DOMAIN pool' => MatureIn(chain, i, h)
    BY DEF ValidIn
  <2>1. t \in DOMAIN pool /\ t \notin D /\ ParentsOf(pool', t) = ParentsOf(pool, t)
    BY <1>7 DEF Kept
  <2>2. ~NoLongerValid(t)
    BY <1>5, <2>1 DEF X
  <2>3. Final(t, h)
    BY <2>2 DEF NoLongerValid, h
  <2>4. ASSUME NEW i \in Vin[t], i[1] \notin DOMAIN pool' PROVE MatureIn(chain, i, h)
    <3>1. i[1] \notin ParentsOf(pool', t)
      BY <2>4 DEF ParentsOf
    <3>2. i[1] \notin DOMAIN pool
      BY <2>1, <2>4, <3>1 DEF ParentsOf
    <3>3. Mature(i, nHeight + 1)
      BY <2>2, <2>4, <3>2 DEF NoLongerValid
    <3> QED
      BY <3>3 DEF Mature, MatureIn, h
  <2> QED
    BY <2>3, <2>4
<1>11. ValidIn(pool', chain', nHeight' + 1)
  BY <1>1, <1>10 DEF h
<1> QED
  BY <1>2, <1>8, <1>9, <1>11, Quiet

LEMMA PrioritiseStep ==
  ASSUME PoolInv, NEW t \in Tx, NEW d \in Int, PrioritiseTransaction(t, d)
  PROVE  PoolInv'
<1> DEFINE C == Conf(chain)
           S == Outputs(C)
           h == nHeight + 1
<1>1. /\ stage = "idle" /\ UNCHANGED <<stage, job, chain, nHeight, vtx, vHashUpdate>>
      /\ mapDeltas' = [mapDeltas EXCEPT ![t] = @ + d]
      /\ pool' = IF t \in DOMAIN pool THEN Raised(t, d) ELSE pool
  BY DEF PrioritiseTransaction, block
<1>2. stage # "resurrect" /\ stage' # "resurrect" /\ Settled
  BY SMT, <1>1 DEF Settled
<1>3. /\ Types /\ ChainOk(chain) /\ nHeight = Len(chain)
      /\ Good(pool, mapDeltas, C, S, {}, {}) /\ ValidIn(pool, chain, h)
  BY <1>2, Calm
<1> HIDE DEF C, S, h
<1>4. mapDeltas \in [Tx -> Int] /\ mapDeltas[t] \in Int
  BY <1>3 DEF Types
<1>5. /\ mapDeltas' \in [Tx -> Int] /\ mapDeltas'[t] = mapDeltas[t] + d
      /\ \A x \in Tx : x # t => mapDeltas'[x] = mapDeltas[x]
  <2>1. mapDeltas[t] + d \in Int
    BY SMT, <1>4
  <2>2. mapDeltas' \in [Tx -> Int]
    BY <1>1, <1>4, <2>1
  <2> QED
    BY <1>1, <1>4, <2>2
<1>6. Shape(pool) /\ TotalsOk(pool) /\ DOMAIN pool \in SUBSET Tx
  BY <1>3 DEF Good, Shape, FeesInt
<1>7. /\ Shape(pool') /\ TotalsOk(pool') /\ DOMAIN pool' = DOMAIN pool
      /\ \A x \in DOMAIN pool : /\ pool'[x].parents = pool[x].parents
                                /\ pool'[x].fee = IF x = t THEN pool[x].fee + d ELSE pool[x].fee
  <2>1. CASE t \notin DOMAIN pool
    <3>1. pool' = pool /\ \A x \in DOMAIN pool : x # t
      BY <1>1, <2>1
    <3> QED
      BY <1>6, <3>1
  <2>2. CASE t \in DOMAIN pool
    <3>1. pool' = Raised(t, d)
      BY <1>1, <2>2
    <3> QED
      BY SMT, <1>6, <2>2, <3>1, PrioritisedOk
  <2> QED
    BY <2>1, <2>2
<1>8. LinksBy(pool', {}, {})
  <2>1. \A x : ParentsOf(pool', x) = ParentsOf(pool, x)
    BY <1>7 DEF ParentsOf
  <2> QED
    BY <1>3, <1>7, <2>1 DEF Good, LinksBy
<1>9. ASSUME NEW x \in DOMAIN pool' PROVE pool'[x].fee = Fee[x] + mapDeltas'[x]
  <2>1. x \in DOMAIN pool /\ x \in Tx
    BY <1>6, <1>7, <1>9
  <2>2. pool[x].fee = Fee[x] + mapDeltas[x]
    BY <1>3, <2>1 DEF Good
  <2>3. CASE x = t
    <3>1. pool'[x].fee = pool[x].fee + d /\ mapDeltas'[x] = mapDeltas[x] + d
      BY <1>5, <1>7, <2>1, <2>3
    <3>2. Fee[x] \in Int /\ mapDeltas[x] \in Int
      BY <1>4, <2>1, SizeAssumption
    <3>3. (Fee[x] + mapDeltas[x]) + d = Fee[x] + (mapDeltas[x] + d)
      BY SMT, <3>2
    <3> QED
      BY <2>2, <3>1, <3>3
  <2>4. CASE x # t
    BY <1>5, <1>7, <2>1, <2>2, <2>4
  <2> QED
    BY <2>3, <2>4
<1>10. Good(pool', mapDeltas', C, S, {}, {})
  BY <1>3, <1>7, <1>8, <1>9 DEF Good
<1>11. Good(pool', mapDeltas', Conf(chain'), Outputs(Conf(chain')), {}, {})
  BY <1>1, <1>10 DEF C, S
<1>12. Types' /\ ChainOk(chain') /\ nHeight' = Len(chain')
  BY <1>1, <1>3, <1>5 DEF Types
<1>13. ValidIn(pool', chain', nHeight' + 1)
  BY <1>1, <1>3, <1>7 DEF h, ValidIn
<1> QED
  BY <1>2, <1>11, <1>12, <1>13, Quiet

\* No transaction enters that is in the chain: its inputs are spent.
LEMMA NotConfirmed ==
  ASSUME NEW V, NEW held, Good(pool, mapDeltas, Conf(chain), Outputs(Conf(chain)), V, held),
         chain \in Seq(Seq(Tx)), ChainOk(chain), NEW t \in Tx, Checked(t)
  PROVE  t \notin Conf(chain)
<1> SUFFICES ASSUME t \in Conf(chain) PROVE FALSE
  OBVIOUS
<1>1. t \notin CoinBase /\ \A i \in Vin[t] : i[1] \in DOMAIN pool \/ Unspent(i)
  BY DEF Checked
<1>2. Vin[t] # {}
  BY <1>1, TxAssumption
<1>3. PICK i \in Vin[t] : TRUE
  BY <1>2
<1>4. i \in Outputs(Conf(chain))
  BY DEF Outputs
<1>5. ~Unspent(i)
  BY <1>4, ConfirmedIs DEF Unspent
<1>6. i[1] \in DOMAIN pool
  BY <1>1, <1>5
<1>7. i[1] \in Tx /\ i[1] \notin Conf(chain)
  BY <1>6 DEF Good, Shape, FeesInt
<1>8. Sourced(Outputs(Conf(chain)), Conf(chain))
  BY ChainSourced
<1>9. i \in Base
  BY <1>4, <1>7, <1>8 DEF Sourced
<1> QED
  BY <1>7, <1>9, TxAssumption

LEMMA AcceptStep ==
  ASSUME PoolInv, NEW t \in Tx, AcceptToMemoryPool(t)
  PROVE  PoolInv'
<1> DEFINE C == Conf(chain)
           S == Outputs(C)
           h == nHeight + 1
<1>1. /\ stage = "idle" /\ stage' = "expire" /\ UNCHANGED <<mapDeltas, chain, nHeight, vtx, vHashUpdate>>
      /\ pool' = Accepted(t) /\ Checked(t)
  BY DEF AcceptToMemoryPool, block, Acceptable
<1>2. stage # "resurrect" /\ stage' # "resurrect" /\ Settled
  BY SMT, <1>1 DEF Settled
<1>3. /\ Types /\ ChainOk(chain) /\ nHeight = Len(chain)
      /\ Good(pool, mapDeltas, C, S, {}, {}) /\ ValidIn(pool, chain, h)
  BY <1>2, Calm
<1>4. /\ t \notin CoinBase /\ t \in Tx \ DOMAIN pool /\ NewAncestors(pool, t) \cap Conflicts(t) = {}
      /\ \A i \in Vin[t] : i[1] \in DOMAIN pool \/ Unspent(i)
      /\ Final(t, h) /\ \A i \in Vin[t] : i[1] \notin DOMAIN pool => Mature(i, h)
  BY <1>1, <1>3 DEF Checked, Conflicts
<1>5. t \notin C
  BY <1>1, <1>3, NotConfirmed DEF Types
<1>6. C = Confirmed /\ S = Spent
  BY ConfirmedIs
<1> HIDE DEF C, S, h
<1>7. Fits(t, C, S, {}, {})
  <2>1. ASSUME NEW y \in DOMAIN pool, NEW i \in Vin[y], i[1] = t PROVE FALSE
    <3>1. i[1] \in DOMAIN pool \/ (i \in Base \/ i[1] \in C)
      BY <1>3, <2>1 DEF Good
    <3>2. i \in Base
      BY <1>4, <1>5, <2>1, <3>1
    <3> QED
      BY <2>1, <3>2, TxAssumption
  <2>2. \A i \in Vin[t] : i[1] \in DOMAIN pool \/ ((i \in Base \/ i[1] \in C) /\ i \notin S)
    BY <1>4, <1>6 DEF Unspent
  <2> QED
    BY <1>4, <2>1, <2>2 DEF Fits
<1> DEFINE q == pool'
           R == Replaced(t)
<1>8. /\ Good(q, mapDeltas, C, S, {} \ {t}, {})
      /\ DOMAIN q = (DOMAIN pool \ R) \cup {t}
      /\ \A x \in DOMAIN pool \ R : ParentsOf(pool, x) \cap R = {}
      /\ ParentsOf(pool, t) \cap R = {}
  <2> HIDE DEF q
  <2>1. q = Accepted(t) /\ Good(pool, mapDeltas, C, S, {}, {}) /\ mapDeltas \in [Tx -> Int] /\ t \notin C
    BY <1>1, <1>3, <1>5, <1>6 DEF q, Types
  <2>2. MayEnter(t, C, S, {}, {}, {})
    BY <1>4, <1>7, <2>1 DEF MayEnter
  <2>3. Entered(q, t, C, S, {}, {})
    BY <2>1, <2>2, AcceptGood
  <2> QED
    BY <2>3 DEF Entered
<1> HIDE DEF R, q
<1>9. {} \ {t} = {}
  OBVIOUS
<1>10. Good(pool', mapDeltas', Conf(chain'), Outputs(Conf(chain')), {}, {})
  BY <1>1, <1>6, <1>8, <1>9 DEF C, S, q
<1>11. Types' /\ ChainOk(chain') /\ nHeight' = Len(chain')
  BY <1>1, <1>3 DEF Types
<1>12. ValidIn(q, chain, h)
  <2> SUFFICES ASSUME NEW x \in DOMAIN q
               PROVE  Final(x, h) /\ \A i \in Vin[x] : i[1] \notin DOMAIN q => MatureIn(chain, i, h)
    BY DEF ValidIn
  <2>1. ASSUME ParentsOf(pool, x) \cap R = {}, NEW i \in Vin[x], i[1] \notin DOMAIN q PROVE i[1] \notin DOMAIN pool
    <3>1. i[1] \in DOMAIN pool => i[1] \in ParentsOf(pool, x)
      BY <2>1 DEF ParentsOf
    <3>2. i[1] \in DOMAIN pool => i[1] \notin R
      BY <2>1, <3>1
    <3> QED
      BY <1>8, <2>1, <3>2
  <2>2. CASE x = t
    <3>1. ParentsOf(pool, x) \cap R = {}
      BY <1>8, <2>2
    <3> QED
      BY <1>4, <2>1, <2>2, <3>1 DEF Mature, MatureIn
  <2>3. CASE x # t
    <3>1. x \in DOMAIN pool \ R
      BY <1>8, <2>3
    <3>2. ParentsOf(pool, x) \cap R = {}
      BY <1>8, <3>1
    <3> QED
      BY <1>3, <2>1, <3>1, <3>2 DEF ValidIn
  <2> QED
    BY <2>2, <2>3
<1>13. ValidIn(pool', chain', nHeight' + 1)
  BY <1>1, <1>12 DEF h, q
<1> QED
  BY <1>2, <1>10, <1>11, <1>13, Quiet

LEMMA DisconnectDoneStep ==
  ASSUME PoolInv, DisconnectDone
  PROVE  PoolInv'
<1>1. /\ stage = "resurrect" /\ vtx = <<>> /\ stage' = "disconnect" /\ UNCHANGED <<mapDeltas, chain, vtx, vHashUpdate>>
      /\ pool' = UpdateTransactionsFromBlock(pool, vHashUpdate) /\ nHeight' = Len(chain)
  BY DEF DisconnectDone, block
<1>2. stage' # "resurrect" /\ ~Settled'
  BY SMT, <1>1 DEF Settled
<1> DEFINE C == Conf(chain)
           S == Outputs(C)
<1>3. Types /\ ChainOk(chain) /\ Coming(pool, C, vtx, vHashUpdate) /\ Good(pool, mapDeltas, C, S, Left, Held)
  BY <1>1 DEF PoolInv
<1>4. Left = {} /\ Held = Range(vHashUpdate)
  <2>1. Range(vtx) = {}
    <3>1. DOMAIN vtx = {}
      BY SMT, <1>1
    <3> QED
      BY <3>1 DEF Range
  <2> QED
    BY <1>1, <2>1 DEF Left, Held
<1>5. vHashUpdate \in Seq(Tx) /\ InOrder(pool, vHashUpdate) /\ Len(chain) \in Int
  <2>1. chain \in Seq(Seq(Tx)) /\ vHashUpdate \in Seq(Tx)
    BY <1>3 DEF Types
  <2>2. Len(chain) \in Int
    BY SMT, <2>1
  <2> QED
    BY <1>3, <2>1, <2>2 DEF Coming
<1> HIDE DEF C, S
<1>6. Good(pool', mapDeltas, C, S, {}, {})
  BY <1>1, <1>3, <1>4, <1>5, UpdateGood
<1>7. Good(pool', mapDeltas', Conf(chain'), Outputs(Conf(chain')), {}, {})
  BY <1>1, <1>6 DEF C, S
<1>8. Types' /\ ChainOk(chain') /\ nHeight' = Len(chain')
  BY <1>1, <1>3, <1>5 DEF Types
<1> QED
  BY <1>2, <1>7, <1>8, Quiet

\* ConnectBlock lets no transaction spend what is not there, or twice.
LEMMA ValidBlockOk ==
  ASSUME NEW b \in Blocks, ValidBlock(b)
  PROVE  BlockOk(b.vtx, Conf(chain))
<1> DEFINE v == b.vtx
<1> SUFFICES ASSUME NEW k \in DOMAIN v
             PROVE  /\ v[k] \notin Conf(chain) /\ v[k] \notin Before(v, k)
                    /\ Grounded(v[k], Conf(chain) \cup Before(v, k))
                    /\ \A x \in Before(v, k) : Vin[v[k]] \cap Vin[x] = {}
  BY DEF BlockOk
<1>1. /\ v[k] \notin Confirmed
      /\ \A i \in Vin[v[k]] : /\ Unspent(i) \/ i[1] \in Before(v, k)
                              /\ i \notin UNION {Vin[x] : x \in Before(v, k)}
  BY DEF ValidBlock, Before
<1>2. v \in Seq(Tx) /\ (v[k] \in CoinBase <=> k = 1)
  BY BlockAssumption
<1>3. v[k] \in Tx
  BY <1>2, SeqLen
<1> HIDE DEF v
<1>4. v[k] \notin Conf(chain)
  BY <1>1, ConfirmedIs
<1>5. Grounded(v[k], Conf(chain) \cup Before(v, k))
  BY <1>1, ConfirmedIs DEF Grounded, Unspent
<1>6. ASSUME NEW x \in Before(v, k) PROVE Vin[v[k]] \cap Vin[x] = {}
  <2>1. ASSUME NEW i \in Vin[v[k]], i \in Vin[x] PROVE FALSE
    <3>1. i \in UNION {Vin[y] : y \in Before(v, k)}
      BY <1>6, <2>1
    <3> QED
      BY <1>1, <2>1, <3>1
  <2> QED
    BY <2>1
<1>7. v[k] \notin Before(v, k)
  <2> SUFFICES ASSUME v[k] \in Before(v, k) PROVE FALSE
    OBVIOUS
  <2>1. Vin[v[k]] = {}
    BY <1>6
  <2>2. k = 1
    BY <1>2, <1>3, <2>1, TxAssumption
  <2>3. 1 .. k - 1 = {}
    BY SMT, <2>2
  <2> QED
    BY <2>3 DEF Before
<1> QED
  BY <1>4, <1>5, <1>6, <1>7

\* Once an entry may be in the next block, it may be in the one after that.
LEMMA ValidLater ==
  ASSUME NEW p, NEW q, DOMAIN q \subseteq DOMAIN p, NEW c \in Seq(Seq(Tx)), NEW d, DOMAIN c \subseteq DOMAIN d,
         \A g \in DOMAIN c : d[g] = c[g], \A x \in DOMAIN p : x \notin CoinBase /\ x \in Tx,
         NEW h \in Int, ValidIn(p, c, h)
  PROVE  ValidIn(q, d, h + 1)
<1> SUFFICES ASSUME NEW t \in DOMAIN q
             PROVE  Final(t, h + 1) /\ \A i \in Vin[t] : i[1] \notin DOMAIN q => MatureIn(d, i, h + 1)
  BY DEF ValidIn
<1>1. t \in DOMAIN p /\ t \in Tx
  OBVIOUS
<1>2. Final(t, h + 1)
  <2>1. LockTime[t] < h
    BY <1>1 DEF ValidIn, Final
  <2>2. LockTime[t] \in Int
    BY <1>1, NumberAssumption
  <2>3. LockTime[t] < h + 1
    BY SMT, <2>1, <2>2
  <2> QED
    BY <2>3 DEF Final
<1>3. ASSUME NEW i \in Vin[t], i[1] \in CoinBase PROVE \E g \in DOMAIN d : i[1] \in Range(d[g]) /\ (h + 1) - g >= Maturity
  <2>1. MatureIn(c, i, h)
    BY <1>1, <1>3 DEF ValidIn
  <2>2. PICK g \in DOMAIN c : i[1] \in Range(c[g]) /\ h - g >= Maturity
    BY <1>3, <2>1 DEF MatureIn
  <2>3. g \in Int
    BY SMT
  <2>4. Maturity \in Int
    BY NumberAssumption
  <2>5. (h + 1) - g >= Maturity
    BY SMT, <2>2, <2>3, <2>4
  <2> QED
    BY <2>2, <2>5
<1> QED
  BY <1>2, <1>3 DEF MatureIn

LEMMA ConnectTipStep ==
  ASSUME PoolInv, NEW b \in Blocks, ConnectTip(b)
  PROVE  PoolInv'
<1> DEFINE C == Conf(chain)
           S == Outputs(C)
           v == b.vtx
           s == RemoveForBlock(b)
           h == nHeight + 1
<1>1. /\ stage = "idle" \/ stage = "connect"
      /\ UNCHANGED <<stage, job, vtx, vHashUpdate>> /\ ValidBlock(b)
      /\ pool' = s.pool /\ mapDeltas' = s.deltas /\ chain' = Append(chain, v) /\ nHeight' = b.height
  BY DEF ConnectTip, block
<1>2. stage # "resurrect" /\ stage' # "resurrect" /\ (Settled' => Settled)
  BY SMT, <1>1 DEF Settled
<1>3. /\ Types /\ ChainOk(chain) /\ nHeight = Len(chain)
      /\ Good(pool, mapDeltas, C, S, {}, {}) /\ (Settled => ValidIn(pool, chain, h))
  BY <1>2, Calm
<1>4. BlockOk(v, C) /\ v \in Seq(Tx) /\ b.height = Len(chain) + 1
  <2>1. BlockOk(v, C)
    BY <1>1, ValidBlockOk
  <2>2. v \in Seq(Tx)
    BY BlockAssumption
  <2> QED
    BY <1>1, <2>1, <2>2 DEF ValidBlock
<1>5. C = Confirmed /\ S = Spent
  BY ConfirmedIs
<1>6. Sourced(S, C)
  BY <1>3, ChainSourced DEF Types
<1> DEFINE C2 == C \cup Range(v)
<1>7. LoopOk(s, C2) /\ DOMAIN s.pool \subseteq DOMAIN pool
  <2>1. BlockOk(b.vtx, C) /\ Sourced(S, C) /\ S = Outputs(C) /\ Good(pool, mapDeltas, C, S, {}, {})
    BY <1>3, <1>4, <1>5, <1>6
  <2>2. b.vtx \in Seq(Tx) /\ mapDeltas \in [Tx -> Int]
    BY <1>3, <1>4 DEF Types
  <2>3. LoopOk(s, C \cup Range(b.vtx)) /\ DOMAIN s.pool \subseteq DOMAIN pool
    <3> HIDE DEF s
    <3>1. s = RemoveForBlock(b)
      BY DEF s
    <3> QED
      BY <2>1, <2>2, <3>1, RemoveForBlockOk
  <2> QED
    BY <1>5, <2>3
<1>8. /\ chain' \in Seq(Seq(Tx)) /\ Len(chain') = Len(chain) + 1
      /\ DOMAIN chain \subseteq DOMAIN chain' /\ \A g \in DOMAIN chain : chain'[g] = chain[g]
      /\ Conf(chain') = C2 /\ ChainOk(chain')
  <2>1. chain \in Seq(Seq(Tx)) /\ BlockOk(v, Conf(chain))
    BY <1>3, <1>4 DEF Types
  <2> HIDE DEF v
  <2> QED
    BY <1>1, <1>3, <1>4, <2>1, ChainAppend
<1> HIDE DEF C, S, v, s, h, C2
<1>9. Good(pool', mapDeltas', Conf(chain'), Outputs(Conf(chain')), {}, {}) /\ mapDeltas' \in [Tx -> Int]
  BY <1>1, <1>7, <1>8 DEF LoopOk
<1>10. Len(chain) \in Int /\ nHeight' = Len(chain) + 1 /\ nHeight' \in Int /\ h \in Int /\ nHeight' + 1 = h + 1
  <2>1. chain \in Seq(Seq(Tx))
    BY <1>3 DEF Types
  <2>2. Len(chain) \in Int
    BY SMT, <2>1
  <2>3. nHeight' = Len(chain) + 1
    BY <1>1, <1>4
  <2> QED
    BY SMT, <1>3, <2>2, <2>3 DEF h
<1>11. Types' /\ ChainOk(chain') /\ nHeight' = Len(chain')
  BY <1>1, <1>3, <1>8, <1>9, <1>10 DEF Types
<1>12. ASSUME Settled' PROVE ValidIn(pool', chain', nHeight' + 1)
  <2>1. ValidIn(pool, chain, h) /\ chain \in Seq(Seq(Tx))
    BY <1>2, <1>3, <1>12 DEF Types
  <2>2. \A x \in DOMAIN pool : x \notin CoinBase /\ x \in Tx
    BY <1>3 DEF Good, Shape, FeesInt
  <2>3. DOMAIN pool' \subseteq DOMAIN pool
    BY <1>1, <1>7
  <2>4. ValidIn(pool', chain', h + 1)
    BY <1>8, <1>10, <2>1, <2>2, <2>3, ValidLater
  <2> QED
    BY <1>10, <2>4
<1> QED
  BY <1>2, <1>9, <1>11, <1>12, Quiet

LEMMA DisconnectTipStep ==
  ASSUME PoolInv, NEW j, DisconnectTip(j)
  PROVE  PoolInv'
<1> DEFINE C == Conf(chain)
           S == Outputs(C)
           c == chain'
           b == vtx'
           F == Conf(c)
<1>1. /\ stage = "idle" \/ stage = "disconnect"
      /\ chain # <<>> /\ c = SubSeq(chain, 1, Len(chain) - 1) /\ b = chain[Len(chain)]
      /\ stage' = "resurrect" /\ vHashUpdate' = <<>> /\ UNCHANGED <<pool, mapDeltas, nHeight>>
  BY DEF DisconnectTip
<1>2. stage # "resurrect" /\ ~Settled'
  BY SMT, <1>1 DEF Settled
<1>3. Types /\ ChainOk(chain) /\ Good(pool, mapDeltas, C, S, {}, {})
  BY <1>2, Calm
<1>4. /\ c \in Seq(Seq(Tx)) /\ b \in Seq(Tx)
      /\ C = F \cup Range(b) /\ ChainOk(c) /\ BlockOk(b, F)
  <2>1. chain \in Seq(Seq(Tx))
    BY <1>3 DEF Types
  <2> HIDE DEF c, b
  <2> QED
    BY <1>1, <1>3, <2>1, ChainFront
<1>5. Sourced(S, C)
  BY <1>3, ChainSourced DEF Types
<1>6. Range(vHashUpdate') = {} /\ InOrder(pool, vHashUpdate') /\ vHashUpdate' \in Seq(Tx)
  BY <1>1, EmptyHashes
<1>7. Outputs(F) \subseteq S
  BY <1>4 DEF Outputs
<1>8. DOMAIN pool \in SUBSET Tx /\ \A x \in DOMAIN pool : x \notin C
  BY <1>3 DEF Good, Shape, FeesInt
<1>9. ASSUME NEW i \in S PROVE i[1] \notin DOMAIN pool
  BY <1>5, <1>8, <1>9, TxAssumption DEF Sourced
<1>10. ASSUME NEW k \in DOMAIN b PROVE b[k] \in C /\ Vin[b[k]] \subseteq S
  <2>1. b[k] \in C
    BY <1>4, <1>10 DEF Range
  <2> QED
    BY <2>1 DEF Outputs
<1> HIDE DEF C, S, b, F
<1>11. Good(pool, mapDeltas, F, Outputs(F), Range(b), {})
  <2>1. \A x \in DOMAIN pool : x \notin F /\ x \notin CoinBase
    BY <1>3, <1>4 DEF Good
  <2>2. ASSUME NEW x \in DOMAIN pool, NEW i \in Vin[x]
        PROVE  i[1] \in DOMAIN pool \/ ((i \in Base \/ i[1] \in F) /\ i \notin Outputs(F)) \/ i[1] \in Range(b)
    <3>1. i[1] \in DOMAIN pool \/ ((i \in Base \/ i[1] \in C) /\ i \notin S) \/ i[1] \in {}
      BY <1>3, <2>2 DEF Good
    <3>2. i \in Outputs(F) => i \in S
      BY <1>7
    <3>3. i[1] \in C => i[1] \in F \/ i[1] \in Range(b)
      BY <1>4
    <3> QED
      BY <3>1, <3>2, <3>3
  <2> QED
    BY <1>3, <2>1, <2>2 DEF Good
<1>12. Coming(pool, F, b, vHashUpdate')
  <2>1. ASSUME NEW k \in DOMAIN b
        PROVE  /\ b[k] \notin DOMAIN pool /\ b[k] \notin F
               /\ Spenders(pool, Vin[b[k]]) = {}
               /\ \A i \in Vin[b[k]] : i[1] \in DOMAIN pool => i[1] \in Range(vHashUpdate')
    <3>1. b[k] \notin DOMAIN pool /\ b[k] \notin F
      BY <1>4, <1>8, <1>10, <2>1 DEF BlockOk
    <3>2. ASSUME NEW y \in DOMAIN pool, NEW i \in Vin[y], i \in Vin[b[k]] PROVE FALSE
      <4>1. i \in S
        BY <1>10, <2>1, <3>2
      <4>2. i[1] \in DOMAIN pool \/ ((i \in Base \/ i[1] \in C) /\ i \notin S) \/ i[1] \in {}
        BY <1>3, <3>2 DEF Good
      <4> QED
        BY <1>9, <4>1, <4>2
    <3>3. \A i \in Vin[b[k]] : i[1] \notin DOMAIN pool
      BY <1>9, <1>10, <2>1
    <3> QED
      BY <3>1, <3>2, <3>3 DEF Spenders
  <2>2. ASSUME NEW k \in DOMAIN b, NEW m \in DOMAIN b
        PROVE  /\ m >= k => \A i \in Vin[b[k]] : i[1] # b[m]
               /\ m # k => b[m] # b[k] /\ Vin[b[m]] \cap Vin[b[k]] = {}
    BY <1>4, <2>2, BlockApart
  <2> QED
    BY <1>6, <2>1, <2>2 DEF Coming
<1>13. Types'
  BY <1>1, <1>3, <1>4, <1>6 DEF Types, b
<1>14. Left' = Range(b) /\ Held' = {}
  BY <1>1, <1>6 DEF Left, Held, b
<1>15. Good(pool', mapDeltas', Conf(chain'), Outputs(Conf(chain')), Left', Held')
  BY <1>1, <1>11, <1>14 DEF F
<1>16. Coming(pool', Conf(chain'), vtx', vHashUpdate')
  BY <1>1, <1>12 DEF F, b
<1> QED
  BY <1>1, <1>2, <1>4, <1>13, <1>15, <1>16 DEF PoolInv

\* What one transaction of the disconnected block leads to.
Returned(q, hashes) ==
    /\ Good(q, mapDeltas, Conf(chain), Outputs(Conf(chain)), Range(Tail(vtx)), Range(hashes))
    /\ Coming(q, Conf(chain), Tail(vtx), hashes)
    /\ hashes \in Seq(Tx)

LEMMA ResurrectStep ==
  ASSUME PoolInv, Resurrect
  PROVE  PoolInv'
<1> DEFINE C == Conf(chain)
           S == Outputs(C)
           t == Head(vtx)
           r == Tail(vtx)
           held == Range(vHashUpdate)
<1>1. /\ stage = "resurrect" /\ stage' = "resurrect" /\ vtx # <<>> /\ vtx' = r
      /\ UNCHANGED <<mapDeltas, chain, nHeight>>
      /\ \/ Acceptable(t) /\ pool' = Accepted(t) /\ vHashUpdate' = Append(vHashUpdate, t)
         \/ pool' = RemoveRecursive(pool, t) /\ vHashUpdate' = vHashUpdate
  BY DEF Resurrect
<1>2. /\ Types /\ ChainOk(chain) /\ Coming(pool, C, vtx, vHashUpdate)
      /\ Good(pool, mapDeltas, C, S, Range(vtx), held)
  BY <1>1 DEF PoolInv, Left, Held
<1>3. vtx \in Seq(Tx) /\ vHashUpdate \in Seq(Tx) /\ mapDeltas \in [Tx -> Int] /\ chain \in Seq(Seq(Tx))
  BY <1>2 DEF Types
<1>4. TailOf(vtx, r)
  BY <1>1, <1>3, SeqTail
<1>5. t = vtx[1] /\ 1 \in DOMAIN vtx /\ r \in Seq(Tx)
  BY <1>4 DEF TailOf
<1>6. t \in Tx /\ t \in Range(vtx)
  <2>1. DOMAIN vtx = 1 .. Len(vtx) /\ \A k \in 1 .. Len(vtx) : vtx[k] \in Tx
    BY <1>3, SeqLen
  <2> QED
    BY <1>5, <2>1 DEF Range
<1>7. Range(r) = Range(vtx) \ {t}
  <2>1. \A x : x \in Range(vtx) => x = t \/ x \in Range(r)
    BY <1>4, <1>5 DEF TailOf
  <2>2. \A x : x \in Range(r) => x \in Range(vtx)
    BY <1>4 DEF TailOf
  <2>3. t \notin Range(r)
    <3> SUFFICES ASSUME t \in Range(r) PROVE FALSE
      OBVIOUS
    <3>1. PICK k \in DOMAIN r : t = r[k]
      BY DEF Range
    <3>2. k + 1 \in DOMAIN vtx /\ r[k] = vtx[k + 1] /\ k + 1 # 1
      BY <1>4 DEF TailOf
    <3>3. vtx[k + 1] # vtx[1]
      BY <1>2, <1>5, <3>2 DEF Coming
    <3> QED
      BY <1>5, <3>1, <3>2, <3>3
  <2> QED
    BY <2>1, <2>2, <2>3
<1>8. /\ t \notin DOMAIN pool /\ t \notin C /\ Spenders(pool, Vin[t]) = {}
      /\ \A h \in held : \A i \in Vin[h] : i[1] \notin Range(vtx)
      /\ InOrder(pool, vHashUpdate)
  BY <1>2, <1>5 DEF Coming
<1>9. C = Confirmed /\ S = Spent
  BY ConfirmedIs
<1>10. Shape(pool)
  BY <1>2 DEF Good
<1> HIDE DEF C, S, t, r
<1>11. ASSUME Acceptable(t), NEW q, q = Accepted(t), NEW more, more = Append(vHashUpdate, t)
       PROVE  /\ Good(q, mapDeltas, C, S, Range(r), Range(more)) /\ Coming(q, C, r, more) /\ more \in Seq(Tx)
  <2> DEFINE R == Replaced(t)
             held2 == held \cup {t}
  <2>1. R = {}
    <3>1. Conflicts(t) = {}
      BY <1>8 DEF Conflicts
    <3>2. {} \in SUBSET DOMAIN pool /\ {} \subseteq {} /\ \A u \in {} : pool[u].children \subseteq {}
      OBVIOUS
    <3>3. CalculateDescendants(pool, {}) \subseteq {}
      BY SMT, <3>2, DescendantsLeast
    <3> QED
      BY <3>1, <3>3 DEF Replaced
  <2>2. /\ t \notin CoinBase /\ NewAncestors(pool, t) \cap Conflicts(t) = {}
        /\ \A i \in Vin[t] : i[1] \in DOMAIN pool \/ ((i \in Base \/ i[1] \in C) /\ i \notin S)
    BY <1>9, <1>11 DEF Acceptable, Checked, Conflicts, Unspent
  <2>3. Fits(t, C, S, held, held2)
    <3>1. ASSUME NEW y \in DOMAIN pool, NEW i \in Vin[y], i[1] = t PROVE t \in held2 /\ y \notin held2
      <4>1. y # t
        BY <1>8, <3>1
      <4>2. y \notin held
        BY <1>6, <1>8, <3>1
      <4> QED
        BY <4>1, <4>2
    <3>2. Replaced(t) \cap held = {}
      BY <2>1
    <3> HIDE DEF held, R
    <3> QED
      BY <2>2, <3>1, <3>2 DEF Fits
  <2>4. Good(q, mapDeltas, C, S, Range(vtx) \ {t}, held2) /\ DOMAIN q = (DOMAIN pool \ R) \cup {t}
    <3>1. Good(pool, mapDeltas, C, S, Range(vtx), held) /\ t \notin C /\ t \in Tx \ DOMAIN pool
      BY <1>2, <1>6, <1>8, <1>9
    <3> DEFINE V == Range(vtx)
    <3> HIDE DEF held, held2, V
    <3>2. Good(pool, mapDeltas, C, S, V, held)
      BY <3>1 DEF V
    <3>3. Good(q, mapDeltas, C, S, V \ {t}, held2) /\ DOMAIN q = (DOMAIN pool \ R) \cup {t}
      <4>1. MayEnter(t, C, S, V, held, held2)
        BY <1>3, <2>2, <2>3, <3>1, <3>2 DEF MayEnter
      <4>2. q = Accepted(t)
        BY <1>11
      <4>3. Entered(q, t, C, S, V, held2)
        BY <4>1, <4>2, AcceptGood
      <4> QED
        BY <4>3 DEF Entered
    <3> QED
      BY <3>3 DEF V
  <2>5. DOMAIN q = DOMAIN pool \cup {t}
    BY <2>1, <2>4
  <2>6. Coming(q, C, r, more) /\ Range(more) = Range(vHashUpdate) \cup {t} /\ more \in Seq(Tx)
    <3>1. r = Tail(vtx) /\ t = Head(vtx)
      BY DEF r, t
    <3> QED
      <4>1. ComesNext(pool, q, C, vtx, vHashUpdate, more)
        BY <1>1, <1>2, <1>3, <1>11, <2>5, <3>1 DEF ComesNext
      <4>2. Came(q, C, vtx, vHashUpdate, more)
        BY <4>1, ComingMore
      <4> QED
        BY <3>1, <4>2 DEF Came
  <2> QED
    BY <1>7, <1>9, <2>4, <2>6
<1>12. ASSUME NEW q, q = RemoveRecursive(pool, t)
       PROVE  Good(q, mapDeltas, C, S, Range(r), held) /\ Coming(q, C, r, vHashUpdate)
  <2> DEFINE V == Range(vtx)
  <2>1. Good(pool, mapDeltas, C, S, V, Range(vHashUpdate)) /\ t \in V /\ \A h \in Range(vHashUpdate) : \A i \in Vin[h] : i[1] \notin V
    BY <1>2, <1>6, <1>8
  <2> HIDE DEF V
  <2>2. /\ Good(q, mapDeltas, C, S, V \ {t}, Range(vHashUpdate))
        /\ DOMAIN q \subseteq DOMAIN pool /\ Range(vHashUpdate) \subseteq DOMAIN q
    <3>1. Refuses(pool, mapDeltas, C, S, V, vHashUpdate, t)
      BY <1>3, <1>8, <2>1 DEF Refuses
    <3>2. Refused(pool, mapDeltas, C, S, V, vHashUpdate, t, q)
      BY <1>12, <3>1, RefusedStep
    <3> QED
      BY <3>2 DEF Refused
  <2>3. Coming(q, C, r, vHashUpdate)
    <3>1. r = Tail(vtx)
      BY DEF r
    <3> QED
      BY <1>1, <1>2, <1>3, <2>2, <3>1, ComingLess
  <2> QED
    BY <1>7, <2>2, <2>3 DEF V
<1>13. Returned(pool', vHashUpdate')
  <2>1. CASE Acceptable(t) /\ pool' = Accepted(t) /\ vHashUpdate' = Append(vHashUpdate, t)
    BY <1>11, <2>1 DEF Returned, C, S, r
  <2>2. CASE pool' = RemoveRecursive(pool, t) /\ vHashUpdate' = vHashUpdate
    BY <1>3, <1>12, <2>2 DEF Returned, C, S, r
  <2> QED
    BY <1>1, <2>1, <2>2
<1>14. Types'
  BY <1>1, <1>2, <1>5, <1>13 DEF Types, Returned
<1>15. ~Settled'
  BY SMT, <1>1 DEF Settled
<1>16. Left' = Range(vtx') /\ Held' = Range(vHashUpdate')
  BY <1>1 DEF Left, Held
<1>17. /\ Good(pool', mapDeltas', Conf(chain'), Outputs(Conf(chain')), Left', Held')
       /\ Coming(pool', Conf(chain'), vtx', vHashUpdate')
  BY <1>1, <1>13, <1>16 DEF Returned, r
<1>18. ChainOk(chain')
  BY <1>1, <1>2
<1> QED
  BY <1>1, <1>14, <1>15, <1>17, <1>18 DEF PoolInv

LEMMA StutterStep ==
  ASSUME PoolInv, UNCHANGED vars
  PROVE  PoolInv'
<1>1. UNCHANGED <<pool, mapDeltas, chain, nHeight, stage, job, vtx, vHashUpdate>>
  BY DEF vars, block
<1>2. Types' /\ Left' = Left /\ Held' = Held /\ (Settled' <=> Settled)
  BY <1>1 DEF PoolInv, Types, Left, Held, Settled
<1> QED
  BY <1>1, <1>2 DEF PoolInv

\* Every call that changes the pool, and every step of the longer ones, keeps the
\* invariant.
THEOREM PoolKept == Spec => []PoolInv
<1>1. Init => PoolInv
  BY PoolInit
<1>2. PoolInv /\ [Next]_vars => PoolInv'
  <2> SUFFICES ASSUME PoolInv, [Next]_vars PROVE PoolInv'
    OBVIOUS
  <2>1. ASSUME NEW t \in Tx, AcceptToMemoryPool(t) PROVE PoolInv'
    BY <2>1, AcceptStep
  <2>2. ASSUME NEW t \in Prioritised, NEW d \in Deltas, PrioritiseTransaction(t, d) PROVE PoolInv'
    <3>1. t \in Tx /\ d \in Int
      BY <2>2, NumberAssumption
    <3> QED
      BY <2>2, <3>1, PrioritiseStep
  <2>3. CASE GetMinFee
    BY <2>3, MinFeeStep
  <2>4. CASE Expire
    BY <2>4, ExpireStep
  <2>5. CASE TrimToSize
    BY <2>5, TrimStep
  <2>6. CASE TrimDone
    BY <2>6, TrimDoneStep
  <2>7. ASSUME NEW b \in Blocks, ConnectTip(b) PROVE PoolInv'
    BY <2>7, ConnectTipStep
  <2>8. ASSUME NEW j \in {"activate", "invalidate"}, DisconnectTip(j) PROVE PoolInv'
    BY <2>8, DisconnectTipStep
  <2>9. CASE Resurrect
    BY <2>9, ResurrectStep
  <2>10. CASE DisconnectDone
    BY <2>10, DisconnectDoneStep
  <2>11. CASE StartConnect
    BY <2>11, StartConnectStep
  <2>12. CASE ConnectDone
    BY <2>12, ConnectDoneStep
  <2>13. CASE RemoveForReorg
    BY <2>13, ReorgStep
  <2>14. CASE UNCHANGED vars
    BY <2>14, StutterStep
  <2> QED
    BY <2>1, <2>2, <2>3, <2>4, <2>5, <2>6, <2>7, <2>8, <2>9, <2>10, <2>11, <2>12, <2>13, <2>14 DEF Next
<1> QED
  BY <1>1, <1>2, PTL DEF Spec

\* The totals of every entry are those of the entries its links reach, at every
\* step: also while a disconnected block's transactions come back without the
\* links to what spends them.
THEOREM TotalsFollowLinksHolds == Spec => []TotalsFollowLinks
<1>1. PoolInv => TotalsFollowLinks
  BY DEF PoolInv, Good, TotalsOk, Below, TotalsFollowLinks
<1> QED
  BY <1>1, PoolKept, PTL

\* With all the links, the ancestors are the same by links and by inputs.
LEMMA AncestorsTrue ==
  ASSUME LinksBy(pool, {}, {}), NEW t \in DOMAIN pool
  PROVE  TrueAncestors(t) = LinkedAncestors(pool, t)
<1>1. \A y \in DOMAIN pool : pool[y].parents = ParentsOf(pool, y)
  BY DEF LinksBy
<1> DEFINE Up(C) == pool[t].parents \subseteq C /\ \A y \in C : pool[y].parents \subseteq C
           In(C) == ParentsOf(pool, t) \subseteq C /\ \A y \in C : ParentsOf(pool, y) \subseteq C
<1>2. ASSUME NEW C \in SUBSET DOMAIN pool PROVE Up(C) <=> In(C)
  <2>1. \A y \in C : pool[y].parents = ParentsOf(pool, y)
    BY <1>1, <1>2
  <2>2. pool[t].parents = ParentsOf(pool, t)
    BY <1>1
  <2> QED
    BY <2>1, <2>2
<1>3. LinkedAncestors(pool, t) = {x \in DOMAIN pool : \A C \in SUBSET DOMAIN pool : Up(C) => x \in C}
  BY DEF LinkedAncestors, Closure
<1>4. TrueAncestors(t) = {x \in DOMAIN pool : \A C \in SUBSET DOMAIN pool : In(C) => x \in C}
  BY DEF TrueAncestors
<1> HIDE DEF Up, In
<1> QED
  BY <1>2, <1>3, <1>4

\* Whenever no block is being disconnected, every entry is linked to what it spends
\* from and what spends from it, and its totals and its fee are what CTxMemPool::check
\* would compute afresh.
THEOREM PoolExactHolds == Spec => []PoolExact
<1>1. PoolInv => PoolExact
  <2> SUFFICES ASSUME PoolInv, stage # "resurrect", NEW t \in DOMAIN pool
               PROVE  /\ pool[t].fee = Fee[t] + mapDeltas[t]
                      /\ pool[t].parents = ParentsOf(pool, t)
                      /\ pool[t].children = {x \in DOMAIN pool : t \in ParentsOf(pool, x)}
                      /\ pool[t].anc = Totals(pool, TrueAncestors(t) \cup {t})
                      /\ pool[t].desc = Totals(pool, {x \in DOMAIN pool : t \in TrueAncestors(x)} \cup {t})
    BY DEF PoolExact
  <2>1. Good(pool, mapDeltas, Conf(chain), Outputs(Conf(chain)), {}, {})
    BY Calm
  <2>2. Shape(pool) /\ TotalsOk(pool) /\ LinksBy(pool, {}, {}) /\ pool[t].fee = Fee[t] + mapDeltas[t]
    BY <2>1 DEF Good
  <2>3. \A y \in DOMAIN pool : pool[y].parents = ParentsOf(pool, y)
    BY <2>2 DEF LinksBy
  <2>4. pool[t].children = {x \in DOMAIN pool : t \in ParentsOf(pool, x)}
    BY <2>2, <2>3 DEF Shape
  <2>5. \A x \in DOMAIN pool : TrueAncestors(x) = LinkedAncestors(pool, x)
    BY <2>2, AncestorsTrue
  <2>6. {x \in DOMAIN pool : t \in TrueAncestors(x)} = Below(pool, t)
    BY <2>5 DEF Below
  <2>7. /\ pool[t].anc = Totals(pool, LinkedAncestors(pool, t) \cup {t})
        /\ pool[t].desc = Totals(pool, Below(pool, t) \cup {t})
    BY <2>2 DEF TotalsOk
  <2> QED
    BY <2>2, <2>3, <2>4, <2>5, <2>6, <2>7
<1> QED
  BY <1>1, PoolKept, PTL

\* removeForReorg finds the coins of every input that the pool does not make, and no
\* two entries spend the same output.
THEOREM InputsAvailableHolds == Spec => []InputsAvailable
<1>1. PoolInv => InputsAvailable
  <2> SUFFICES ASSUME PoolInv, stage \in {"reorg", "idle"}, NEW t \in DOMAIN pool, NEW i \in Vin[t]
               PROVE  (i[1] \in DOMAIN pool \/ Unspent(i)) /\ Spenders(pool, {i}) = {t}
    BY DEF InputsAvailable
  <2>1. stage # "resurrect"
    BY SMT
  <2>2. Good(pool, mapDeltas, Conf(chain), Outputs(Conf(chain)), {}, {})
    BY <2>1, Calm
  <2>3. i[1] \in DOMAIN pool \/ ((i \in Base \/ i[1] \in Conf(chain)) /\ i \notin Outputs(Conf(chain))) \/ i[1] \in {}
    BY <2>2 DEF Good
  <2>4. i[1] \in DOMAIN pool \/ Unspent(i)
    BY <2>3, ConfirmedIs DEF Unspent
  <2>5. ASSUME NEW x \in DOMAIN pool, i \in Vin[x] PROVE x = t
    <3>1. Vin[x] \cap Vin[t] # {}
      BY <2>5
    <3> QED
      BY <2>2, <2>5, <3>1 DEF Good
  <2>6. \A x : x \in Spenders(pool, {i}) <=> x = t
    BY <2>5 DEF Spenders
  <2> QED
    BY <2>4, <2>6
<1> QED
  BY <1>1, PoolKept, PTL

\* Between the calls every entry could be in the next block, after any number of
\* reorganisations and calls of invalidateblock.
THEOREM NextBlockValidHolds == Spec => []NextBlockValid
<1>1. PoolInv => NextBlockValid
  BY DEF PoolInv, Settled, ValidIn, MatureIn, Mature, NextBlockValid
<1> QED
  BY <1>1, PoolKept, PTL
=============================================================================
