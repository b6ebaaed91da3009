------------------------------ MODULE Mempool ------------------------------
(***************************************************************************)
(* The pool of unconfirmed transactions (txmempool.cpp) and the callers in *)
(* validation.cpp that keep it in step with the active chain: a            *)
(* transaction is accepted, replaces others, is given another fee, is      *)
(* evicted or expires, is confirmed by a block, or comes back from a block *)
(* that is disconnected.                                                   *)
(*                                                                         *)
(* All of these run under cs_main. A call that goes through several states *)
(* of the pool, such as a reorganisation, is a sequence of steps between   *)
(* which nothing else happens: stage says where it is.                     *)
(*                                                                         *)
(* Scripts, amounts and sizes on the wire are left out: a transaction is   *)
(* the outputs it spends, a size and a fee. Lock times are block heights,  *)
(* and the memory in use is the sum of the sizes.                          *)
(***************************************************************************)
EXTENDS MempoolEntries

CONSTANTS
    LockTime,           \* the height a transaction is final above
    Replaceable,        \* those that signal that they may be replaced
    LowPriority,        \* those that -relaypriority may refuse
    Old,                \* those that may outlive -mempoolexpiry
    Blocks,             \* blocks that may arrive: [height, vtx]
    Maturity,           \* nCoinbaseMaturity
    MaxReplaced,        \* maxDescendantsToVisit, 100
    MaxMempool,         \* -maxmempool
    Incremental,        \* incrementalRelayFee, per 1000 bytes
    Prioritised,        \* those that PrioritiseTransaction is used for
    Deltas,             \* fee deltas it is given
    MaxDelta            \* bound on the sum of a transaction's deltas

\* CheckBlock: the first transaction of a block is its only coinbase.
ASSUME BlockAssumption ==
    \A b \in Blocks : /\ b.vtx \in Seq(Tx)
                      /\ \A k \in DOMAIN b.vtx : b.vtx[k] \in CoinBase <=> k = 1

ASSUME NumberAssumption ==
    /\ LockTime \in [Tx -> Int] /\ Maturity \in Int
    /\ Prioritised \subseteq Tx /\ Deltas \subseteq Int

VARIABLES
    chain,              \* the blocks below pcoinsTip
    nHeight,            \* chainActive.Height()
    rolling,            \* rollingMinimumFeeRate
    blockSince,         \* blockSinceLastRollingFeeBump
    stage,              \* where the call that holds cs_main is
    job,                \* that call
    vtx,                \* transactions of the disconnected block still to be looked at
    vHashUpdate,        \* those that are back in the pool
    evicted             \* the highest fee rate evicted while blockSince is false

fees == <<rolling, blockSince, evicted>>
block == <<vtx, vHashUpdate>>
vars == <<pool, mapDeltas, chain, nHeight, fees, stage, job, block>>

-----------------------------------------------------------------------------
(* Coins and fees.                                                         *)

Confirmed == UNION {Range(chain[h]) : h \in DOMAIN chain}
Spent == UNION {Vin[t] : t \in Confirmed}

\* The output is in pcoinsTip.
Unspent(i) == (i \in Base \/ i[1] \in Confirmed) /\ i \notin Spent

\* An input of a block or transaction at this height is no immature coinbase.
Mature(i, height) ==
    i[1] \in CoinBase =>
       \E h \in DOMAIN chain : i[1] \in Range(chain[h]) /\ height - h >= Maturity

\* CheckFinalTx: the lock time against the height of the next block.
Final(t, height) == LockTime[t] < height

\* CFeeRate.
FeeRate(fee, size) == (fee * 1000) \div size
GetFee(rate, size) == IF rate > 0 /\ rate * size < 1000 THEN 1 ELSE (rate * size) \div 1000

\* GetMinFee, when no time has passed.
MinFee == IF ~blockSince \/ rolling = 0 THEN rolling ELSE Max({rolling, Incremental})

-----------------------------------------------------------------------------
Init ==
    /\ pool = [t \in {} |-> 0]
    /\ mapDeltas = [t \in Tx |-> 0]
    /\ chain = <<>>
    /\ nHeight = 0
    /\ rolling = 0 /\ blockSince = FALSE /\ evicted = 0
    /\ stage = "idle" /\ job = "none"
    /\ vtx = <<>> /\ vHashUpdate = <<>>

\* What AcceptToMemoryPoolWorker checks before it looks at what is replaced.
\* The height of chainActive decides finality, that of pcoinsTip maturity.
Checked(t) ==
    /\ t \notin CoinBase
    /\ Final(t, nHeight + 1)
    /\ t \notin DOMAIN pool
    /\ Spenders(pool, Vin[t]) \subseteq Replaceable
    /\ \A i \in Vin[t] : i[1] \in DOMAIN pool \/ Unspent(i)
    /\ Fee[t] + mapDeltas[t] >= GetFee(MinFee, Size[t])
    /\ WithinLimits(pool, t)
    /\ NewAncestors(pool, t) \cap Spenders(pool, Vin[t]) = {}
    /\ \A i \in Vin[t] : i[1] \notin DOMAIN pool => Mature(i, Len(chain) + 1)

\* The rules for a replacement.
MayReplace(t, direct, all) ==
    LET fee == Fee[t] + mapDeltas[t]
        replaced == Totals(pool, all).fees
    IN  /\ \A c \in direct : FeeRate(fee, Size[t]) > FeeRate(pool[c].fee, Size[c])
        /\ Sum(LAMBDA c : pool[c].desc.count, direct) <= MaxReplaced
        /\ \A i \in Vin[t] : i[1] \in DOMAIN pool => \E c \in direct : \E j \in Vin[c] : j[1] = i[1]
        /\ fee >= replaced + GetFee(Incremental, Size[t])

Acceptable(t) ==
    /\ Checked(t)
    /\ Conflicts(t) # {} =>
          MayReplace(t, Conflicts(t), CalculateDescendants(pool, Conflicts(t)))

\* A transaction arrives from a peer or the wallet. A refused one changes nothing.
AcceptToMemoryPool(t) ==
    /\ stage = "idle"
    /\ Acceptable(t)
    /\ pool' = Accepted(t)
    /\ stage' = "expire" /\ job' = "accept"
    /\ UNCHANGED <<mapDeltas, chain, nHeight, fees, block>>

\* The RPC command prioritisetransaction.
PrioritiseTransaction(t, d) ==
    /\ stage = "idle"
    /\ mapDeltas[t] + d \in -MaxDelta .. MaxDelta
    /\ mapDeltas' = [mapDeltas EXCEPT ![t] = @ + d]
    /\ pool' = IF t \in DOMAIN pool THEN Raised(t, d) ELSE pool
    /\ UNCHANGED <<chain, nHeight, fees, stage, job, block>>

\* Mutant: the rate decays without a block.
GetMinFeeAlways ==
    /\ stage = "idle"
    /\ rolling > 0
    /\ rolling' = IF rolling \div 2 < Incremental \div 2 THEN 0 ELSE rolling \div 2
    /\ UNCHANGED <<pool, mapDeltas, chain, nHeight, blockSince, evicted, stage, job, block>>

\* GetMinFee after some time: with a block since the last rise, the rate decays.
GetMinFee ==
    /\ stage = "idle"
    /\ blockSince /\ rolling > 0
    /\ rolling' = IF rolling \div 2 < Incremental \div 2 THEN 0 ELSE rolling \div 2
    /\ UNCHANGED <<pool, mapDeltas, chain, nHeight, blockSince, evicted, stage, job, block>>

-----------------------------------------------------------------------------
(* LimitMempoolSize: Expire, then TrimToSize.                              *)

\* The entries that are too old, whichever those are, with their descendants.
Expire ==
    /\ stage = "expire"
    /\ \E old \in SUBSET (Old \cap DOMAIN pool) :
          pool' = RemoveStaged(pool, CalculateDescendants(pool, old), FALSE)
    /\ stage' = "trim"
    /\ UNCHANGED <<mapDeltas, chain, nHeight, fees, job, block>>

Usage == Sum(LAMBDA t : Size[t], DOMAIN pool)

\* CompareTxMemPoolEntryByDescendantScore: the better of the entry's own rate and
\* that of its package decides.
PackageRate(t) == FeeRate(pool[t].desc.fees, pool[t].desc.size)
Score(t) == Max({PackageRate(t), FeeRate(pool[t].fee, Size[t])})

\* One round of TrimToSize, with trackPackageRemoved: of entries with the same score either may go first.
TrimToSize ==
    /\ stage = "trim"
    /\ Usage > MaxMempool
    /\ \E t \in DOMAIN pool :
          /\ \A x \in DOMAIN pool : Score(t) <= Score(x)
          /\ pool' = RemoveStaged(pool, CalculateDescendants(pool, {t}), FALSE)
          /\ IF PackageRate(t) + Incremental > rolling
             THEN rolling' = PackageRate(t) + Incremental /\ blockSince' = FALSE
             ELSE UNCHANGED <<rolling, blockSince>>
          /\ evicted' = IF blockSince' THEN 0 ELSE Max({evicted, PackageRate(t)})
    /\ UNCHANGED <<mapDeltas, chain, nHeight, stage, job, block>>

\* The pool is small enough. invalidateblock still has to call removeForReorg.
TrimDone ==
    /\ stage = "trim"
    /\ Usage <= MaxMempool
    /\ IF job = "invalidate"
       THEN stage' = "reorg" /\ UNCHANGED job
       ELSE stage' = "idle" /\ job' = "none"
    /\ UNCHANGED <<pool, mapDeltas, chain, nHeight, fees, block>>

-----------------------------------------------------------------------------
(* Blocks.                                                                 *)

\* What ConnectBlock checks, transaction by transaction.
ValidBlock(b) ==
    /\ b.height = Len(chain) + 1
    /\ \A k \in DOMAIN b.vtx :
          LET t == b.vtx[k]
              before == {b.vtx[j] : j \in 1 .. k - 1}
          IN  /\ t \notin Confirmed
              /\ Final(t, b.height)
              /\ \A i \in Vin[t] :
                    /\ Unspent(i) \/ (i[1] \in before)
                    /\ i \notin UNION {Vin[x] : x \in before}
                    /\ i[1] \notin before => Mature(i, b.height)

\* ConnectTip, alone or in the course of a reorganisation.
ConnectTip(b) ==
    /\ stage = "idle" \/ (stage = "connect" /\ job = "activate")
    /\ ValidBlock(b)
    /\ pool' = RemoveForBlock(b).pool
    /\ mapDeltas' = RemoveForBlock(b).deltas
    /\ blockSince' = TRUE
    /\ evicted' = 0
    /\ chain' = Append(chain, b.vtx)
    /\ nHeight' = b.height
    /\ UNCHANGED <<rolling, stage, job, block>>

\* ActivateBestChainStep or InvalidateBlock takes the tip off: DisconnectTip, up
\* to the flush of the coins. UpdateTip comes last.
DisconnectTip(j) ==
    /\ chain # <<>>
    /\ \/ stage = "idle"
       \/ stage = "disconnect" /\ job = j
    /\ job' = j
    /\ stage' = "resurrect"
    /\ chain' = SubSeq(chain, 1, Len(chain) - 1)
    /\ vtx' = chain[Len(chain)]
    /\ vHashUpdate' = <<>>
    /\ UNCHANGED <<pool, mapDeltas, nHeight, fees>>

\* One transaction of the disconnected block: back into the pool, whatever the
\* size of that, or out with all that depends on it.
Resurrect ==
    /\ stage = "resurrect" /\ vtx # <<>>
    /\ \E t \in {Head(vtx)}, priority \in IF Head(vtx) \in LowPriority THEN BOOLEAN ELSE {TRUE} :
           IF Acceptable(t) /\ priority
           THEN pool' = Accepted(t) /\ vHashUpdate' = Append(vHashUpdate, t)
           ELSE pool' = RemoveRecursive(pool, t) /\ UNCHANGED vHashUpdate
    /\ vtx' = Tail(vtx)
    /\ UNCHANGED <<mapDeltas, chain, nHeight, fees, stage, job>>

\* The end of DisconnectTip: UpdateTransactionsFromBlock and UpdateTip.
DisconnectDone ==
    /\ stage = "resurrect" /\ vtx = <<>>
    /\ pool' = UpdateTransactionsFromBlock(pool, vHashUpdate)
    /\ nHeight' = Len(chain)
    /\ stage' = "disconnect"
    /\ UNCHANGED <<mapDeltas, chain, fees, job, block>>

\* The last block is disconnected: the new ones follow, or LimitMempoolSize.
StartConnect ==
    /\ stage = "disconnect"
    /\ stage' = IF job = "invalidate" THEN "expire" ELSE "connect"
    /\ UNCHANGED <<pool, mapDeltas, chain, nHeight, fees, job, block>>

\* The new chain is connected, or a block of it turned out to be invalid.
ConnectDone ==
    /\ stage = "connect"
    /\ stage' = "reorg"
    /\ UNCHANGED <<pool, mapDeltas, chain, nHeight, fees, job, block>>

\* Mutant: the coinbases are not looked at again.
NoLongerFinal(t) == ~Final(t, nHeight + 1)

\* removeForReorg: an input that the pool does not make is looked up in the coins
\* of the tip.
NoLongerValid(t) ==
    \/ ~Final(t, nHeight + 1)
    \/ \E i \in Vin[t] : i[1] \notin DOMAIN pool /\ ~Mature(i, nHeight + 1)

RemoveForReorg ==
    /\ stage = "reorg"
    /\ pool' = RemoveStaged(pool, CalculateDescendants(pool, {t \in DOMAIN pool : NoLongerValid(t)}), FALSE)
    /\ IF job = "invalidate"
       THEN stage' = "idle" /\ job' = "none"
       ELSE stage' = "expire" /\ UNCHANGED job
    /\ UNCHANGED <<mapDeltas, chain, nHeight, fees, block>>

Next ==
    \/ \E t \in Tx : AcceptToMemoryPool(t)
    \/ \E t \in Prioritised, d \in Deltas : PrioritiseTransaction(t, d)
    \/ GetMinFee
    \/ Expire \/ TrimToSize \/ TrimDone
    \/ \E b \in Blocks : ConnectTip(b)
    \/ \E j \in {"activate", "invalidate"} : DisconnectTip(j)
    \/ Resurrect \/ DisconnectDone \/ StartConnect \/ ConnectDone \/ RemoveForReorg

Spec == Init /\ [][Next]_vars

-----------------------------------------------------------------------------
\* The ancestors of an entry by what the transactions spend, whatever the links say.
TrueAncestors(t) ==
    {x \in DOMAIN pool : \A C \in SUBSET DOMAIN pool :
       (ParentsOf(pool, t) \subseteq C /\ \A y \in C : ParentsOf(pool, y) \subseteq C) => x \in C}

\* The pool as CTxMemPool::check has it: every entry is linked to the entries it
\* spends from and that spend from it, and its totals are those of the entry and
\* all its ancestors or descendants, however the entries came in.
PoolExact ==
    stage # "resurrect" =>
       \A t \in DOMAIN pool :
          /\ pool[t].fee = Fee[t] + mapDeltas[t]
          /\ pool[t].parents = ParentsOf(pool, t)
          /\ pool[t].children = {x \in DOMAIN pool : t \in ParentsOf(pool, x)}
          /\ pool[t].anc = Totals(pool, TrueAncestors(t) \cup {t})
          /\ pool[t].desc = Totals(pool, {x \in DOMAIN pool : t \in TrueAncestors(x)} \cup {t})

\* "the set of ancestors reachable via mapLinks will be the same as the set of
\* ancestors whose packages include this transaction": while a block is being
\* disconnected the links are incomplete, and the totals follow the links.
TotalsFollowLinks ==
    \A t \in DOMAIN pool :
       /\ pool[t].anc = Totals(pool, LinkedAncestors(pool, t) \cup {t})
       /\ pool[t].desc = Totals(pool, {x \in DOMAIN pool : t \in LinkedAncestors(pool, x)} \cup {t})

\* removeForReorg dereferences the coins of every input the pool does not make:
\* they are there, and no two entries spend the same output.
InputsAvailable ==
    stage \in {"reorg", "idle"} =>
       \A t \in DOMAIN pool : \A i \in Vin[t] :
          /\ i[1] \in DOMAIN pool \/ Unspent(i)
          /\ Spenders(pool, {i}) = {t}

\* Between the calls the pool holds nothing that the next block could not: the
\* locks have passed and the coinbases are mature at its height, after every
\* reorganisation and invalidateblock.
NextBlockValid ==
    stage = "idle" =>
       \A t \in DOMAIN pool :
          /\ Final(t, nHeight + 1)
          /\ \A i \in Vin[t] : i[1] \notin DOMAIN pool => Mature(i, nHeight + 1)

\* TrimToSize: "we don't allow txn to enter mempool with feerate equal to txn
\* which were removed with no block in between", as long as the rate has not
\* begun to decay.
NoCheapReentry ==
    [][\A t \in DOMAIN pool' \ DOMAIN pool :
          stage = "idle" /\ ~blockSince => FeeRate(Fee[t] + mapDeltas[t], Size[t]) > evicted]_vars
=============================================================================
