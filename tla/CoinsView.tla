----------------------------- MODULE CoinsView -----------------------------
(***************************************************************************)
(* The coins database and its caches: CCoinsViewDB, the cache pcoinsTip    *)
(* over it, and the cache that ConnectTip and DisconnectTip put over       *)
(* pcoinsTip for one block. Blocks are applied and undone input by input   *)
(* and output by output, other code reads through pcoinsTip, entries that  *)
(* are not modified may be dropped, FlushStateToDisk writes everything,    *)
(* and the node may go down at any time.                                   *)
(*                                                                         *)
(* All of this runs under cs_main. A block of the chain is the sequence    *)
(* txs of its transactions, the coinbase first, each with the undo data of *)
(* its inputs; with it, coins records the unspent outputs after the block. *)
(* A block's identity includes its ancestors: it is the chain that ends in *)
(* it.                                                                     *)
(***************************************************************************)
EXTENDS Integers, Sequences, FiniteSets

CONSTANTS
    Tx,                 \* transactions, by their hash
    Out,                \* output numbers
    CoinBase,           \* the coinbase transactions
    Input,              \* of each transaction: the outputs <<tx, n>> it spends, in order
    Output,             \* of each transaction: the spendable ones of its outputs
    Maturity,           \* blocks before the output of a coinbase may be spent
    MaxBlocks,          \* bound on the length of the chain
    MaxSeen,            \* bound on the number of blocks with an nUndoPos
    MaxFile,            \* bound on nLastBlockFile
    NONE

ASSUME CoinsAssumption ==
    /\ CoinBase \subseteq Tx
    /\ Input \in [Tx -> Seq(Tx \X Out)] /\ \A tx \in CoinBase : Input[tx] = <<>>
    /\ Output \in [Tx -> SUBSET Out]
    /\ Maturity \in Nat /\ MaxBlocks \in Nat /\ MaxSeen \in Nat /\ MaxFile \in Nat

\* CheckTransaction: a transaction other than a coinbase spends something, and nothing
\* twice.
ASSUME InputAssumption ==
    \A tx \in Tx : /\ tx \notin CoinBase => Input[tx] # <<>>
                   /\ \A i, j \in 1 .. Len(Input[tx]) : Input[tx][i] = Input[tx][j] => i = j

\* NONE is no transaction, no coin and no entry of a cache.
ASSUME NoneAssumption ==
    LET coin == [outs : SUBSET Out, height : Nat]
    IN  NONE \notin Tx \cup coin \cup [coins : coin, dirty : BOOLEAN, fresh : BOOLEAN]

VARIABLES
    db,                 \* the database: a coin for each transaction, Gone if it has none
    tip,                \* pcoinsTip: NONE or an entry for each transaction
    view,               \* the cache of the block being applied or undone
    chain,              \* the chain up to pcoinsTip's hashBlock, without the genesis block
    dbChain,            \* the chain up to DB_BEST_BLOCK
    hasUndo,            \* blocks with an nUndoPos
    indexed,            \* blocks with an nUndoPos in the block index on disk
    pending,            \* undo data that no FileCommit has reached: the block, the file,
                        \* and whether that was not the last one when they were written
    nLastBlockFile,     \* the block file that blocks are stored in
    dbLastFile,         \* DB_LAST_BLOCK, its value in the block index on disk
    job,                \* "idle", "connect", "disconnect" or "flush"
    work,               \* the transactions of the block that are applied
    cur,                \* the transaction that is being applied or undone, or NONE
    undo,               \* the undo data of its inputs that are spent
    fClean              \* DisconnectBlock found everything as it expects it

caches == <<db, tip, view>>
files == <<dbChain, hasUndo, indexed, pending, nLastBlockFile, dbLastFile>>
vars == <<caches, chain, files, job, work, cur, undo, fClean>>

Gone == [outs |-> {}, height |-> 0]
IsPruned(coin) == coin.outs = {}
Norm(coin) == IF IsPruned(coin) THEN Gone ELSE coin

Empty == [tx \in Tx |-> NONE]

-----------------------------------------------------------------------------
(* Operations of a cache. What its base returns for the transaction, a coin *)
(* or NONE, is passed as below.                                             *)

\* Mutant: whether the base has unspent outputs is not asked.
FromBaseFresh(below) ==
    [coins |-> IF below = NONE THEN Gone ELSE below, dirty |-> FALSE, fresh |-> TRUE]

\* The entry that FetchCoins and ModifyCoins make from what the base has.
FromBase(below) ==
    [coins |-> IF below = NONE THEN Gone ELSE below,
     dirty |-> FALSE,
     fresh |-> below = NONE \/ IsPruned(below)]

\* FetchCoins: nothing is cached for a transaction the base does not know.
Fetch(cache, tx, below) ==
    IF cache[tx] # NONE \/ below = NONE THEN cache
    ELSE [cache EXCEPT ![tx] = FromBase(below)]

GetCoins(cache, tx, below) == IF cache[tx] # NONE THEN cache[tx].coins ELSE below

\* Mutant: an empty entry is dropped without asking whether the base has one.
SettleAlways(cache, tx, e) == [cache EXCEPT ![tx] = IF IsPruned(e.coins) THEN NONE ELSE e]

\* ~CCoinsModifier: an empty entry the base has no need to know of is dropped.
Settle(cache, tx, e) ==
    [cache EXCEPT ![tx] = IF e.fresh /\ IsPruned(e.coins) THEN NONE ELSE e]

\* ModifyCoins, and an assignment of coin.
ModifyCoins(cache, tx, below, coin) ==
    LET e == IF cache[tx] # NONE THEN cache[tx] ELSE FromBase(below)
    IN  Settle(cache, tx, [e EXCEPT !.coins = coin, !.dirty = TRUE])

\* When ModifyNewCoins may mark the entry fresh.
FreshNew(e, coinbase) == e.fresh \/ (~coinbase /\ ~e.dirty)

\* ModifyNewCoins, and FromTx.
ModifyNewCoins(cache, tx, coinbase, coin) ==
    LET e == IF cache[tx] # NONE THEN cache[tx]
             ELSE [coins |-> Gone, dirty |-> FALSE, fresh |-> FALSE]
    IN  Settle(cache, tx, [coins |-> coin, dirty |-> TRUE, fresh |-> FreshNew(e, coinbase)])

\* Mutant: what is fresh in the child becomes fresh in the parent.
MergeKeepsFresh(us, e) ==
    CASE ~e.dirty -> us
      [] e.dirty /\ us = NONE -> [e EXCEPT !.dirty = TRUE]
      [] e.dirty /\ us # NONE ->
            IF us.fresh /\ IsPruned(e.coins) THEN NONE
            ELSE [coins |-> e.coins, dirty |-> TRUE, fresh |-> us.fresh \/ e.fresh]

\* BatchWrite of one entry e of the child into the parent's entry us.
Merge(us, e) ==
    CASE ~e.dirty -> us
      [] e.dirty /\ us = NONE ->
            IF e.fresh /\ IsPruned(e.coins) THEN NONE
            ELSE [coins |-> e.coins, dirty |-> TRUE, fresh |-> e.fresh]
      [] e.dirty /\ us # NONE ->
            IF us.fresh /\ IsPruned(e.coins) THEN NONE
            ELSE [coins |-> e.coins, dirty |-> TRUE, fresh |-> us.fresh]

BatchWrite(parent, child) ==
    [tx \in Tx |-> IF child[tx] = NONE THEN parent[tx] ELSE Merge(parent[tx], child[tx])]

\* Mutant: fresh entries are thought not to matter to the database.
WriteDbNotFresh(child) ==
    [tx \in Tx |-> IF child[tx] # NONE /\ child[tx].dirty /\ ~child[tx].fresh
                   THEN Norm(child[tx].coins) ELSE db[tx]]

\* CCoinsViewDB::BatchWrite.
WriteDb(child) ==
    [tx \in Tx |-> IF child[tx] # NONE /\ child[tx].dirty THEN Norm(child[tx].coins)
                   ELSE db[tx]]

-----------------------------------------------------------------------------
\* What each view answers.
DbGet(tx) == IF IsPruned(db[tx]) THEN NONE ELSE db[tx]
TipGet(tx) == GetCoins(tip, tx, DbGet(tx))
ViewGet(tx) == GetCoins(view, tx, TipGet(tx))

OrGone(coin) == IF coin = NONE THEN Gone ELSE Norm(coin)
DiskMap == db
TipMap == [tx \in Tx |-> OrGone(TipGet(tx))]
BlockMap == [tx \in Tx |-> OrGone(ViewGet(tx))]

\* A read through the block's view fills both caches; one through pcoinsTip, that.
ReadTip(tx) == tip' = Fetch(tip, tx, DbGet(tx))

\* ModifyCoins through the block's view; it reads the base if it has no entry.
ModifyView(tx, coin) ==
    /\ view' = ModifyCoins(view, tx, TipGet(tx), coin)
    /\ IF view[tx] = NONE THEN ReadTip(tx) ELSE UNCHANGED tip

-----------------------------------------------------------------------------
Init ==
    /\ db = [tx \in Tx |-> Gone]
    /\ tip = Empty
    /\ view = Empty
    /\ chain = <<>> /\ dbChain = <<>>
    /\ hasUndo = {} /\ indexed = {} /\ pending = {}
    /\ nLastBlockFile = 0 /\ dbLastFile = 0
    /\ job = "idle"
    /\ work = <<>>
    /\ cur = NONE
    /\ undo = <<>>
    /\ fClean = TRUE

\* ConnectTip: a view for the next block.
BeginConnect ==
    /\ job = "idle"
    /\ Len(chain) < MaxBlocks
    /\ job' = "connect"
    /\ UNCHANGED <<caches, chain, files, work, cur, undo, fClean>>

\* Mutant: the inputs are looked up as they were before the block.
InputsOkTip(tx) == \A i \in 1 .. Len(Input[tx]) : Input[tx][i][2] \in TipMap[Input[tx][i][1]].outs

\* HaveInputs and CheckTxInputs.
InputsOk(tx) ==
    \A i \in 1 .. Len(Input[tx]) :
       LET o == Input[tx][i]
           coin == BlockMap[o[1]]
       IN  /\ o[2] \in coin.outs
           /\ o[1] \in CoinBase => Len(chain) + 1 - coin.height >= Maturity

\* BIP 30: before the block, no transaction of this hash has unspent outputs.
MayCreate(tx) == IsPruned(TipMap[tx])

\* The next transaction of the block passes the checks, which read its own coins
\* through both caches.
BeginTx(tx) ==
    /\ job = "connect" /\ cur = NONE
    /\ (work = <<>>) = (tx \in CoinBase)
    /\ MayCreate(tx)
    /\ InputsOk(tx)
    /\ view' = Fetch(view, tx, TipGet(tx))
    /\ IF view[tx] = NONE THEN ReadTip(tx) ELSE UNCHANGED tip
    /\ cur' = tx
    /\ UNCHANGED <<db, chain, files, job, work, undo, fClean>>

\* Mutant: the undo data never say where the transaction was.
UndoNoHeight(coin, n) == [n |-> n, height |-> 0]

\* The undo data of an output: with the height, if it is the last one.
UndoFor(coin, n) == [n |-> n, height |-> IF coin.outs = {n} THEN coin.height ELSE 0]

\* UpdateCoins: the next input is spent.
SpendInput ==
    /\ job = "connect" /\ cur # NONE /\ Len(undo) < Len(Input[cur])
    /\ LET o == Input[cur][Len(undo) + 1]
           coin == ViewGet(o[1])
       IN  /\ ModifyView(o[1], [coin EXCEPT !.outs = @ \ {o[2]}])
           /\ undo' = Append(undo, UndoFor(coin, o[2]))
    /\ UNCHANGED <<db, chain, files, job, work, cur, fClean>>

\* UpdateCoins: with the inputs spent, the outputs are added.
AddOutputs ==
    /\ job = "connect" /\ cur # NONE /\ Len(undo) = Len(Input[cur])
    /\ view' = ModifyNewCoins(view, cur, cur \in CoinBase,
                              [outs |-> Output[cur], height |-> Len(chain) + 1])
    /\ work' = Append(work, [tx |-> cur, undo |-> undo])
    /\ cur' = NONE
    /\ undo' = <<>>
    /\ UNCHANGED <<db, tip, chain, files, job, fClean>>

\* The undo data of a block are written once, into the undo file that goes with the
\* file its data are in (pindex->nFile): the last one, or an earlier one if others were
\* stored after the block and before it is connected.
WriteUndo(b) ==
    IF b \in hasUndo THEN UNCHANGED <<hasUndo, pending>>
    ELSE /\ Cardinality(hasUndo) < MaxSeen
         /\ hasUndo' = hasUndo \cup {b}
         /\ \E nFile \in 0 .. nLastBlockFile :
               pending' = pending \cup {<<b, nFile, nFile # nLastBlockFile>>}

\* ConnectTip: the undo data are written, the view goes into pcoinsTip, and the
\* block onto the chain.
EndConnect ==
    /\ job = "connect" /\ cur = NONE /\ work # <<>>
    /\ tip' = BatchWrite(tip, view)
    /\ view' = Empty
    /\ chain' = Append(chain, [txs |-> work, coins |-> BlockMap])
    /\ WriteUndo(chain')
    /\ job' = "idle"
    /\ work' = <<>>
    /\ UNCHANGED <<db, dbChain, indexed, nLastBlockFile, dbLastFile, cur, undo, fClean>>

\* ConnectBlock fails, at any point: the view is thrown away.
AbortConnect ==
    /\ job = "connect"
    /\ view' = Empty
    /\ job' = "idle"
    /\ work' = <<>>
    /\ cur' = NONE
    /\ undo' = <<>>
    /\ UNCHANGED <<db, tip, chain, files, fClean>>

-----------------------------------------------------------------------------
\* DisconnectTip: the last block, from its last transaction on.
BeginDisconnect ==
    /\ job = "idle" /\ chain # <<>>
    /\ job' = "disconnect"
    /\ work' = chain[Len(chain)].txs
    /\ fClean' = TRUE
    /\ UNCHANGED <<caches, chain, files, cur, undo>>

\* DisconnectBlock: the outputs must be as the transaction made them; they go.
RemoveOutputs ==
    /\ job = "disconnect" /\ undo = <<>> /\ work # <<>>
    /\ LET last == work[Len(work)]
           made == Norm([outs |-> Output[last.tx], height |-> Len(chain)])
       IN  /\ fClean' = (fClean /\ BlockMap[last.tx] = made)
           /\ ModifyView(last.tx, Gone)
           /\ cur' = last.tx
           /\ undo' = last.undo
    /\ work' = SubSeq(work, 1, Len(work) - 1)
    /\ UNCHANGED <<db, chain, files, job>>

\* ApplyTxInUndo: inputs come back, the last one first.
RestoreInput ==
    /\ job = "disconnect" /\ undo # <<>>
    /\ LET tx == Input[cur][Len(undo)][1]
           u == undo[Len(undo)]
           coin == BlockMap[tx]
           base == IF u.height # 0 THEN [outs |-> {}, height |-> u.height] ELSE coin
       IN  /\ fClean' = (fClean /\ (u.height # 0) = IsPruned(coin) /\ u.n \notin base.outs)
           /\ ModifyView(tx, [base EXCEPT !.outs = @ \cup {u.n}])
    /\ undo' = SubSeq(undo, 1, Len(undo) - 1)
    /\ UNCHANGED <<db, chain, files, job, work, cur>>

\* DisconnectTip: the view goes into pcoinsTip, unless something did not match.
EndDisconnect ==
    /\ job = "disconnect" /\ undo = <<>> /\ work = <<>>
    /\ tip' = IF fClean THEN BatchWrite(tip, view) ELSE tip
    /\ chain' = IF fClean THEN SubSeq(chain, 1, Len(chain) - 1) ELSE chain
    /\ view' = Empty
    /\ job' = "idle"
    /\ cur' = NONE
    /\ UNCHANGED <<db, files, work, undo, fClean>>

-----------------------------------------------------------------------------
\* AcceptToMemoryPool, the RPCs and the miner read through pcoinsTip.
Read(tx) ==
    /\ job = "idle"
    /\ ReadTip(tx)
    /\ UNCHANGED <<db, view, chain, files, job, work, cur, undo, fClean>>

MayUncache(e) == e # NONE /\ ~e.dirty /\ ~e.fresh

\* Uncache, after a transaction was not accepted to the pool.
Uncache(tx) ==
    /\ job = "idle"
    /\ MayUncache(tip[tx])
    /\ tip' = [tip EXCEPT ![tx] = NONE]
    /\ UNCHANGED <<db, view, chain, files, job, work, cur, undo, fClean>>

\* Mutant: no FileCommit.
FlushNothing == UNCHANGED pending

\* FlushBlockFile: the last block file and its undo file reach the disk.
FlushBlockFile == pending' = {p \in pending : p[2] # nLastBlockFile}

\* FindBlockPos: blocks are stored in the next file from now on.
NextFile ==
    /\ job = "idle"
    /\ nLastBlockFile < MaxFile
    /\ FlushBlockFile
    /\ nLastBlockFile' = nLastBlockFile + 1
    /\ UNCHANGED <<caches, chain, dbChain, hasUndo, indexed, dbLastFile, job, work, cur, undo,
                   fClean>>

\* FlushStateToDisk writes the block files and the block index ...
WriteIndex ==
    /\ job = "idle"
    /\ FlushBlockFile
    /\ indexed' = hasUndo
    /\ dbLastFile' = nLastBlockFile
    /\ job' = "flush"
    /\ UNCHANGED <<caches, chain, dbChain, hasUndo, nLastBlockFile, work, cur, undo, fClean>>

\* ... which may be all, when it is only time for that ...
EndWrite ==
    /\ job = "flush"
    /\ job' = "idle"
    /\ UNCHANGED <<caches, chain, files, work, cur, undo, fClean>>

\* ... and then the coins, with the best block, in one batch.
FlushCoins ==
    /\ job = "flush"
    /\ db' = WriteDb(tip)
    /\ tip' = Empty
    /\ dbChain' = chain
    /\ job' = "idle"
    /\ UNCHANGED <<view, chain, hasUndo, indexed, pending, nLastBlockFile, dbLastFile, work,
                   cur, undo, fClean>>

\* The node goes down and comes up with what is on disk.
Restart ==
    /\ tip' = Empty
    /\ view' = Empty
    /\ chain' = dbChain
    /\ hasUndo' = indexed
    /\ pending' = {p \in pending : p[1] \in indexed}
    /\ nLastBlockFile' = dbLastFile
    /\ job' = "idle"
    /\ work' = <<>>
    /\ cur' = NONE
    /\ undo' = <<>>
    /\ UNCHANGED <<db, dbChain, indexed, dbLastFile, fClean>>

Next ==
    \/ BeginConnect \/ SpendInput \/ AddOutputs \/ EndConnect \/ AbortConnect
    \/ BeginDisconnect \/ RemoveOutputs \/ RestoreInput \/ EndDisconnect
    \/ \E tx \in Tx : BeginTx(tx) \/ Read(tx) \/ Uncache(tx)
    \/ NextFile \/ WriteIndex \/ EndWrite \/ FlushCoins \/ Restart

Spec == Init /\ [][Next]_vars

-----------------------------------------------------------------------------
Coin == {c \in [outs : SUBSET Out, height : 0 .. MaxBlocks] : IsPruned(c) => c = Gone}
Entry == [coins : [outs : SUBSET Out, height : 0 .. MaxBlocks],
          dirty : BOOLEAN, fresh : BOOLEAN]
Undo == [n : Out, height : 0 .. MaxBlocks]

IsTx(t) == t.tx \in Tx /\ t.undo \in Seq(Undo)
IsBlock(b) == b.coins \in [Tx -> Coin] /\ \A i \in 1 .. Len(b.txs) : IsTx(b.txs[i])

\* The state is well typed; the database has no transaction without outputs.
TypeOK ==
    /\ db \in [Tx -> Coin]
    /\ tip \in [Tx -> Entry \cup {NONE}] /\ view \in [Tx -> Entry \cup {NONE}]
    /\ \A c \in {chain, dbChain} : \A i \in 1 .. Len(c) : IsBlock(c[i])
    /\ indexed \subseteq hasUndo
    /\ \A p \in pending : p[1] \in hasUndo /\ p[2] \in 0 .. nLastBlockFile
    /\ nLastBlockFile \in 0 .. MaxFile /\ dbLastFile \in 0 .. nLastBlockFile
    /\ job \in {"idle", "connect", "disconnect", "flush"}
    /\ \A i \in 1 .. Len(work) : IsTx(work[i])
    /\ cur \in Tx \cup {NONE} /\ undo \in Seq(Undo)
    /\ fClean \in BOOLEAN

C == INSTANCE Coins WITH block <- BlockMap, tip <- TipMap, disk <- DiskMap

\* The caches implement the three sets of unspent outputs of Coins: what FetchCoins,
\* ModifyCoins, ModifyNewCoins, BatchWrite, Uncache and the database answer together is
\* never changed by a read, by dropping or by writing back an entry.
CoinsSpec == C!Spec

\* The unspent outputs after a chain.
CoinsAfter(c) == IF c = <<>> THEN [tx \in Tx |-> Gone] ELSE c[Len(c)].coins

\* DisconnectBlock takes pcoinsTip back to exactly the unspent outputs, with their
\* heights, from which ConnectBlock started.
UndoExact == job = "idle" => TipMap = CoinsAfter(chain)

\* What is on disk is the set of unspent outputs after the block that the database
\* names as its best block, whenever the node goes down.
DiskExact == DiskMap = CoinsAfter(dbChain)

\* DisconnectBlock and ApplyTxInUndo never find anything else than they expect ("added
\* transaction mismatch", "undo data overwriting existing transaction", ...).
UndoClean == fClean

\* What the flags say of an entry: the base of a fresh entry has no unspent outputs of
\* the transaction, and an entry that is not dirty has what its base has.
FlagsSound(cache, Base(_)) ==
    \A tx \in Tx : LET e == cache[tx] IN
        e # NONE => /\ e.fresh => IsPruned(OrGone(Base(tx)))
                    /\ ~e.dirty => Norm(e.coins) = OrGone(Base(tx))

\* The flags of both caches are sound; in particular BatchWrite never throws "FRESH flag
\* misapplied to cache entry for base transaction with spendable outputs".
FreshSound == FlagsSound(view, TipGet) /\ FlagsSound(tip, DbGet)

\* UpdateCoins never finds an input spent, which it asserts, and ModifyNewCoins never
\* finds unspent outputs of a transaction that is not a coinbase, for which it throws.
NeverThrows ==
    job = "connect" /\ cur # NONE =>
        /\ \A i \in Len(undo) + 1 .. Len(Input[cur]) :
              Input[cur][i][2] \in BlockMap[Input[cur][i][1]].outs
        /\ cur \notin CoinBase /\ view[cur] # NONE => IsPruned(view[cur].coins)

\* When the coins database names a block as part of its chain, the block index on disk
\* knows where the undo data of the block are, and they are on disk themselves, so that
\* the block can be disconnected after a restart; unless they were written into a block
\* file that was not the last one any more, which FlushBlockFile never commits.
DiskUndoable ==
    \A n \in 1 .. Len(dbChain) : LET b == SubSeq(dbChain, 1, n) IN
        b \in indexed /\ \A p \in pending : p[1] = b => p[3]

\* "First make sure all block and undo data is flushed to disk."
UndoSynced ==
    \A n \in 1 .. Len(dbChain) : \A p \in pending : p[1] # SubSeq(dbChain, 1, n)
=============================================================================
