# A TLA+ model of the Pqcoin node

This directory models parts of the Pqcoin node (`src/`, a descendant of Dogecoin
and Bitcoin Core 0.14) in TLA+. TLC checks the models on small instances and
TLAPS proves the central invariants for all of them. Every definition that models
code has an entry under `map` in `PROJECT.json` with the lines it stands for.

## The system and its parts

A node receives headers, blocks and transactions from its peers, keeps a tree of
all headers it knows, decides which chain is best, and maintains the set of unspent
transaction outputs ("coins") of that chain, in memory and on disk. Pqcoin adds
merged mining with two kinds of parent chains, Litecoin-like and Bitcoin-like, each
with a difficulty of its own that is computed from how many blocks of each kind the
last periods had.

| Part | Code | Model |
|---|---|---|
| Block index, choice and activation of the best chain, operator's commands | `validation.cpp`, `chain.*`, `rpc/blockchain.cpp` | `BlockTree` |
| Coins caches and database, undo data, flushing, restart | `coins.*`, `txdb.cpp`, `validation.cpp` | `CoinsView`, abstract `Coins` |
| Parallel script checks | `checkqueue.h` | `CheckQueue` |
| Counters and histories behind the two difficulties | end of `ProcessNewBlock`, `pqcoin.cpp`, `miner.cpp`, `rpc/mining.cpp` | `MergedMining` |
| Memory pool and its upkeep when the chain changes | `txmempool.*`, `validation.cpp` | `MempoolEntries`, `Mempool` |
| Block download: which block is asked for from which peer | `net_processing.cpp` | `BlockDownload` |
| Templates for merge miners | `rpc/mining.cpp`, threads of `bitcoind.cpp` | `AuxTemplates` |
| Integer arithmetic of the merged-mining retarget | `pqcoin.cpp`, `arith_uint256.cpp` | `Retarget` |
| Scheduler of background tasks | `scheduler.*` | `Scheduler` |
| Everything else | | see "Not modelled" |

How they interact: `ProcessNewBlock` stores a block (`BlockTree`), calls
`ActivateBestChain`, which connects and disconnects blocks; each goes through
`ConnectBlock` or `DisconnectBlock` on a cache of its own over `pcoinsTip`
(`CoinsView`), and the scripts of its transactions through the check queue
(`CheckQueue`). `BlockTree` takes the outcome of `ConnectBlock` as a fixed verdict
per block, `CoinsView` takes the order of blocks as arbitrary, and `CheckQueue` takes
the verdict of one script as fixed; so each module assumes no more of the others than
the code's interface says. After activation `ProcessNewBlock` updates the counters
that the next difficulty is computed from (`MergedMining`, `Retarget`). Blocks reach
`ProcessNewBlock` from peers (`BlockDownload`) and from miners, who get their work from
`AuxTemplates`. Each block connected or disconnected changes the memory pool
(`Mempool`). `BlockDownload` sees of the block index only which blocks are known,
stored and valid; `Mempool` sees of the chain the transactions of its blocks.

## The modules

### BlockTree

State: `mapBlockIndex` (`index`), the status bits as sets of blocks (`nTx`,
`haveData`, `scripts`, `failedValid`, `failedChild`), blocks with `nChainTx` set
(`linked`), `nSequenceId` and the two counters it comes from,
`setBlockIndexCandidates`, `mapBlocksUnlinked`, `gFailedBlocks`, the tip, and per
thread where it is in `ActivateBestChain` and its `pindexMostWork`. The tree of all
headers there will ever be, their work, and which of them fail the contextual checks
or `ConnectBlock` are constants.

Everything that runs under one hold of `cs_main` is one action: `AcceptBlockHeader`,
`ReceiveBlock` (`AcceptBlock` with `ReceivedBlockTransactions`), `InvalidateBlock`,
`ReconsiderBlock`, `PreciousBlock`, `PruneTo`. `RejectBlockHeader` is the other way out of
`AcceptBlockHeader`: it marks the blocks above a failed one, or takes the node down at the
assertion that this one is still marked. `ActivateBestChain` gives the lock up
after each step, so it is several actions of a thread: `CallActivate`,
`DiscardCandidate` (one turn of the loop in `FindMostWorkChain`), `ActivateStep`,
`NothingToDo`, and the ways it ends in `AbortNode`. A block number stands for the
address of the `CBlockIndex`, by which the comparator breaks its last tie.

Left out: `pindexBestHeader`, `pindexBestInvalid`, `BLOCK_HAVE_UNDO`, automatic
pruning (`FindFilesToPrune`), loading the index after a restart, duplicates in the
multimap `mapBlocksUnlinked`. A block file holds one block; a block of the active
chain that was pruned is not requested again.

### Coins and CoinsView

`Coins` is what the views promise: three sets of unspent outputs, of the block being
worked on, of the tip and on disk. An output is spent, created, removed or restored in
the first; it becomes the second as a whole or not at all; the third follows the
second; a crash goes back to the third.

`CoinsView` is the code: `db`, and the entries with `DIRTY` and `FRESH` of the two
caches (`tip` for `pcoinsTip`, `view` for the block). The operators `Fetch`,
`ModifyCoins`, `ModifyNewCoins`, `Settle` (`~CCoinsModifier`), `Merge` and
`BatchWrite`, `WriteDb` are the functions of `coins.cpp` and `txdb.cpp`. A block is
applied by `BeginConnect`, then per transaction `BeginTx` (the checks), `SpendInput`
per input and `AddOutputs`, and `EndConnect`; it may be given up at any point
(`AbortConnect`). It is undone by `BeginDisconnect`, `RemoveOutputs` and
`RestoreInput` from the last transaction on, and `EndDisconnect`. In between,
other code reads through `pcoinsTip` (`Read`) and drops entries (`Uncache`),
`FlushStateToDisk` writes files and index (`WriteIndex`) and then possibly the coins
(`FlushCoins`), `FindBlockPos` goes on to the next block file (`NextFile`), and the
node goes down (`Restart`).

A coin is the set of its spendable outputs that are left, with the height. The reads
that `HaveInputs` makes of a transaction's inputs fill the caches when the input is
spent, and not already when it is looked up; `Read` gives the other order. BIP 30 is
always enforced: the BIP 34 block hash in `chainparams.cpp` is not one of this chain.
A batch written to leveldb is atomic, and not lost once written. Left out: amounts,
scripts, memory accounting, the transaction index, failing writes (`AbortNode`, which
is a `Restart` here).

### CheckQueue

`CCheckQueue::Loop` as run by the workers and, in `Wait`, by the master: `pc`, the
local batch and `fOk` of each thread; `queue`, `nIdle`, `nTotal`, `nTodo`, `fAllOk`.
One action is one stretch between taking and releasing the mutex, or the execution of
a batch. A thread in `cond.wait` goes on after a notification only: spurious wake-ups
would make liveness easier. Blocks follow each other without end.

### MergedMining

The end of `ProcessNewBlock` (`CountNewBlock` and what follows it), from the height it
reads to its last write, one action per write of a file, with
`CalculatecoinNextWorkRequired_only_aux` reduced to what it reads and writes;
`NewAuxMiningCreateBlock` is a template's choice of difficulty. The
histories and difficulties are abstracted to their lengths and to whether they are
there. The counts are of type `uint32_t` and wrap at `CountMod`. A call may find the tip
where it was, one higher, or more (blocks that were waiting). `Restart` happens anywhere,
a count file that is being written may be left empty (`writeToCount` truncates it first),
and the last blocks may be lost because the chain state was not flushed. Where
`readToTxtCount` finds no number it ends without a return statement, and its result is
any value of its type. `calls`, `lost`, `torn` and `recounted` are history variables:
the calls since the last entry, those of them that left no trace in the counters, and
whether a count of the period was read from an empty file, or counts that were recorded
already were found on file. Left out: two callers at once, the values of the histories.

### Retarget

The end of `CalculatecoinNextWorkRequired_only_aux` on its own: the two targets are
multiplied by a factor, modulo `2^Width`, compared with `bnPowLimit`, divided, limited
and put into compact form. The factor is the result of a formula in floating point and
is any value in the range the code limits it to. Width, byte size, accuracy and the two
rates are constants.

### MempoolEntries and Mempool

`MempoolEntries` is the data of `CTxMemPool` with its methods, as operators on a pool:
`pool` is `mapTx` with `mapLinks` (for each entry its fee with deltas, parents, children,
and the totals of its ancestors and descendants), next to `mapDeltas`. `AddUnchecked`,
`RemoveStaged`, `RemoveRecursive`, `RemoveForBlock`, `UpdateFromBlock`
(`UpdateForDescendants`), `UpdateTransactionsFromBlock` and `WithinLimits`
(`CalculateMemPoolAncestors`) are the functions of those names; `Raised` is what
`PrioritiseTransaction` does to the entries. What the code collects by walking along links
(`CalculateDescendants`, ancestors) is the smallest set closed under them; its loops over
the transactions of a block are recursive functions.

`Mempool` adds the callers: the transactions of the blocks of the chain,
`rollingMinimumFeeRate` and `blockSinceLastRollingFeeBump`. All callers hold `cs_main`. A
call that passes through several states of the pool (an acceptance with its
`LimitMempoolSize`, a reorganisation) is a sequence of steps with nothing in between;
`stage` and `job` say where it is. Actions: `AcceptToMemoryPool` with replacement,
`PrioritiseTransaction`, `GetMinFee`, `Expire`, `TrimToSize` and `TrimDone`,
`StartConnect`, `ConnectTip`, `DisconnectTip`, `Resurrect` (one transaction of the undone
block), `DisconnectDone`, `ConnectDone`, `RemoveForReorg`.

Abstractions: a transaction is the set of outputs it spends, a size and a fee; lock
times are block heights (no median time, no relative locks); memory in use is the sum
of sizes; the minimum fee decays by half in a step of its own; any subset of `Old` may
have expired; ties between packages to be evicted are left open; fees with their
deltas are not negative. Scripts, `mempool.dat`, orphans and fee estimation are left
out.

### BlockDownload

State: of each peer `fSyncStarted`, `nPendingHeaderRequests`, `pindexBestKnownBlock`,
`hashLastUnknownBlock`, `pindexLastCommonBlock`, `fDisconnect`; in the record `dl`,
`mapBlocksInFlight`, the peers' `vBlocksInFlight`, `partialBlock`, `nStallingSince` and
`nPeersWithValidatedDownloads`; of the block index, which blocks are known, stored and
failed, the tip and `pindexBestHeader`. One thread handles all messages, so a handler is
one step: `Inv`, `Headers` (with `Unconnecting` and `NoHeaders` for messages that do not
connect or are empty), `BlockMsg`, `CmpctBlock` (with `CmpctUnconnecting`), `BlockTxn`;
`StartSync`, `RequestBlocks` and `Timeout` are the parts of `SendMessages` that matter
here; `InitializeNode`, `FinalizeNode` and `SubmitBlock` come from other threads.

Headers are asked for with `RequestHeadersFrom`, which drops a request while an earlier
one to the same peer is open, unless it is forced. A `headers` message, full or not,
closes a request; a full one leads to the next. `StartSync` sets `fSyncStarted` even
where its request is dropped, so a peer may count as the one that is synced from without
having been asked; the answer to the open request must then carry the sync on. (The
comment at `net_processing.cpp:3471`, that a whitelisted peer is sent at least one more
`getheaders` after a timeout, is not true while its request is open.)

`r` is a reliable peer: it answers before any timeout, stays and sends nothing
malformed. Its chain may end below the best block at first; `Grow` takes it there and
`Announce` tells so with a `headers` message. `requests.asked` holds what it has to
answer (`AnswerHeaders`, from the blocks of its chain that follow what the locator says;
`AnswerBlock`). `s` may do anything: stay silent, announce blocks it has not, send what
was not asked for or is invalid, go and not come back. The variable `setting` fixes for a
behaviour what kind of announcements occur; its ten values in `MCBlockDownload` stand for
initial download with a branch that turns out invalid; a whitelisted peer with
announcements by hash; a block from `submitblock` while it is in flight; a reliable peer
whose chain grows, far from or close to today; direct fetching with an invalid branch
and `submitblock`; unrequested blocks; and compact blocks on the best chain and on the
invalid branch. Left out: time (what may time out may do so at once), pruning, witness
services, blocks too far ahead, ban scores (a punishment that reaches the threshold at
once disconnects the peer; smaller ones, such as that for `nUnconnectingHeaders`, are not
counted), peers added by hand (exempt like whitelisted ones) and reject messages.
`READ_STATUS_FAILED` of a compact block is the same as missing transactions.

### AuxTemplates

State: `owned` (`mapNewBlock` and `vNewBlockTemplate`, which change together), the statics
`pindexPrev` (one per function), `pblock` and `curBlocks`, `cs_auxblockCache`, and per
thread its position, the call and the template it points to. A template is a number
that is never used again, so "freed" is "not in `owned`". A creating call is
`GetAuxBlock` or `CreateAuxBlock` (which looks up `curBlocks`), then `Reuse`, `Create` or
`CreateFails`, then `Answer`; a submission is `Find`, `SetAuxpow`, `ProcessNewBlock`. What
the threads call is a deployment: RPC threads with `getauxblock`, which takes the lock;
one RPC thread with `createauxblock`, which does not; the two threads of `pqcoind`, one
after the other or in parallel. Refusals before a template is touched are left out, and
so are `AuxMiningCreateBlock` and `AuxMiningSubmitBlock`, which nothing calls.

### Scheduler

`CScheduler`: the queue, `nThreadsServicingQueue`, the two stop flags, and per thread
whether it waits for a task or for a time, runs one, or is done. Times are counted from
now: `Tick` brings what is queued or waited for one second closer, so that the system
runs for ever in finitely many states. A step is what a thread does with `newTaskMutex`
held. Notifications are steps of their own and wake one waiting thread or all; a wait for
a time may also end when it has come, and a thread may wake for no reason.
`InterruptAll` is boost's interruption of the thread group at shutdown. A repeating task
schedules itself again each time it ran, also after `stop(true)`, so a queue that is to
be drained is never empty while it repeats; from outside each task is scheduled once.

## Runs

| Run | Instance | What it shows |
|---|---|---|
| `blocktree_sync` | 6 blocks, one refused by `ConnectBlock`, one by the contextual checks; `preciousblock` | headers and blocks in every order: the best valid chain is active after every call, the index is as `CheckBlockIndex` asserts, the tip never loses work without a reason, activation terminates |
| `blocktree_commands` | 6 blocks, `invalidateblock`, pruning | marks have a cause, chains without data are set aside and return, the best remaining chain is activated, no failed block is active, script validity is closed under ancestors |
| `blocktree_threads` | 9 blocks, 2 threads, `reconsiderblock`; `ConnectBlock` refuses one block and `AcceptBlock` another, each below the heaviest blocks | no refused block becomes active, also not with `reconsiderblock` between the steps of a thread, and the best chain is never lost for good |
| `coins_view` | 4 transactions, chains up to 3 blocks, 3 different blocks, 2 files | the caches implement `Coins`; undo is exact and clean; flags are sound; disk and best block agree at every crash; the index on disk knows what is under the coins, with its undo data unless these went to an earlier file |
| `check_queue` | master, 2 workers, 4 checks, one failing, batches of 2 | exact verdict, nothing left for the next block, `Wait` returns |
| `merged_mining` | periods of 2, 3 entries needed, 5 heights, 2 crashes, 1 lost block | reads of the histories in range, a previous difficulty exists; what is entered for a period, and what a restart goes on from, are the calls since the last entry, but for what a crash cut off |
| `mempool` | 6 transactions and 3 coinbases, 7 blocks of heights 1 to 3 | links and totals are exact after every call, and follow the links even in the middle of a reorganisation; inputs exist; what is in the pool fits the next block; no return below the rate of what was evicted |
| `block_download` | 2 peers, 6 blocks, 10 settings, window and transit limit 1, messages of 2 headers | downloads and counters agree, a stalling peer owes a block that is missing, the reliable peer's chain is downloaded in the end although requests for headers are dropped |
| `scheduler` | 1 or 2 threads, 2 tasks, one repeating for ever | each task is taken once per scheduling, not before its time with one thread; each is served however often the other repeats, unless the threads end, and they end when they are told to |
| `aux_templates` | 2 threads, 3 deployments | no freed template is touched, a submission processes its own proof of work, templates for the tip stay known |
| `unlocked_templates` | the two threads of `pqcoind` in parallel | **violated**: `TemplatesKept` |
| `retarget_wraps` | width 24, bytes of 4 bits, accuracy 20 | **violated**: `AdjustmentStepLimited` |

The bounds. The tree of `MCBlockTree` has a chain with a gap of work, a fork at the
genesis block and one above it, and equal work on two branches, so that ties, a
candidate below a failed block, and a switch across two blocks occur. With the
transactions of `MCCoinsView` a coinbase is spent by two transactions in one block or
in two, an output is made and spent in one block, and a transaction leaves no output
at all; three different blocks allow a chain to be undone and another one connected
above a common ancestor, with flushes anywhere. Four checks and batches of two make
the batch size vary and let a failing check be in any batch. In `merged_mining`
periods of two blocks with three entries needed reach several retargets, with crashes
before, between and inside them. The transactions of `MCMempool` form a diamond
(`d` spends `a` and `b`, `b` spends `a`), with a conflict that may replace it, a spend of a
coinbase, and a lock time; blocks confirm `a` and `b` in one block or in two, so that
undoing them brings parents back below children in the pool, and limits of three
entries and a pool of four bytes make refusal, replacement and eviction frequent. In
`MCBlockDownload` a window and a transit limit of one make every download a possible
stall; six blocks give a gap of two on the best chain and an invalid branch of two.
With two headers to a message the best chain takes two messages, of which the first is
full; two open requests to a peer (`MaxPending`) let a forced one overtake another. The
scheduler's tasks are scheduled up to `MaxAhead` from now, and time waits when a task is
`MaxLate` behind. In `merged_mining` the counts wrap at 5, above the four calls of a
period. In `RetargetWraps.cfg` all quantities are scaled: the factor's largest value times the
limit exceeds the width, as 5000 times `bnPowLimit` does at 256 bits.

### Disagreements with comments, assertions and documents

Two are runs of the project:

- `unlocked_templates`. `rpc/mining.cpp:1051` says of the templates "Lock them to be
  sure even for multiple RPC threads running in parallel". `newAuxMiningCreateBlock`
  has its `LOCK` commented out and `cmx_submit_Auxblock` has none, while `pqcoind` runs
  one thread with each: a submission writes into a template that the other thread has
  just freed. The same holds for `createauxblock` with several RPC threads.
- `retarget_wraps`. `pqcoin.cpp:292` and `506` limit an adjustment to a factor between
  0.2 and 5. The product is reduced modulo `2^256` before it is compared with
  `bnPowLimit`, so a target near the limit may come out far below a fifth of what it
  was (at full width, a factor of 2.1 gives about a tenth).

The others are configurations kept for reference, each of which TLC shows violated.
They are run in the same way, with the module named here:

| Configuration | Module | Property | What it contradicts |
|---|---|---|---|
| `StaleTarget.cfg` | `MCBlockTree` | `BestChainActive` | `validation.cpp:2541`: a thread that comes back with the target it chose before it released `cs_main` disconnects better blocks and returns. The next call repairs it (`BestIsCandidate`). |
| `InvalidateLate.cfg` | `MCBlockTree` | `LinkedExact` | `validation.cpp:4325`: a block that arrives below a failed parent is not entered into `mapBlocksUnlinked` and never linked afterwards. |
| `ReconsiderKeepsGFailed.cfg` | `MCBlockTree` | `GFailedMarked` | `validation.cpp:3253`: `reconsiderblock` leaves `gFailedBlocks` alone; the assertion in `AcceptBlockHeader` then fails. |
| `EmptyCandidates.cfg` | `MCBlockTree` | `PruneLeavesCandidate` | `validation.cpp:2438`: two threads and `invalidateblock`. |
| `ReconsiderDropsAncestor.cfg` | `MCBlockTree` | `CandidatesExact` | `validation.cpp:4345`: `reconsiderblock` clears marks of ancestors without making them candidates. |
| `ReconsiderKeepsSibling.cfg` | `MCBlockTree` | `FailedHasCause` | `validation.cpp:4336`: a sibling branch keeps its mark when its cause is cleared. |
| `UndoNotSynced.cfg` | `MCCoinsView` | `UndoSynced` | `validation.cpp:2121`: only the last block file and its undo file are committed to disk before the coins are flushed; undo data that went to an earlier file are not. |
| `ShortPeriod.cfg` | `MergedMining` | `PeriodComplete` | `info.md:6`: after a restart just before the end of a period, the period is recorded with one block. |
| `CountedTwice.cfg` | `MergedMining` | `CountedOnce` | `info.md:6`: after a crash between the entry of a period and the reset of its count files, the blocks of that period count for the next one too. |
| `SubmittedStall.cfg` | `MCBlockDownload` | `WindowStuck` | `net_processing.cpp:3427` ("Stalling only triggers when the block download window cannot move"): `submitblock` stores a block without `MarkBlockAsReceived`, so the peer asked for it is held to be stalling, and may be disconnected, over a block that is there. |
| `MixedTemplates.cfg` | `MCAuxTemplates` | `TemplatesKept` | `rpc/mining.cpp:1051`: `getauxblock` and `createauxblock` free each other's templates but keep their own pointers, even with one caller. |
| `FailedTemplate.cfg` | `MCAuxTemplates` | `TemplatesKept` | `rpc/mining.cpp:1797` ("Update state only when CreateNewBlock succeeded"): `getauxblock` clears its templates first, and uses a null pointer when the tip goes back. |

`BlockTreeReconsider.cfg` (`MCBlockTree`) holds: with `invalidateblock` and
`reconsiderblock` together, no failed block is active and script validity stays closed.
The assertion of line 3253 has a part in it: without it `AcceptBlockHeader` would mark
active blocks above a block that `reconsiderblock` has cleared.

`CheckBlockIndex` runs by default on the regression-test network only. Two remarks
beside these. `info.md:7` gives 128 coins as the first reward, while
`GetPqcoinBlockSubsidy` gives 1024, and 168 above height 26250. `scheduler.h` promises
"Call func at/after time t"; of two threads whose waits for the same task both end, one
takes the next task early. `init.cpp:1221` starts one thread only, for which `AtOrAfter`
holds.

### Fairness

`ActivationTerminates` assumes weak fairness of the steps of a thread inside
`ActivateBestChain`; it waits for `cs_main` only, and with one thread that is free.
`MasterReturns` assumes weak fairness of each thread of the check queue; a thread in
`cond.wait` is not enabled until it is notified, so fairness does not stand in for a
notification. `ServedOrEnded` is the same for the threads of the scheduler, with
fairness of notifications on their way and of the clock; tasks return. It does not
assume that tasks stop repeating, and therefore says of `stop(true)` only that the
threads end if no repeating task was scheduled.

`ChainDownloaded` assumes of the node weak fairness of asking for blocks, of timeouts
and of removing peers with `fDisconnect`, and strong fairness of starting to sync with
the reliable peer: `ThreadMessageHandler` (`net.cpp:2014`) goes round all peers and calls
`SendMessages` for each in turn, so a peer is tried before another is tried again. Of
the world it assumes that the reliable peer connects, comes to have the best block,
announces it, and answers `getheaders` and `getdata`. Nothing is assumed of the other
peer. Everything else is checked without fairness.

## Proofs

Eight modules hold proofs, which `tlapm` checks completely. Each theorem is about all
values of the constants that satisfy the named assumptions of the module (TLC evaluates
them on the instances of the runs); a restriction to some commands or threads is a
premise of the theorem. Where an invariant is named below, it is inductive together with
what precedes it, and is stronger than the properties that follow from it.

### BlockTreeProofs

Assumed: work grows along `Parent`, the genesis block is good, blocks are numbers. `Anc`
is the smallest set closed under parents, so that the lemmas about it need no induction.

- All commands, any number of threads. `Invariance`: `IInv`. `NoBadBlockActive` alone is
  not inductive: `ActivateStep` connects the ancestors of a target that a thread has
  kept, so one needs that targets are linked, that linked blocks are closed under
  parents and were received, that no received block fails its contextual checks, and
  that the index is closed under parents. `TypeCorrect` and `NoBadBlockActiveHolds`
  follow.
- `FailedHasCauseHolds`, without `reconsiderblock`: `CauseInv` adds that the blocks of
  `gFailedBlocks` failed themselves. With that command the property is false
  (`ReconsiderKeepsSibling.cfg`).
- `LinkedExactHolds` and `UnlinkedExactHolds`, `preciousblock` being the only command
  (`NetworkOnly`): by `LinkInv` a received block that is not linked waits in
  `mapBlocksUnlinked` or is `Doomed`, above a failed block that was never received, so
  that it never has to be linked; by `StoredInv` nothing linked waits.
- `ActiveChainSound` and `ScriptsClosedHolds`, one thread (`OneThread`) and all
  commands: by `ActiveInv` the active chain has passed its script checks, and the way to
  a target that is kept holds no failed block.
- `BestChainActiveHolds`, `CandidatesExactHolds` and `NoRegressionHolds`, one thread and
  `preciousblock`. That the best sound chain is a candidate is not inductive:
  `PruneBlockIndexCandidates` drops what is worse than the new tip, and the tip may go
  back when a later block does not connect. `ChoiceInv` keeps that a sound chain that is
  no candidate is worse than a candidate that was active before, which can no longer
  turn out to be invalid, and that a target stays the best candidate until it is
  reached. `RankInv` says that a number `preciousblock` gives out is smaller than those
  of all sound blocks it competes with; `PlaceInv` that no candidate is worse than the
  tip. With two threads the first is false (`StaleTarget.cfg`).
- `BestIsCandidateHolds`, `PruneLeavesCandidateHolds` and `ActiveChainSoundThreads`, any
  number of threads, `reconsiderblock` being the only command: `ThreadInv` cannot rely
  on the marks, which `reconsiderblock` takes away, nor on targets, which may be
  outdated. It speaks of `gFailedBlocks`, the lasting record of what did not connect,
  and says that a chain without such a block is a candidate or worse than one that was
  active.

### CoinsViewProofs

Assumed: coinbases have no inputs, others have some and none twice (`InputAssumption`),
and `NONE` is nothing else (`NoneAssumption`).

`CoinsRefined`: `CoinsView` implements `Coins`. A cache answers with its own entry or
what is below, and `Right` says when the flags of an entry are true: an entry that is
not `DIRTY` equals what is below, one that is `FRESH` has nothing below. `Fetch`,
`ModifyCoins`, `ModifyNewCoins`, `Settle` and `Merge` each keep `Right` (one lemma
each), and change what the cache answers as `Coins` says. `ModifyNewCoins` and the undo
steps do so only if nothing, or the expected outputs, are there; so the refinement needs
`CoinsInv`, which says in addition that the tip answers the coins after the chain and
the database those after its best block (`Exact`), that every block of both chains
spends what is there (`Traced`), and where a block that is half applied or undone stands
(`Connecting`, `Disconnecting`). `FreshSoundHolds`, `UndoCleanHolds`, `UndoExactHolds`,
`DiskExactHolds` and `NeverThrowsHolds` follow. `DiskUndoableHolds` rests on `FilesInv`:
undo data in the last file wait to be committed only as long as the index on disk does
not know their block, since `NextFile` and `WriteIndex` commit that file first. It has no
premise; that undo data in earlier files are excepted is part of the property, which
would be false otherwise (`UndoNotSynced.cfg`).

### MempoolEntriesProofs and MempoolProofs

Assumed: finitely many transactions, no set of which lives on its own outputs, coinbases
being those without inputs (`TxAssumption`); sizes are positive (`SizeAssumption`); the
first transaction of a block is its only coinbase (`BlockAssumption`). Which block
extends which chain is a guard of the model, from `ConnectBlock`.

The first module is about the methods: sums over sets of entries (from the fold they are
defined by, with `SetInduction` on the subsets of `Tx`, which is proved here from the
least element of a set of numbers; it speaks of a set where the library's theorems take
an operator), closures along links, and what each method does to links and totals.
`Good` relates a pool to the confirmed transactions: totals are those of what the links
reach, fees include the deltas, no output is spent twice, each input has its coin, and
links are those the inputs call for. The last is not invariant: while the transactions
of a disconnected block come back one by one, a parent enters below entries that spend
it and `AddUnchecked` does not look for them. `Good` therefore has a set of transactions
whose links to children may be missing, and one of transactions not back yet;
`UpdateTransactionsFromBlock` is shown to end with both empty. It goes through the block
from the end, and needs for this that what came back is in the order of the block
(`Coming`).

`PoolKept`: `PoolInv`, that is `Good`, `Coming`, a chain in which each block spends what
was made before (`ChainOk`), and between calls `ValidIn`, that every entry is final and
mature. `TotalsFollowLinksHolds`, `PoolExactHolds`, `InputsAvailableHolds` and
`NextBlockValidHolds` follow.

### BlockDownloadProofs

Assumed: finitely many blocks, with work that grows along `Parent` (`TreeAssumption`),
finitely many peers (`PeerAssumption`), and announcements of these blocks
(`SettingsAssumption`). `DownloadInvHolds`: `DownloadInv` says of `dl` (`DlOk`) that the queue of each
peer holds each block in flight from it once, keeps its limit and is empty for peers
that are gone, that partial blocks are in flight and stalling peers have a queue, and
that `nPeersWithValidatedDownloads` is the number of peers with a queue. The limit is
kept because each caller asks for no more than is free, the compact-block handler
included; each handler is a composition of marking blocks as in flight and as received,
and `DlOk` is shown for these two. `StallInv` says that a stalling peer has a block in
flight that is missing, or came through `submitblock`. It is kept because a step carries
over what a peer that stays stalling has in flight (`Carries`, shown for each of the
same operations), while a peer whose block arrives is no longer stalling; a new one is
named only where a missing block of the window is in flight from it (`Awaited`).
`InFlightExactHolds` and `StallersOweHolds` follow.

### MiningProofs

`MiningInvariance` (of `MergedMining`): besides types, that difficulties are there
whenever the histories are (`BitsFollow`), that any mixture of counters and files that a
crash may leave is bounded from above by the calls (`NoMixtureOver`) and from below by
those that were not lost (`NoCallForgotten`), and where the files equal the counters
(`FilesFollow`): a restart may read one counter from before and one from after a write.
Assumed is that the calls of a period stay below `CountMod`, `2^32` in the code
(`ConstantAssumption`). The four properties of `merged_mining` follow for all periods,
heights and numbers of crashes.

`LockKeepsTemplates` and `HandedOutKnownHolds` (of `AuxTemplates`), if every call is
`getauxblock` or `submitauxblock` and templates can be made (`UnderLock`). `LockInv`: at
most the holder of the lock is in a call (`Exclusive`), the static pointer is owned and
was made for `pindexPrev` (`StaticKept`), pointers of threads are owned
(`PointersKept`), and templates handed out for the tip exist only while `pindexPrev` is
the tip (`HandedForPrev`), which makes clearing on a new tip harmless.

### CheckQueueProofs and SchedulerProofs

`QueueInvariance`: each check that is not accounted for is in the queue or in one batch,
`nTodo` is their number, and the flags are false only if some check of the block fails
(`Places`, `Verdicts`). `ResultExactHolds` and `NothingLeftHolds` follow, for any number
of workers, checks and blocks.

`TasksAlwaysExact` rests on `TasksInv`: the counts of scheduling and taking match the
queue, a task that runs is not queued, and threads that run are in service.
`NeverEarlyAlone` rests on `TimesInv`: while a lone thread waits for a time, a task that
is due by then is in the queue, since nobody else takes one; so whichever task is first
when the wait ends is due. Both for any number of threads and tasks; the second speaks
of one serving thread.

### Only model-checked

- All liveness (`ActivationTerminates`, `MasterReturns`, `ServedOrEnded`,
  `ChainDownloaded`): fairness is outside the prover's reach.
- `Retarget`, which depends on the width and on the scaling of its instance.
- `NoCheapReentry`: it compares rates, quotients that are rounded, and depends on how
  the incremental rate was chosen relative to the fees.
- Of `BlockTree`, the properties above with commands or threads beyond their premises.
  With pruning and `invalidateblock` the invariants about candidates would have to
  follow data that come and go.
- `AuxTemplates` with `createauxblock` or the threads of `pqcoind`.

## Not modelled

- Loading after a restart (`LoadBlockIndexDB`, `VerifyDB`, `RewindBlockIndex`) and
  automatic pruning: they tie block index, coins and files together. The product of
  `BlockTree` and `CoinsView` is out of TLC's reach at the sizes where each of them is
  interesting.
- Two callers at the end of `ProcessNewBlock`: the counters are then subject to a data
  race, and nothing is left to be stated about them.
- Formulas: the floating-point part of the retarget (TLC has no reals), the difficulty
  rules of `pow.cpp`, the subsidy (a table), `auxpow.cpp` and merkle trees (what they say
  depends on the hashes), `versionbits.cpp`, `consensus/merkle.cpp`. All are stateless.
- Transaction relay and orphans, serving of blocks, short identifiers of compact
  blocks; sockets and framing (`net.cpp`); the address manager, whose properties are
  statistical.
- `getblocktemplate`, `BlockAssembler` and the internal miner; the wallet; RPC and HTTP
  conversion and dispatch; start-up and options.
- Scripts, signatures, Dilithium, cryptography, serialisation; leveldb, secp256k1 and
  univalue; the graphical interface with its translation catalogues, which hold texts
  and no behaviour.
