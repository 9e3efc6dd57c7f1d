# TLA+ verification of the Raptoreum bcoin node

This directory holds TLA+ models of the node in `src/lib`, TLC configurations
that check them on small instances, and proofs that TLAPS checks. Everything is
translated from the code; a module's operators carry the names of the methods
they stand for, and `PROJECT.json` maps each one to its lines.

    tlc -workers 2 -config MCChain_sync.cfg MCChain     # a model-checking run
    tlc -workers 2 -config MCMempool.cfg MCMempool
    tlc -workers 2 -config MCWallet.cfg MCWallet
    tlc -workers 2 -config MCBlockStore.cfg BlockStore
    tlc -workers 2 -config MCPool.cfg Pool
    tlc -workers 2 -config MCIndexer.cfg MCIndexer
    tlapm MempoolProofs.tla                             # the proofs of a module

## The system

The program is one Node.js process. Concurrency comes from `await`: every
asynchronous database or disk call lets other callbacks run, and the components
protect themselves with `bmutex` locks (`this.locker`), queues and event order.

| component | state | operations | interacts with |
|---|---|---|---|
| chain (`blockchain/chain.js`) | `tip`, `height`, invalid LRU, orphan pool, deployment state | `add`, `reset`, `replay`, `invalidate`, `prune`, `scan` under one lock | calls ChainDB; emits `connect`, `disconnect`, `reset`, `block`, awaited inside the lock |
| chaindb (`blockchain/chaindb.js`) | leveldb indexes, a current batch, a pending `ChainState`, LRU caches by height and hash | `save`, `reconnect`, `disconnect`, `reset`, `removeChains`, each a batch between `start` and `commit` | block store; read by everyone without the lock |
| blockstore (`blockstore/`) | block and undo files with their records | `write`, `writeUndo`, `read`, `prune`, `pruneUndo` | written by ChainDB before its batch |
| coins (`coins/`) | `CoinView` per block, `UndoCoins` | spend, add, undo | ChainDB, mempool, miner |
| mempool (`mempool/`) | maps of entries, spends, orphans, waiting parents; fee estimator | `addTX`, `addBlock`, `removeBlock`, `reset`, eviction | follows the chain's events; relays through the pool |
| pool and peers (`net/`) | peer list, loader, header chain, block and tx request maps, compact blocks, timers | packet handlers, `fillOutbound`, `resync`, stall checks | feeds `Chain#add` and `Mempool#addTX` |
| hostlist (`net/hostlist.js`) | fresh and used buckets, bans | `add`, `markAttempt`, `markSuccess`, `markAck`, `getHost` | the pool |
| mining (`mining/`) | CPU miner job, template | `createBlock`, job loop | chain tip, mempool |
| wallet (`wallet/`) | accounts, transactions, coins, balances, block records | `add`, `confirm`, `disconnect`, `rescan`, spending and locking of coins | follows the chain through `nodeclient` |
| indexers (`indexer/`) | per-index tip and height | `sync`, `addBlock`, `removeBlock` | chain events and block store |
| workers (`workers/`) | children, jobs, timeouts | `execute`, `exit`, `timeout` | script verification |
| sporks, smartnodes (`sporks/`, `protocol/smartnodes`) | network switches; deterministic smartnode list | messages, diffs | pool, validation |
| node, rpc, http | none of their own | request handlers | everything |

What is hard in this program, and what makes each part correct:

* **chain and chaindb.** Blocks arrive in any order, twice, mutated, too early
  or without their parent; a reorganization and a reset are several batches
  with `await`s, I/O errors and crashes between them; a block that fails to
  connect stops a reorganization half-way. Correct means: after any of that,
  the indexes, the coins, the block data and `this.tip` describe one and the
  same valid chain; nothing unverified is connected; nothing valid is marked
  invalid; nothing connectable stays an orphan; the tip with the most work wins.
* **blockstore.** Data is written outside the index batch. Correct means that a
  record in the index never points at data that is missing.
* **mempool.** Its maps mirror each other and the chain it follows: no two entries
  spend one coin, none is left without its coins, what a block confirms is gone,
  orphans are bounded and never lost track of, and no call keeps the lock.
* **pool, hostlist.** Requests, stalls and disconnects race each other; counters
  and maps must agree; a sync must not stop while a peer has more blocks.
* **wallet, indexers.** They lag behind the chain and must pass through the same
  connects and disconnects, also across a restart or a rescan.
* **workers.** A job ends exactly once: with its result, a timeout or an exit.

`PROJECT.json` lists these hazards with their lines under `hazards`.

## Plan

Done, each with its run:

1. the chain (`BlockTree`, `ChainDB`, `Chain`, `Ledger`), proofs in
   `BlockTreeProofs` and `ChainProofs`;
2. the mempool that follows it (`Transactions`, `MempoolIndex`, `Mempool`),
   proofs in `MempoolProofs`;
3. the block store (`BlockStore`), shown to keep the promise `KeptBlocks`, proofs in
   `BlockStoreProofs`;
4. the wallet (`TxDB`, `Wallet`), proofs in `WalletProofs` and
   `WalletRecordProofs`;
5. the download of the chain (`Pool`), proofs in `PoolProofs`;
6. the indexers that follow the chain (`Indexer`), proofs in `IndexerProofs`.

The modules compose through abstract specifications. `Chain` takes the block
store for two sets of blocks, which is what `KeptBlocks` says of it. The mempool,
the wallet and the indexers do not run against `Chain` but against a chain that moves by one
valid block, forward or back, as `Ledger` says and `Chain` is proved to do:
whatever holds against every ledger holds against the chain. The pool takes
from it that `add` connects a block whose parent is the tip, with its orphans.

Next: the caches of ChainDB (batches, `ChainState` totals, LRU caches against
concurrent readers); the balances of AddrIndexer; the buckets of the host list;
workers, miner, sporks and smartnode lists.

Every safety invariant of the passing runs is a theorem. What is model-checked only is
liveness (`LockMoves`, `Converges`, `LockReleased` and the three `CatchesUp`) and what the
runs that expect a violation show.

## The chain

### Modules

`BlockTree` is the universe of blocks. A header commits to its parent, so
parent, height, accumulated work and ancestors of a block are constants; what
it spends and creates is a set of coins; what verification says of the block
itself is a set (`HeaderBad`, `ScriptBad`, ...). `HeaderVerdict` is
`Chain#verify` in the order of its checks, `ContextVerdict` is `verifyContext`.
A copy of a block may carry a mutated body (`intact = FALSE`): the code calls
the resulting error malleated and does not blame the block. A body that fails
to parse is the same case.

`ChainDB` has the leveldb indexes as variables (`entries` for h and e, `mainAt`
for H, `nextOf` for n, `tips` for p, `dbTip` for R, `coins` for c) and the two
parts of the block store. One operator per batch; the block store is written
first and pieces of it stay when a batch does not follow (`PartialStores`).

`Chain` is `chain.js`. `queue` is the lock with its waiters; `pc` says where
the holder is, one action per stretch of code between two database writes:

| `pc` | code | actions |
|---|---|---|
| `idle` | lock free | `Refuse`, `StoreOrphan`, `Accept`, `RefuseReset`, `BeginReset` |
| `connect` | `connect` | `SaveAlternate`, `BeginExtend`, `ForkMissing` |
| `extend` | `setBestChain`, `reorganize` | `Disconnect`, `Reconnect`, `DataMissing`, `Attach` |
| `orphans` | `handleOrphans` | `NextOrphan`, `AddDone` |
| `unwind` | `ChainDB#reset` | `Unwind`, `FinishReset`, `ResetFails` |

`Request` queues a call at any time, `AddFails` ends an add with an I/O error,
`Crash` restarts the node, `Forget` drops a mark (`reconsiderblock`, or the
eviction from the LRU, which is why it may happen at any time). `replay` is a
reset to the parent. Subscribers of the chain's events are awaited inside the
lock and their errors are caught by `fullnode.js`, so they do not change the
control here. Two variables are history and no guard reads them: `broken`, that an
error has cut a reset short, and `known`, the marks that `_add` gave to blocks which
had an entry already.

`Ledger` is the abstract specification: a head and its unspent coins that move
by one valid block, forward or back. `Chain` refines it with `head <- dbTip`
and `utxo <- coins`, until `broken`.

### Runs

The tree of `MCChain` has nine blocks on three branches with different work per
block, so that a branch can overtake another with fewer blocks or draw level
with it; coins are spent across blocks, inside one block, and created by the
same transaction on two branches. Each run takes the part it needs.

| run | what happens in it | what it shows |
|---|---|---|
| `chain_sync` | all nine blocks, one invalid, one future-dated, one with a mutated copy; two orphans; pruning with a window of two blocks; I/O errors and crashes | types, indexes, coins, validity, `this.tip`, orphans, marks, pruning window |
| `chain_reset` | reset and invalidateblock on several heights, a checkpoint and a block that misses it, errors and crashes in every place, a failing reset included | data is on disk before a record points at it and the lock always moves on, whatever fails; until an error cuts a reset short, the refinement of `Ledger`, entries of the main chain, marks against the main chain |
| `chain_best` | no bad block; callers offer every block for ever; two waiting calls, two orphans | the most work wins, and the node converges on it |
| `chain_stale_entry` | a failed reorganization and two resets | finding: a removed branch leaves an entry behind |
| `chain_stale_tip` | a reset that fails after a batch | finding: the chain extends a tip that is not there |

Bounds. `MaxQueue` bounds the waiting calls: one is enough for the interleaving
of calls with the holder (every order in which calls get the lock is still
explored), two are needed for `hasPending` and used in `chain_best`.
`MaxOrphans` is `options.maxOrphans`; with two orphans the pool is full, forked
and trimmed. `KeepBlocks` of 2 and `PruneAfter` of 0 reach both sides of the
pruning window at height three. Three branches of depth two and three contain
extension, tie, reorganization by a shorter and a longer branch, and a failed
reorganization in its first and in its last block.

Fairness. `FairSpec` lets the holder of the lock and the next waiter run (weak
fairness of the steps of `add` and `reset`): that is the event loop together
with disk calls that return. It does not make callers call. `OfferedSpec` adds
that peers offer every block again and again when there is room in the queue
(strong fairness, because the room comes and goes); `Converges` needs it since
a block that was dropped from the orphan pool is only seen again when a peer
sends it again.

Limits of the properties, as the code has them. `BestTip` is checked without
bad blocks: after a reorganization that fails, the losing branch is not
connected again until it grows. `LedgerSpec`, `MainHasEntries` and `InvalidNotMain`
end with `broken`: after it the chain may put a block on a tip that is no more (the
finding of `chain_stale_tip`, whose tree has the block it takes). `InvalidNotMain` excepts the genesis block, which
`invalidate` only marks since it cannot be removed, and the marks in `known`. The
proof attempt without the second exception failed for a reason TLC could show on a
tree of nine blocks, without any fault: a failed reorganization leaves entries that
the tip index does not name (the finding of `chain_stale_entry`), so `invalidate` of
their ancestor does not remove them; offered again, such a block is marked on account
of that ancestor; `reconsiderblock` forgets the mark of the ancestor only; the
ancestor returns to the chain, a descendant arrives, and `reconnect`, which looks at
no mark, puts the marked block on the main chain. Every other mark counts: one given
by a failing verification, by `invalidate`, or by `_add` to a block that is not stored.

### Proofs

`ChainProofs` proves for every tree of blocks, every set of bad blocks and every
bound that `Inv` holds until `broken` (`Unbroken`). The properties that exempt
`broken` follow without an assumption (`Refinement`, `MainChainHasEntries`,
`MarkedOffMain`). The others are theorems under `~ResetFaults` (no I/O error ends a
reset), which excludes it. The first part has

* `Safety`: the invariant `Inv` is inductive. It joins what the runs check
  (`MainIndexed`, `CoinsAtTip`, `OnlyValidConnected`, `MainHasEntries`,
  `TipAgrees`) with what makes them inductive: a call that extends the chain
  works towards a block above the tip whose ancestors have entries
  (`ExtendReady`), a reset unwinds towards a main chain block (`UnwindReady`),
  and without pruning every main chain block can be undone (`UndoKept`). The
  argument goes through the batches: `Connect` and `Undo` show that connecting a
  valid child and disconnecting the tip keep `Committed`; the coins are the
  heart of it (`ConnectCoins`, `DisconnectCoins`), where a block that spends
  what it creates needs that all spent coins were created (`SpentWereCreated`).
  `MainChain` shows that `isMainChain` answers for the ancestors of the tip.
  The parts of `Inv` follow as theorems of their own.
* `Refinement`: `Spec => LedgerSpec`. `TipMoves` shows the committed tip moves
  by one block at most, the invariant on both sides gives the coins.

Its second part has the rest of the safety properties. Whatever fails, and without any
assumption on faults:

* `TypeCorrect`, and `DataAlwaysThere`, that the order of writes keeps every record
  on disk backed by data even after a reset failed and `this.tip` is wrong. Its
  invariant is weaker than `Inv`, since after such a failure the indexes are not
  those of one chain any more (`chain_stale_tip`).
* `OrphansAlwaysBounded` and `NoOrphanIsStuck`. An orphan may have a parent that is
  stored while the lock is held, so `NoStuckOrphan` is not inductive. `PoolInv` adds
  `PoolWaits`, that such a parent is the block whose orphan `handleOrphans` takes out
  next, and `CandApart`, that the block being connected is not in the pool as well.

On top of `Inv`, `MarkedOffMain` until `broken` and the others with `~ResetFaults`:

* `MarksAreEvidence` (`NotPoisoned`). `MarksInv` adds where a mark can still come
  from: calls of invalidate() wait or run only for blocks of `Invalidable`.
* `MarkedOffMain` (`InvalidNotMain`). `InvalidatedOut` says that a marked block that
  breaks no rule, unless it is in `known`, has no entry, is no orphan and is not the
  block under way either; `Invalidating` that an invalidate() that runs ends below
  its block and takes the entry.
* `WindowAlwaysKept` (`PruneWindow`). What `pruneBlock` takes for a block is
  keepBlocks below it, one less as seen from its parent, which is all there is when
  the batch does not follow (`PrunedIsOld`); without a reset, which a pruned node
  refuses, no entry goes away again.
* `TipIsBest` (`BestTip`) in the world of `chain_best` (`AllGood`: no bad block, no
  failure and no reset). `BestInv` compares every entry with the goal of the call
  that runs, since a reorganization passes through tips with less work.

`BlockTreeProofs` derives what all of these use of heights and ancestors
(`AncestryFacts`) from the recurrences that a header fixes. Induction over blocks is
out of the provers' reach, so each fact goes through a counterexample of least
height, which exists because `<` on the naturals is well-founded.

The proofs rest on the assumptions of `BlockTree`: those recurrences; that under BIP34
or a checkpoint no block creates an outpoint that is unspent on its chain (where
neither holds, `verifyDuplicates` is part of `ContextVerdict`; the two blocks of
mainnet, 91842 and 91880, that BIP30 lets through are left out of the universe); which
verdicts the genesis block escapes; and on `PruneAssumption` and `ChainAssumption` for the options. Only liveness
(`LockMoves`, `Converges`) is model-checked only.

## The mempool

### Modules

`Transactions` gives the blocks of `BlockTree` their transactions. An outpoint
names the transaction that makes it, so inputs and outputs are constants; of
scripts, fees and lock times only the verdicts count (`Standard`, `Verifies`,
`TimeLocked`, `Relocked`). A coinbase is nobody's transaction to relay, and is
an `OtherId` like a parent that no peer ever sends.

`MempoolIndex` has the maps of `mempool.js` as variables: `pool` (`map`),
`spents`, `orphans` (how many parents each orphan lacks), `waiting`, `rejects`,
and `MempoolCache` as `batch`, `disk` and `diskTip`. One operator per method.
`Package` is what `evictEntry` removes with an entry, `Trimmings` what
`limitSize` may remove: any order of the roots is allowed, because fees are left
out.

`Mempool` is the control. `queue` is the chain lock's queue of `addTX` calls;
`op` is the method under way; `stack` holds the calls of `handleOrphans` inside
each other, since `insertTX` and `handleOrphans` call each other without bound.

| `op`, `stack` | code | actions |
|---|---|---|
| `idle` | lock free, or the chain is moving | `InsertTX`, `Move`, `Connect`, `Disconnect`, `GiveUp`, `HandleReorg`, `Rewind` |
| `add` | `addTX` | `LimitSize`, `ReturnTX` |
| `connect` | `_addBlock` | `Confirm`, `Settle`, `LeaveBlockOrphans`, `SyncBlock` |
| `disconnect` | `_removeBlock` | `InsertTX`, `StillHere`, `SyncBlock` |
| `reset` | `_reset` | `Rewind` (the chain still unwinds), `Reset` |
| stack not empty | `handleOrphans` | `InsertTX`, `LeaveOrphaned`, `LimitSize` |

`InsertTX` is `insertTX` up to its first nested call: refused with an error
(`Refuse`), rejected with its parent (`Drop`), stored (`KeepOrphan`) or accepted
(`Accept`). `LimitSize` is the rest of the call, after the orphans it resolved
were tried. `RemoveFails` is the assertion in `removeOrphan`, wherever it is
called. `Restart` is a stop or a crash at any point and `open` after it; a mempool
that is not persistent is the case in which nothing is loaded.

The chain holds its lock from `Move` to the last `Connect` or `Disconnect`, and
`head # goal` meanwhile, so `addTX` waits; `fullnode.js` awaits the mempool's
handlers, so the chain takes no step while `op` is not `idle`.

### Runs

`MCMempool` has four transactions: `p`; `x`; `o`, which spends an output of each;
and `c`, which spends the same output of `p`. Block `a1` has `p`, its child `a2`
has `x` and `o`, and `e1`, with more work than both, competes with them and is
invalid. So one orphan waits for two parents, two orphans wait for the same
parent and exclude each other, a block confirms a parent of an orphan, an orphan
itself, or a child before its parent (the loop of `_addBlock` runs backwards), and a
reorganization puts back parents whose children are entries.

| run | what happens in it | what it shows |
|---|---|---|
| `mempool` | all of it, with pool and orphans at their limits, locks that a reorganization undoes, restarts in every state | the indexes mirror the entries, orphans are apart and bounded, the cache is a copy, nothing is left dangling between blocks, a block's transactions leave the pool |
| `mempool_lock` | two blocks, resets, fairness | whoever holds the lock lets go of it, however the insertions of orphans nest |
| `mempool_tip` | neither resets nor restarts | finding: `removeOrphan` fails inside `_addBlock`, and the mempool stays on an old tip |

Bounds. `MaxQueue` of 1 lets any transaction be queued while any other is being
inserted, which is all `exists` can notice. `MaxSize` of 2 (a transaction has
size 1, so a trimmed pool keeps one) makes the third entry trim; `MaxOrphans` of 2
is full with `o` and `c`, and `p` or `x`, orphans before `b0` comes, displace a
victim; `MaxAncestors` of 2 refuses `o` on top of two entries that are ancestors.

Fairness. `FairSpec` is weak fairness of `Step`, which is whatever the holder of
the lock does next: the event loop and disk calls that return. Nobody is forced
to call `addTX` or to extend the chain.

Limits of the properties, as the code has them. `NoneLeftDangling` says nothing
of the steps of `_addBlock` and `_removeBlock`: when a transaction of a
disconnected block is refused, its children stay as entries. `MinerSafe` fails
(finding `mempool_tip`). A block that comes while the pool is empty is not
looked at: the orphans and the rejects filter stay as they were, and the tip in
the database is that of an earlier block.

### Proofs

`MempoolProofs` proves for every set of transactions and blocks and every limit,
with resets and restarts, all safety properties that hold. First `Indexed`, `Copied`, `Apart`, `OrphansLimited`
and `Funded`, the theorems for `SpentsIndexPool`, `CacheTracksPool`,
`OrphansApart`, `OrphansBounded` and `NoneLeftDangling`. The inductive invariant
`MempoolInv` joins the first three with `DiskApart`: no two entries in the
database spend the same coin. A restart builds the spents index from the
database alone, so without `DiskApart` the index could not be shown right; it
holds because a flush writes the pool, whose entries exclude each other. The
argument has one lemma per kind of change (`TrackKeeps`, `UntrackKeeps`,
`FlushKeeps`, `SameKeeps`, `RestartKeeps`) and one per group of actions.
`Funded` rests on `PackageClosed`: as every input of every entry is indexed,
the walk of `removeSpenders` reaches every spender. Every move of the chain's
tip is to another block (`HeadMoves`), which is why the steps of the chain do not
count in `NoneLeftDangling`.


`WaitsCounted` is the theorem for `WaitingTracked`. `WaitInv` adds that an orphan is
only in sets of its own parents, of which there are finitely many; a step then
leaves an orphan in fewer sets, in none, in those of the parents it is said to
lack, or takes it out of one and counts that (`WaitsStep`). A `removeOrphan` that
throws leaves it in fewer sets than it counts, which is why this is an inequality.

`BlockLeaves` is the theorem for `BlockLeavesPool`. `BlockInv` says what the loop
of `_addBlock` relies on while it inserts orphans: those of the block's
transactions that it is done with are neither entries, nor orphans, nor in what any
of the nested `handleOrphans` calls has left to insert. A call gets its list from
the orphans of that moment, and `WaitInv` keeps the transaction itself off it.

`TypeCorrect` needs both: the counts stay natural numbers because whoever is in a
set lacks somebody.

The proofs assume what `Transactions` and `MempoolIndex` state: there are
finitely many transactions and coins, no transaction spends its own output, and
`NoTx` is none of the transactions. Of the mempool only liveness (`LockReleased`) is
model-checked only, besides the finding.

## The block store

### Modules

`KeptBlocks` is what `AbstractBlockStore` promises: what was written can be read
until it is pruned; a restart may bring back what was pruned and loses nothing.

`BlockStore` is `FileBlockStore` for one type of data (blocks, undo coins, merkle
blocks and each filter have files, records and a flag of their own). `files` are
the `.dat` files, `frec`, `brec` and `last` the records f, b and F, `writing` the
flag. A file is a sequence of pieces, one for each `_write`. A piece cut short is a
`scrap`, which does not begin with the magic, or `torn`, which does and lacks what
comes behind it: that includes the eight bytes, magic and length, that a crash between
the two `fs.write` of a block leaves. `Cap` pieces fill a file.

| code | actions |
|---|---|
| `_write`: checks, `allocate`, its `open(..., 'w')`, the piece, the batch | `Write`, `Touch`, `WritePiece`, `CommitWrite`; `ShortWrite` and `WriteThrows` on errors |
| `_prune`: its batch, `unlink` | `Prune`, `Unlink` |
| `open`: `check`, `_index` file by file | `Open`, `IndexFile` |
| the process stops, or the index directory is lost | `Crash`, `Close`, `LoseIndex` |

### Run and properties

`blockstore` writes and prunes three blocks in files of two pieces, so that a
third piece opens the next file and a file is emptied while another has blocks;
two crashes and one error (or one loss of the index) come between any two steps.
Two crashes are what it takes to tear a piece and to interrupt the pass that
meets it. `Top` is the largest count of a file record, 2^32 - 1 in the code; the
bounds never reach the small `Top` from below, so it is met only by wrapping.

`KeepsPromise` ties each action to what it may do to `KeptBlocks`: only `Prune(b)`
takes a block away, and that is `b`; only the batch of `_write` adds one, the one it
wrote; a start or an index pass loses nothing; nothing else changes what is kept. While
the store is closed, what the index pass will find counts as kept. `CountsCover` is what makes `_prune`
right: were a count too low, the file would be unlinked under a block that is
still recorded. `AllReadable` says that what `has` reports can be read.

Limits, as the code has them; `harmed` marks the histories they concern:

* `_index` writes the records of blocks and files but not F, the number of the
  last file. After it (or after the index is lost) the next write that does not
  fit the file the old number names opens the following file with `'w'`, although
  the pass has just found blocks in it.
* Behind a torn piece the pass reads a length and a header out of the bytes of the
  next pieces, takes the torn one for a block if that length ends within the file, and
  goes on from there: it may record a bogus hash, miss the block behind it, miscount
  the file and leave `used` too low. `Readings` has every such outcome, `IndexFile`
  picks any of them, and a pass in which a torn piece was taken for a block or a whole
  one was missed is `harmed`. A count below the records that survive comes only with
  that. Not `harmed` are torn pieces that are the last of their file, that are
  written over, or behind which the pass finds every block.
* An error other than a short write leaves `writing` set, and each later write of
  that type throws until the store is opened anew (`WriteThrows`).

The model takes it that the magic of the network occurs nowhere in the data, and that a
write over a torn piece covers it: what a shorter piece leaves of a longer one behind
itself acts like a scrap, or like a torn piece when that begins with the magic.

Readers take no lock. A read that has its record and finds the file pruned is not
a step of this model.

### Proofs

`BlockStoreProofs` proves the four properties of the run for any blocks, any size
and number of files and any number of crashes and errors: `RecordTypes`,
`CountsCoverRecords`, `RecordsReadable`, and `StoreKeepsPromise`.
They share the invariant `IInv`:

* `RecordsAgree` is the heart of it: the record of a block names a whole piece of
  that block, within what the record of its file spans, and is counted there.
  `CountsCover` and `AllReadable` follow, but only at rest; `RecordsAgree` holds in
  every phase, unless `harmed`.
* `JobOK`, `PieceOK` and `StartsFresh` carry it through a write: the piece goes
  behind all that the file's record counts, or into a file no record names.
* `TodoOK` carries it through open: the pass has still to read every file
  without a record, and the file that _prune is to unlink has none.
* `FilesFit` and `LastFits` bound the counts. No file outgrows `Cap` pieces, so with
  `Cap <= Top` the 32-bit count of a file cannot wrap. The code allows that:
  a file has at most maxFileLength bytes, 128 MiB, and a piece has at least one.

For `StoreKeepsPromise` the change of `Kept` is worked out for each action; while the
store is closed a block in a file that has no record is already kept, so a pass that
finds all whole pieces takes nothing away. `RecordTypes` holds for `harmed` histories
as well.

## The wallet

### Modules

`TxDB` is one wallet's transaction database: the records t and p (`txs`), c
(`credits`, and which are `flagged` spent or `mined`), d (`undo`), s (`spent`), the
outpoint map o (`watch`), the block records b of the wallet and of the walletdb
(`blocks`, `mapped`) and the `balance`. `Insert`, `Confirm`, `Erase` and `Disconnect`
are one batch each. Of a coin's height only whether it is -1 matters to the code,
and is kept. Indexes that repeat a record are left out. So are coinbases: their
outputs are credits like any other, but they have no inputs, and no rival.

`Wallet` is `WalletDB` with its client. The chain is a `Ledger` that moves to
`goal` one block at a time under its own lock (`locker`); after each step it waits
until the wallet has handled the event, because `emitAsync` waits. `queue` is
`txLock` with its waiters, `run` how far its holder is, `work` the batches that
are still to be written.

| `run.stage` | code | actions |
|---|---|---|
| `start` | the next request | `AddTX`, `AddBlock`, `RemoveBlock`, `ResetChain`, `Rescan`, `SyncNode` |
| `adding` | `_addTX`, `_addBlock` | `AddBlockTX`, `AddedTX`, `AddedBlock` |
| `back` | `rollback`, `revert` | `RevertBlock` for each height of `run.left`, `WentBack` |
| `wait`, `scan` | `scan`, `chain.scan`, `rescanBlock` | `ScanStart`, `ScanBlock`, `ScanEnd`, `Abort` |
| any, `work` not empty | `txdb.js` | `WriteInsert`, `WriteConfirm`, `WriteErase`, `WriteDisconnect` |

`Announce` is a transaction the mempool accepts, `RemoveTX` is `remove`, `abandon`
or `zap`, `AskRescan` and `Abort` are the user's, `Crash` is a restart at any point,
after which `syncNode` comes first.

### Run and properties

`MCWallet` has `p`, which pays the wallet from a coin of somebody else; `q`, which
spends the same coin and pays nobody we know; `c`, which spends `p` and pays the
wallet again; and `d`, which spends it away. Branch `a1` has `p` and `c` in one
block, `b1`, `b2` have `p` and then `d`, `f1` has `q`. The run `wallet` holds
every order of announcements, of the moves of the chain between the three and of
aborted scans, together with one of: a crash, a reset of the chain, a rescan, a
removal (`MaxExtras`). The invariants alone were also explored with two of these in
one history (3.1 million states). The theorems below cover any number.

`BalancesAdd` compares the running totals, which each batch changes by what it
thinks it moves, with the records. `SpendsAgree` ties spend records, undo coins,
credits and watched outpoints together. `FollowsChain` compares the wallet with
the chain whenever nothing is under way. `NeverFails` is about the assertions of
`confirm` and `disconnect`. `FollowsChain` asks for what the blocks above `Start` have:
a wallet does not look back beyond the block it was made at. `CatchesUp` is liveness under weak fairness of the
wallet's steps and of the chain's: handlers that run and a chain that goes on
when it is answered. Deadlock is not checked: the system stops when everything is
handled, and also in the state below.

Limits, as the code has them:

* `Jammed`: the chain holds its lock in `add` and waits for the wallet to handle a
  block; the wallet holds `txLock` in `rescan` or `syncNode` and waits for the
  chain's lock in `scan`. Neither goes on. A block that arrives with a gap jams
  without any second request, as `_addBlock` calls `scan` itself; a gap is what an
  aborted scan leaves. `CatchesUp` excuses exactly this state, and scans that end
  early (`cut`).
* `torn` marks histories after which the records may be wrong. `disconnect` and
  `erase` unmap the whole height with the first transaction of it, so a crash
  before the second, or removing a mined transaction, hides the rest from every
  later revert. A crash after a block's batches and before its `setTip` leaves
  mined transactions above the wallet's height, which nobody takes back if the
  chain leaves that block (`Ahead`, when an event, a reset or a scan passes them by), and
  which are mined without what the block below has, if the wallet was made there and
  is scanning it again (`Unscanned`). A crash amid the revert of a reset or a rescan can
  book a block twice. One amid the revert of a disconnected block that the chain then
  takes again is mended by the scan of the restart, unless that is cut short
  (`Behind`). Removing a pending transaction that was met before its parent takes the
  watch off a coin that has become the wallet's own. None of this is excused without
  one of those events. The proofs led to `Behind` and `Unscanned`: what goes
  wrong after them takes more extras, or other blocks, than the run has.
* `disconnect` hands `updateSpentCoin` the old height instead of -1, so an undo
  coin keeps a height its coin no longer has (`undoMined` follows the code).

### Proofs

The theorems hold for any tree of blocks, any transactions and any number of crashes,
resets, rescans and removals. `TxAssumption` makes the inputs of transactions acyclic,
as the hash of a transaction does; `WalletAssumption` says that the transactions of a
valid block spend different coins, which the chain has checked before it tells of one.
The invariant is

    All == Inv1 /\ \E T : C(T) /\ (torn \/ (RecA /\ RecB(T)))

in four layers, the first two in `WalletProofs`, the others in `WalletRecordProofs`.

* `Inv1` holds whatever happens: the types, the record of each height lists exactly the
  transactions mined there, once; the queue has at most one unhandled event, behind it
  only what is not awaited; each stage of the job goes with its request; each batch
  concerns what the job is at. Types alone are not inductive: that `disconnect` takes a
  transaction of the right height, or that `insert` has a block to put it in, is known
  only from the job that queued the batch (`WorkInv`). `TypeCorrect` follows.
* `C(T)` says where the requests lead. `T` has the tip that the chain had before each
  request of the queue, and last the tip it has; each step of `T` is what its request
  says. Requests that are not awaited (resets) may be far behind the chain, and the
  wallet cannot tell; `T` is what relates the block it is at to the tip. The wallet's
  hashes lie on one line (`PathInv`), which meets `T[1]` as the job requires
  (`KnownInv`, `CaughtInv`). It does not rest on the records, so `HashesFollow` holds for
  torn ones too. `T` is no variable: each step names the next trail.
* `RecA` says how the records agree among themselves: credits, flags, undo coins, spend
  records and watched outpoints, what a mined transaction spends is mined
  (`KInv`), a block lists parents before spenders (`OrderInv`), and the totals are the sums
  (`Balance`). The sums of finite sets of coins are folds; `SumIsTotal` ties them to
  one function on all sets of coins, from which `SumUnion` and `SumMinus` follow.
* `RecB(T)` says how the records agree with the chain: a mined transaction is in its
  block, which the wallet has or is adding (`BelongInv`), and on the line of `T[1]`
  (`MKnownInv`); what the wallet's blocks have for it is mined (`CompleteInv`), and they
  rule out nothing that is pending (`NoRivalInv`); in the block being added that is so for
  what the job has passed (`PrefixInv`); a revert leaves nothing above (`LeftInv`,
  `TopInv`) and finds every height (`MappedInv`). `Open` names the blocks for which this is
  suspended: those being taken back, and the wallet's own block after a restart, which
  is scanned again. `AheadInv` is about transactions mined above the wallet's height,
  which a crash leaves.

`NextAll` shows that every step keeps it, or sets `torn`. `BalancesRight` and `SpendsRight`
are read off `RecA`; `AssertionsHold` from `KInv`, `OrderInv` and `TopInv` at the head of
the batches; `WalletFollows` from `C(T)` and `RecB(T)` when the queue is empty, where `T` is
the tip alone. `CatchesUp` is model-checked only.

## The pool

### Modules

`Pool` is the part of `net/pool.js` and `net/peer.js` that brings the chain:
choosing a loader, headers up to the last checkpoint, then `getblocks`, requests,
compact blocks, orphans, closing, refilling, timeouts, and the chain being reset
meanwhile. The network has one chain, so a block is its height, and remote nodes
keep to the protocol: they answer in order and at once, but what they send stays
on the `wire` until it is read, and is lost with the connection. What can go wrong
is then the pool's own doing.

`asked` and `half` are `peer.blockMap` and `peer.compactBlocks`, `blockMap` and
`compactBlocks` the pool's. `headers` is the header chain by its first, last and
next height and its target. A remote node answers getblocks by pages of `MaxHashes`;
`cont` is its `hashContinue`, the end of a full page, and it announces its tip when that
block is asked for. `lock` is `pool.locker`, `job` the packet that each peer's parser
waits for, or how far its handler is; `items` the hashes that `handleBlockInv` has
collected; `adding` says that the holder is in `chain.add`, which has the chain's lock,
`resetting` that a reset has it; `asking`, `resync` and the jobs `root` and `more` are
locators waiting for that one. `blamed`, `disturbed` and `crowded` are history.

| code | actions |
|---|---|
| `fillOutbound`, `handleOpen`, `sendSync`, `resync` | `Fill`, `Open`, `SendSync`, `Resync` |
| `readPacket`, and the handlers up to the lock | `Receive`, `ReceiveCompact`, `ReceiveTxn` |
| the handlers under the lock | `HandleHeaders`, `AddBlock`, `AddedBlock`, `Ignore` |
| `handleBlockInv`, from one await to the next | `HandleHash`, `ResolveOrphan`, `ContinueFrom`, `RequestItems` |
| `destroy` and `handleClose`, `maybeTimeout` | `Close`, `Stall`, and `Closed` in every handler that drops its peer |
| `Chain#_reset`: up to its `reset` event, and after it | `Reset`, `PurgeOrphans` |

### Run and properties

`pool` has two peers and seven blocks, of which the last is found during the run and
comes as a compact block, and checkpoints at 1 and 5: header sync has a segment of one
block and one of four, passes from one target to the next and on to `getblocks`, and
restarts in the middle of the second. A packet has three headers, a page two hashes,
`resolveHeaders` asks for two blocks at once, and a peer may not come to three: the long
segment is more than one call asks for, so that the second call finds `headerNext` set
and the loader is destroyed by `getBlock`. Blocks 6 and 7 are recent: from there all peers
sync, and block 7 is announced by both. One connection is lost, besides those that time
out or that a handler drops, and the chain is reset once, to height 3, in any phase: while
headers, an inv, an orphan or a block is under way. 625,801 states. The instance keeps out
of: an honest peer's block or header out of turn (the first two disjuncts of
`ReceiveCompact`, the last case of `AddBlock`, blocktxn that nobody asked for), which the
invariant of the proofs says cannot come, and a packet of headers that makes `getBlock` stop
at once, which needs blocks asked of the same peer outside header sync.

`RequestsAgree` is what several assertions need; `HonestKept` says that no handler drops
an honest peer, the cases below excepted; `CatchesUp` that the node comes to the network's
tip and stays, dropped peers or not, under weak fairness: sockets are read, the lock is
passed on, timers go off, refills happen. Nobody has to find a block. Deadlock is not
checked: when the node is synced nothing is left to do.

Limits, as the code has them:

* A reset of the headers while answers are on their way (a chain reset in header
  sync, or the loader closing while its block is in `chain.add`) makes the answers
  look like a bad header chain, and the peer is dropped: `disturbed`.
* `resolveOrphan` waits for a locator between `hasOrphan` and `assert(root)`, with
  `orphans` unlocked. A reset that is queued for the chain's lock goes first and purges
  them, the assertion fails, and the peer is destroyed: `disturbed` as well.
* `getBlock` destroys a peer that is asked for `MAX_BLOCK_REQUEST` (60000) blocks.
  `resolveHeaders` asks for 50000 at once, and each block that comes lets it ask for the
  rest. On mainnet the last checkpoints are 61900 and 394273 (`src/lib/protocol/params`,
  `main.js`), a segment of 332373 headers: the loader is dropped when the first of its
  blocks has come, the headers of the segment are fetched again, and so on, one block
  further each time, until the rest of the segment is short enough. The model calls
  exactly this `crowded`: a segment longer than `MaxRequest`, or announcements that come
  to as many. `CatchesUp` holds nevertheless.
* `PoolAssumption` puts the last checkpoint below the first recent block. With the
  two equal the node can stop for ever: an orphan of before a reset connects, the
  block is a duplicate when it comes again, `resolveChain` is not called, and the
  chain counts as synced, so that no timer ends the header sync.
* A repurposed loader that already synced is not asked again (`sendSync`), and a
  duplicate block does not shift the header chain; in both cases only the timeout
  (`Stall`) helps.
* `PoolAssumption` has `MaxInv` and `MaxHashes` below `MaxRequest`, as the code does, and
  at most 15 blocks that come as compact blocks. What an honest node sends completes a
  compact block, so `fillMissing` fails for none and ban scores are left out.
* `blockMode` 1, where compact blocks are pushed, is not modelled:
  `handleCmpctBlock` fills the peer's map before it asserts that the pool's map
  lacks the block, so that two honest peers that push the same block break
  `RequestsAgree`. Nor is `stopSync`, which clears the pool's maps but not those of
  peers that are not syncing.

### Proofs

`PoolProofs` proves, for any peers, blocks, checkpoints and bounds:

* `RequestsAlwaysAgree`. `IInv` adds to `RequestsAgree` that the maps are functions of the
  peers; `NextRequests` shows that every step asks one peer for blocks, hears from
  one, begins or completes a compact block or drops a peer, and `TogetherAdd` and
  `TogetherRemove` that each of these keeps the maps together. It needs no
  assumption on what peers send.
* `HonestPeersKept` (`HonestKept`). A handler destroys a peer for a block that was not
  asked of it, for headers that do not connect, for a block that is not the next of the
  header chain, for more requests than there may be, and for an orphan that is none.
  `Base` excludes the first: `WireInv` says that each block on its way
  from a peer, or waiting for the lock, was asked of that peer or announced by it, and
  comes once; with `LockInv`, who waits for the lock and with what, and `LinkInv`, that no
  connection is reused while a packet of the old one waits. `PacketsAsked` is that part
  on its own. `RootInv` excludes the last: while a handler waits for the root, its block
  is an orphan, or the orphans were purged under it, which is `disturbed`. `CheckpointsInv`
  excludes the others as long as checkpoints are synced and nothing was `disturbed` or
  `crowded`. By `Syncing` only the loader is asked, and either headers are under way
  (`HeadersPhase`: the header chain starts at the tip, and what the loader has sent or been
  asked for continues it) or their blocks are (`BlocksPhase`: the header chain starts above
  the tip and ends at the checkpoint, the blocks come in order, and those asked for are a
  page of it). By `Quiet` no inv is handled and
  nothing is announced by pages. The step that
  needs both phases is the block that completes a segment, where the pool asks for the
  headers of the next. `BlocksFit` and `HeadersFit` count: what is asked of the loader
  lies in the segment, so a segment of at most `MaxRequest` headers never comes to the limit.

`PoolAssumption` says that compact blocks are above the checkpoints: a node sends
compact blocks for its last ten only (`src/lib/net/pool.js`, `handleGetData`), and
checkpoints are older. Blocks that header sync asks for therefore come in
full. `CatchesUp` is model-checked only.

## The indexers

### Modules

`Indexer` is `indexer/indexer.js`, which all indexes extend, and the `pruneBlock`
of `FilterIndexer` (`prunes`). `hashes` are the records h up to R, `height`,
`syncing` and `batch` the fields of the object. What an index records of a block
is written in the batch of its height, so the records h stand for it.

The chain moves to `goal` one block at a time and waits for the handler of an
event (`event`), but the handler does not wait for the sync it starts: `run` is how
far either is.

| `run.stage` | code | actions |
|---|---|---|
| idle | `bind`, `sync`, `_syncBlock`, `startSync` | `Dropped`, `Taken`, `Thrown`, `Started`, `StartSync` |
| `adding`, `removing` | `_addBlock` and `_removeBlock` for an event | `AddEvent`, `RemoveEvent` |
| `look` | `_syncChain`, the common height | `Look` |
| `back` | `_rollback` | `Rollback` |
| `forward`, `loaded` | `_rollforward`, before and after it read the chain | `Load`, `Rollforward` |
| `done` | the loop has ended, `syncing` is not cleared yet | `SyncEnds` |

`Unwritten` is a batch that cannot be started or written, at any of them; `Restart`
is a stop or a crash and `open`.

### Run and properties

`indexer` has two branches above a first block and a rival of that block, with
more work in turns, so that the chain reorganizes by one and by two blocks, and
two resets, restarts or failed batches between any two steps. The index starts
with the genesis block on a chain of any length. Two blocks above the fork make a
rollback of several batches; the rival makes the chain leave its first block.

`OneBranch` says that the records are a branch of the tree. The index compares a
parent only for events; in a sync it follows from the search for the common height
and from the chain having one block at each height. `CatchesUp` is liveness under
weak fairness of the handlers and of a chain that goes on when it is answered.
Deadlock is not checked: when the chain rests nothing is left to do.

Limits, as the code has them:

* `_rollforward` compares no parent, and the events of a reorganization under a
  running sync are dropped. A block that the sync has read and the chain then takes
  back stays below blocks of the other branch (`crossed`), until a sync that
  starts above it finds it off the chain.
* An event dropped after the sync has passed its block is missed, and so is one that
  is taken for its opposite: connect and disconnect share a listener that goes by
  the height. The connect of a block the sync has indexed already takes it off
  again. The index stays behind until the next event (`missed`).
* `_rollback` stops at height 1. After a reset to the genesis block the index keeps
  the old first block (`test/indexer-test.js` expects that), and blocks of another
  branch are put on it (`left`).
* An error in `_syncBlock` leaves `syncing` set, and a failed write leaves `batch`:
  nothing is indexed until a restart (`failed`). Every block that `FilterIndexer`
  removes is such an error: `pruneBlock` uses the batch after `commit` has set it
  to null, so the records go down and `this.height` does not.

### Proofs

`IndexerProofs` proves `TypeCorrect` and `AlwaysOneBranch` for any tree of blocks
and any number of resets, restarts and failures. `OneBranch` alone is not
inductive: a block is put on the last record because an earlier step found that
record on the main chain. `StageInv` keeps what `_syncBlock` compared until the
batch is written, `SyncInv` that the record where the sync stands is on the main
chain, and `FirstInv` that the first one is, which is where `_rollback` ends when
it has found nothing. The step that needs them is `RollforwardStep`: the parent
of the block and the last record are on the main chain at the same height, and
there is one block at each height (`OneAtHeight`). `RetractStep` shows that the
chain takes nothing back that they rely on, but for `crossed` and `left`.
`CatchesUp` is model-checked only.

## Not modelled

Of the chain: SPV mode (`reorganizeSPV`), `prune()` on demand, `scan`, the version
bits deployments, target adjustment, the LRU caches (reads are taken as coherent),
the running totals of `ChainState`, and script and transaction checks beyond
their verdict.

Of the block store: the LevelDB and MongoDB stores, where a block is one record, and
concurrent readers. Of the wallet: keys, accounts and paths (an output is the
wallet's or is not), several wallets, coin selection, signing, locked coins, the
bloom filter, `migrateState` and the first synchronization from a start height,
HTTP and RPC. Of the pool: forks and invalid blocks, bans, inbound peers, the
relay of transactions, `notfound`, the batching of compact blocks by 15, SPV and merkle blocks, host discovery, `connect` and `disconnect` of the whole pool.
Of the indexers: what each records of a block (transactions, addresses, filters,
assets, future and smartnode payments), the balances that AddrIndexer keeps outside
the batches, and `close` in the middle of a sync.

Of the mempool: fees, and with them the order of eviction, priority and the fee
estimator; the rate limit of free transactions; the address index; the clock of
entries (any root may expire). The rejects filter is an exact set, where the code
has a Bloom filter that forgets. The order in which resolved orphans are tried is
any, where the code has that of a map. When `removeOrphan` fails, some of the
waits are gone: any subset.

Beyond the reach of the provers are liveness under fairness and what recursive
definitions compute; `Anc` is therefore a constant with its recurrence as an
assumption, and `Package` and `Ancestors` are least closed sets instead of walks.
The components that no module covers yet are in the plan above and, with the
reason, in `PROJECT.json`.
