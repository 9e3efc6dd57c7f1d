------------------------------- MODULE Wallet -------------------------------
(***************************************************************************)
(* A wallet that follows the chain as a plugin of the node: WalletDB of    *)
(* lib/wallet/walletdb.js on lib/wallet/nodeclient.js.                     *)
(*                                                                         *)
(* Two locks matter.  The chain holds its own (`locker') while it connects *)
(* and disconnects blocks, and emitAsync makes it wait until the wallet    *)
(* has handled each.  The wallet handles one request at a time, in order   *)
(* (txLock, the first of `queue' holding it), and a scan takes the lock of *)
(* the chain.  Wallet#writeLock is held through one transaction or one     *)
(* removal (`work').                                                       *)
(*                                                                         *)
(* The chain is abstracted to what Ledger promises, with its reorganizing  *)
(* under one lock; the mempool to what it may announce.                    *)
(***************************************************************************)
EXTENDS TxDB

CONSTANTS
  Start,        \* the tip of the chain when the wallet was made
  MaxExtras     \* bound: crashes, resets of the chain, and rescans and removals
                \* asked of the wallet, together

\* The transactions of a valid block spend different coins, and no two blocks of a
\* valid chain make the same one: coinbases have their height where BIP34 is on.
ASSUME WalletAssumption ==
  /\ Start \in Block /\ FullyValid(Start)
  /\ \A b \in Block : FullyValid(b) =>
       \A i, j \in 1..Len(BlockTxs[b]) :
         i # j => Inputs[BlockTxs[b][i]] \cap Inputs[BlockTxs[b][j]] = {}
  /\ \A b \in Block : FullyValid(b) =>
       \A a \in Anc[b] \ {b} : Creates[a] \cap Creates[b] = {}
  /\ MaxExtras \in Nat

VARIABLES
  tip,          \* chain.tip
  goal,         \* the block setBestChain is on its way to
  locker,       \* chain.locker: who holds it
  announced,    \* transactions the node has emitted 'tx' for
  height,       \* state.height
  hashes,       \* h: height -> hash, up to state.height
  queue,        \* who holds and who waits for txLock
  run,          \* how far the first of them is
  work,         \* batches the holder of writeLock has still to write
  extras,
  torn,         \* history: a crash left transactions at a height that `mapped'
                \* has not, or above `height' and the chain left their block;
                \* or it came amid the revert of a reset or a scan; or a
                \* mined transaction, or one met before its parent, was removed
  cut           \* history: a scan ended early

chain == <<tip, goal, locker, announced>>
sync == <<height, hashes>>
vars == <<chain, sync, txdb, queue, run, work, extras, torn, cut>>

NoJob == [stage |-> "start", block |-> NoBlock, rest |-> <<>>, left |-> {}]
Stages == {"start", "adding", "back", "wait", "scan"}

Request ==
  [kind : {"connect", "disconnect", "reset", "rescan", "sync", "tx"},
   of : Block \cup Tx \cup {NoBlock}]
Req(kind, of) == [kind |-> kind, of |-> of]

\* The types of the records, the queue and the job that runs.
TypeOK ==
  /\ TxDBTypeOK
  /\ tip \in Block /\ goal \in Block
  /\ locker \in {"free", "event", "scan"}
  /\ announced \subseteq Tx
  /\ height \in Heights
  /\ hashes \in [0..height -> Block]
  /\ queue \in Seq(Request)
  /\ run \in [stage : Stages, block : Block \cup {NoBlock}, rest : Seq(Tx),
            left : SUBSET Heights]
  /\ work \in Seq({"insert", "confirm", "erase", "disconnect"} \X Tx)
  /\ extras \in 0..MaxExtras
  /\ torn \in BOOLEAN /\ cut \in BOOLEAN

\* syncState without a state: the wallet takes over the hashes of the chain.
Init ==
  /\ TxDBInit
  /\ tip = Start /\ goal = Start /\ locker = "free" /\ announced = {}
  /\ height = Height[Start]
  /\ hashes = [h \in 0..height |-> CHOOSE b \in Anc[Start] : Height[b] = h]
  /\ queue = <<>> /\ run = NoJob /\ work = <<>>
  /\ extras = 0 /\ torn = FALSE /\ cut = FALSE

----------------------------------------------------------------------------
\* The chain and the mempool.

Main == Anc[tip]

\* An event of the chain that the wallet has not handled.
Outstanding == \E i \in 1..Len(queue) : queue[i].kind \in {"connect", "disconnect"}

\* chain.add takes the lock for a block with more work.
SetBest(b) ==
  /\ locker = "free" /\ ChainWork[b] > ChainWork[tip] /\ FullyValid(b)
  /\ goal' = b /\ locker' = "event"
  /\ UNCHANGED <<tip, announced, sync, txdb, queue, run, work, extras, torn, cut>>

\* The chain disconnects or connects a block, and waits.
Move ==
  /\ locker = "event" /\ ~Outstanding
  /\ IF tip \in Anc[goal]
     THEN \E b \in Anc[goal] :
            /\ Parent[b] = tip
            /\ tip' = b /\ queue' = Append(queue, Req("connect", b))
     ELSE tip' = Parent[tip] /\ queue' = Append(queue, Req("disconnect", tip))
  /\ UNCHANGED <<goal, locker, announced, sync, txdb, run, work, extras, torn, cut>>

Release ==
  /\ locker = "event" /\ ~Outstanding /\ tip = goal
  /\ locker' = "free"
  /\ UNCHANGED <<tip, goal, announced, sync, txdb, queue, run, work, extras, torn, cut>>

\* chain.reset; the wallet is told through 'reset' of the node, not awaited.
Reset(b) ==
  /\ locker = "free" /\ extras < MaxExtras
  /\ b \in Main \ {tip}
  /\ tip' = b /\ goal' = b /\ extras' = extras + 1
  /\ queue' = Append(queue, Req("reset", b))
  /\ UNCHANGED <<locker, announced, sync, txdb, run, work, torn, cut>>

\* The mempool accepts a transaction whose coins are there; not awaited.  What
\* it conflicts with has left the mempool.
InMain == UNION {TxsOf(b) : b \in Main}
Rivals(t) == {x \in Tx \ {t} : Inputs[x] \cap Inputs[t] # {}}

Announce(t) ==
  /\ t \notin announced \cup InMain /\ Rivals(t) \cap InMain = {}
  /\ Parents(t) \cap Tx \subseteq
       InMain \cup {x \in announced : Rivals(x) \cap announced = {}}
  /\ announced' = announced \cup {t}
  /\ queue' = Append(queue, Req("tx", t))
  /\ UNCHANGED <<tip, goal, locker, sync, txdb, run, work, extras, torn, cut>>

----------------------------------------------------------------------------
\* Batches.

Exists(t) == txs[t] # Absent
Mined(t) == txs[t] \in Block

Unwritten == <<sync, chain, queue, extras, cut>>

\* The next batch of the holder of writeLock.
Batch(op) == work # <<>> /\ Head(work)[1] = op /\ work' = Tail(work)

WriteInsert ==
  /\ Batch("insert") /\ Insert(Head(work)[2], run.block)
  /\ UNCHANGED <<Unwritten, run, torn>>

WriteConfirm ==
  /\ Batch("confirm") /\ ConfirmHolds(Head(work)[2])
  /\ Confirm(Head(work)[2], run.block)
  /\ UNCHANGED <<Unwritten, run, torn>>

WriteErase ==
  /\ Batch("erase") /\ Erase(Head(work)[2])
  /\ torn' = (torn \/ txs[Head(work)[2]] # Pending \/ Newly(Head(work)[2]) # {})
  /\ UNCHANGED <<Unwritten, run>>

WriteDisconnect ==
  /\ Batch("disconnect")
  /\ IF Mined(Head(work)[2])
     THEN DisconnectHolds(Head(work)[2]) /\ Disconnect(Head(work)[2])
     ELSE UNCHANGED txdb
  /\ UNCHANGED <<Unwritten, run, torn>>

\* The first of the queue is done.
Finish == queue' = Tail(queue) /\ run' = NoJob

----------------------------------------------------------------------------
\* Adding a transaction.

Erasing(roots) == LET s == Erasures(roots) IN [i \in 1..Len(s) |-> <<"erase", s[i]>>]

\* The batches of txdb.add.
Adds(t, b) ==
  IF ~Concerns(t) THEN <<>>
  ELSE IF txs[t] # Absent
  THEN IF txs[t] = Pending /\ b # NoBlock THEN <<<<"confirm", t>>>> ELSE <<>>
  ELSE IF b = NoBlock /\ \E x \in Conflicts(t) : txs[x] \in Block THEN <<>>
  ELSE Erasing(Conflicts(t)) \o <<<<"insert", t>>>>

First(kind) == queue # <<>> /\ Head(queue).kind = kind /\ work = <<>>

\* addTX: the wallet is told of a transaction.
AddTX ==
  /\ First("tx") /\ run.stage = "start"
  /\ work' = Adds(Head(queue).of, NoBlock)
  /\ run' = [run EXCEPT !.stage = "adding"]
  /\ UNCHANGED <<chain, sync, txdb, queue, extras, torn, cut>>

AddedTX ==
  /\ First("tx") /\ run.stage = "adding"
  /\ Finish
  /\ UNCHANGED <<chain, sync, txdb, work, extras, torn, cut>>

----------------------------------------------------------------------------
\* Adding a block, for an event or in a scan.

Adding(b) == [NoJob EXCEPT !.stage = "adding", !.block = b, !.rest = BlockTxs[b]]
Waiting == [NoJob EXCEPT !.stage = "wait"]

\* _addBlock for 'block connect': a low block is ignored, one of the same
\* height is let through, a gap calls scan, from the height the wallet is at.
AddBlock ==
  /\ First("connect") /\ run.stage = "start"
  /\ LET b == Head(queue).of
     IN \/ Height[b] < height /\ Finish
        \/ Height[b] \in {height, height + 1} /\ run' = Adding(b) /\ UNCHANGED queue
        \/ Height[b] > height + 1 /\ run' = Waiting /\ UNCHANGED queue
  /\ UNCHANGED <<chain, sync, txdb, work, extras, torn, cut>>

AddBlockTX ==
  /\ run.stage = "adding" /\ run.rest # <<>> /\ work = <<>>
  /\ work' = Adds(Head(run.rest), run.block)
  /\ run' = [run EXCEPT !.rest = Tail(@)]
  /\ UNCHANGED <<chain, sync, txdb, queue, extras, torn, cut>>

\* Mutant of After: a scan ends after one block.
AfterNone(b) == NoBlock

\* The block after b in the main chain.
After(b) == IF \E c \in Main : Parent[c] = b
            THEN CHOOSE c \in Main : Parent[c] = b ELSE NoBlock

Scanning(b) == [NoJob EXCEPT !.stage = "scan", !.block = b]

\* An assertion fails.  What follows is not modelled: NeverFails.
Fails ==
  /\ work # <<>>
  /\ \/ Head(work)[1] = "confirm" /\ ~ConfirmHolds(Head(work)[2])
     \/ /\ Head(work)[1] = "disconnect" /\ Mined(Head(work)[2])
        /\ ~DisconnectHolds(Head(work)[2])

\* Mutant of SetTip: the hashes above are kept.
SetTipOnTop(b) ==
  /\ height' = Height[b]
  /\ hashes' = [h \in DOMAIN hashes \cup {Height[b]} |->
                 IF h = Height[b] THEN b ELSE hashes[h]]

\* setTip, which deletes the hashes above.
SetTip(b) ==
  /\ height' = Height[b]
  /\ hashes' = [h \in 0..Height[b] |-> IF h = Height[b] THEN b ELSE hashes[h]]

\* The end of _addBlock.
AddedBlock ==
  /\ run.stage = "adding" /\ run.block # NoBlock /\ run.rest = <<>> /\ work = <<>>
  /\ SetTip(run.block)
  /\ IF locker = "scan" THEN run' = Scanning(After(run.block)) /\ UNCHANGED queue
     ELSE Finish
  /\ UNCHANGED <<chain, txdb, work, extras, torn, cut>>

----------------------------------------------------------------------------
\* Going back.

\* Mutant of Undoing: a block is taken back first to last.
UndoingForward(h) == [i \in 1..Len(blocks[h]) |-> <<"disconnect", blocks[h][i]>>]

\* revert of one height by the wallet: its transactions, the last first.
Undoing(h) == [i \in 1..Len(blocks[h]) |-> <<"disconnect", Reverse(blocks[h])[i]>>]

\* rollback to the block at h, and _removeBlock, which reverts one height.
Back(h, above) ==
  run' = [NoJob EXCEPT !.stage = "back", !.block = hashes[h], !.left = above \cap mapped]

Above(h) == {n \in Heights : n > h}

\* revert: the heights that `mapped' had, the highest first, each under writeLock.
RevertBlock ==
  /\ run.left # {} /\ work = <<>>
  /\ work' = Undoing(Max(run.left))
  /\ run' = [run EXCEPT !.left = @ \ {Max(run.left)}]
  /\ UNCHANGED <<chain, sync, txdb, queue, extras, torn, cut>>

\* A crash came between the batches of a block and its setTip, and that block is
\* not in the chain that ends in b.
Ahead(b) == \E t \in Tx : txs[t] \in Block \ Anc[b] /\ Height[txs[t]] > height

RemoveBlock ==
  /\ First("disconnect") /\ run.stage = "start"
  /\ LET b == Head(queue).of
     IN \/ Height[b] # height /\ Finish /\ torn' = (torn \/ Ahead(Parent[b]))
        \/ Height[b] = height /\ Back(height - 1, {height}) /\ UNCHANGED <<queue, torn>>
  /\ UNCHANGED <<chain, sync, txdb, work, extras, cut>>

ResetChain ==
  /\ First("reset") /\ run.stage = "start"
  /\ LET b == Head(queue).of
     IN \/ Height[b] >= height /\ Finish /\ torn' = (torn \/ Ahead(b))
        \/ Height[b] < height /\ Back(Height[b], Above(Height[b])) /\ UNCHANGED <<queue, torn>>
  /\ UNCHANGED <<chain, sync, txdb, work, extras, cut>>

\* scan(h), asked for or (syncChain) from the highest block both have.
SyncHeight == Max({h \in 0..height : hashes[h] \in Main})

Scan(h) ==
  \/ h = height /\ run' = Waiting /\ torn' = (torn \/ Ahead(tip))
  \/ h # height /\ Back(h, Above(h)) /\ UNCHANGED torn

Rescan ==
  /\ First("rescan") /\ run.stage = "start"
  /\ \E h \in 0..height : Scan(h)
  /\ UNCHANGED <<chain, sync, txdb, queue, work, extras, cut>>

SyncNode ==
  /\ First("sync") /\ run.stage = "start"
  /\ Scan(SyncHeight)
  /\ UNCHANGED <<chain, sync, txdb, queue, work, extras, cut>>

WentBack ==
  /\ run.stage = "back" /\ run.left = {} /\ work = <<>>
  /\ SetTip(run.block)
  /\ IF Head(queue).kind \in {"rescan", "sync"} THEN run' = Waiting /\ UNCHANGED queue
     ELSE Finish
  /\ UNCHANGED <<chain, txdb, work, extras, torn, cut>>

----------------------------------------------------------------------------
\* Scanning.

\* chain.scan has the lock; it throws when the wallet's tip is not in the chain.
ScanStart ==
  /\ run.stage = "wait" /\ work = <<>> /\ locker = "free"
  /\ \/ /\ hashes[height] \in Main
        /\ locker' = "scan" /\ run' = Scanning(hashes[height])
        /\ UNCHANGED <<queue, cut>>
     \/ /\ hashes[height] \notin Main
        /\ Finish /\ cut' = TRUE /\ UNCHANGED locker
  /\ UNCHANGED <<tip, goal, announced, sync, txdb, work, extras, torn>>

\* rescanBlock.
ScanBlock ==
  /\ run.stage = "scan" /\ run.block # NoBlock /\ work = <<>>
  /\ run' = IF Height[run.block] \in {height, height + 1} THEN Adding(run.block)
            ELSE Scanning(After(run.block))
  /\ UNCHANGED <<chain, sync, txdb, queue, work, extras, torn, cut>>

\* The scan has come to the tip.
ScanEnd ==
  /\ run.stage = "scan" /\ run.block = NoBlock
  /\ locker' = "free" /\ Finish
  /\ UNCHANGED <<tip, goal, announced, sync, txdb, work, extras, torn, cut>>

----------------------------------------------------------------------------
\* What the user asks for, and crashes.

AskRescan ==
  /\ extras < MaxExtras
  /\ extras' = extras + 1
  /\ queue' = Append(queue, Req("rescan", NoBlock))
  /\ UNCHANGED <<chain, sync, txdb, run, work, torn, cut>>

\* A crash came amid the revert of a block of the chain.
Behind ==
  \E h \in 0..height : hashes[h] \in Main /\ \E t \in TxsOf(hashes[h]) : txs[t] = Pending

\* abortRescan, which chain.scan looks at before each block.
Abort ==
  /\ run.stage = "scan" /\ run.block # NoBlock /\ work = <<>>
  /\ locker' = "free" /\ Finish /\ cut' = TRUE
  /\ torn' = (torn \/ Behind)
  /\ UNCHANGED <<tip, goal, announced, sync, txdb, work, extras>>

\* remove, abandon and zap, which take writeLock only.
RemoveTX(t) ==
  /\ extras < MaxExtras /\ work = <<>> /\ txs[t] # Absent
  /\ extras' = extras + 1
  /\ work' = Erasing({t})
  /\ UNCHANGED <<chain, sync, txdb, queue, run, torn, cut>>

\* Transactions of the block above are recorded, but not all of the block at the
\* wallet's height: the wallet was made there.
Unscanned ==
  /\ \E t \in Tx : Mined(t) /\ Height[txs[t]] > height
  /\ \E t \in TxsOf(hashes[height]) : ~Mined(t) /\ Ours(t) # {}

\* Records are kept and the chain is; the wallet comes back with syncNode.
Crash ==
  /\ extras < MaxExtras
  /\ extras' = extras + 1
  /\ queue' = <<Req("sync", NoBlock)>> /\ run' = NoJob /\ work' = <<>>
  /\ locker' = "free" /\ goal' = tip
  /\ torn' = \/ torn \/ \E h \in Heights \ mapped : blocks[h] # <<>>
             \/ run.stage = "back" /\ Head(queue).kind # "disconnect"
             \/ Unscanned
  /\ UNCHANGED <<tip, announced, sync, txdb, cut>>

----------------------------------------------------------------------------
WalletStep ==
  \/ WriteInsert \/ WriteConfirm \/ WriteErase \/ WriteDisconnect
  \/ AddTX \/ AddedTX \/ AddBlock \/ AddBlockTX \/ AddedBlock
  \/ RemoveBlock \/ ResetChain \/ Rescan \/ SyncNode \/ RevertBlock \/ WentBack
  \/ ScanStart \/ ScanBlock \/ ScanEnd

ChainStep == Move \/ Release

Asked == AskRescan \/ Abort \/ Crash \/ \E t \in Tx : Announce(t) \/ RemoveTX(t)

Next ==
  \/ WalletStep \/ ChainStep \/ Asked
  \/ \E b \in Block : SetBest(b) \/ Reset(b)

Spec == Init /\ [][Next]_vars

\* The event loop runs the handlers; the chain goes on when it is answered.
FairSpec == Spec /\ WF_vars(WalletStep) /\ WF_vars(ChainStep)

----------------------------------------------------------------------------
\* Properties.

\* The running totals are what the records add up to, after any order of
\* insertions, confirmations, conflicts, removals, reorganizations and crashes:
\* insert, confirm, erase and disconnect each book what they change.
BalancesAdd ==
  ~torn =>
    balance =
      [tx |-> Cardinality({t \in Tx : Exists(t)}),
       coin |-> Cardinality(credits \ flagged),
       unconfirmed |-> Sum(credits \ flagged),
       confirmed |-> Sum({c \in credits : Mined(Maker[c])})]

\* Every wallet transaction is recorded as the spender of the coins it spends;
\* a credit it spends is kept, flagged, while it is pending and gone once it is
\* mined; every credit is watched, and no two transactions of the wallet spend
\* one coin: removeConflicts finds every double spend through the spend
\* records, those of foreign inputs included.
SpendsAgree ==
  ~torn =>
    /\ credits \subseteq watch /\ flagged = UNION {Undone(t) \cap credits : t \in Tx}
    /\ \A t \in Tx : Exists(t) =>
      /\ \A c \in Undone(t) : spent[c] = t /\ (c \in credits <=> txs[t] = Pending)
      /\ Mined(t) => Inputs[t] \cap credits = {}
      /\ txs[t] = Pending => \A c \in Inputs[t] : spent[c] = t /\ c \in watch
      /\ \A x \in Tx \ {t} : Exists(x) => Inputs[t] \cap Inputs[x] = {}

\* The blocks that the wallet has hashes of.
Seen == {hashes[h] : h \in 0..height}

\* The coins of a transaction's inputs that the wallet could know: those whose
\* maker it has.
Known(t) == {c \in Inputs[t] \cap Mine : Maker[c] \in Tx /\ Exists(Maker[c])}

\* When nothing is under way the wallet is on the chain, it has exactly the
\* transactions of the chain that concern it as mined, each in its block, and
\* none pending that the chain rules out: events, scans and restarts miss and
\* repeat nothing.
Settled == queue = <<>> /\ work = <<>> /\ locker = "free"

FollowsChain ==
  Settled /\ ~torn =>
    /\ Seen \subseteq Main /\ (cut \/ hashes[height] = tip)
    /\ \A t \in Tx :
         /\ Mined(t) => \/ txs[t] \in Seen /\ t \in TxsOf(txs[t])
                        \/ cut /\ Height[txs[t]] > height
         /\ txs[t] = Pending => \A b \in Seen : Rivals(t) \cap TxsOf(b) = {}
         /\ ~cut /\ Ours(t) \cup Known(t) # {} =>
              \A b \in Seen \ Anc[Start] : t \in TxsOf(b) => txs[t] = b

\* No assertion of confirm or disconnect fails: what a transaction spends has
\* a height before it is mined, and a block is taken back last first.
NeverFails == ~torn => ~Fails

\* The chain has its lock and waits for the wallet, the wallet for that lock.
Jammed == locker = "event" /\ Outstanding /\ run.stage = "wait"

\* The wallet comes to the chain's tip and stays there, unless a scan waits for
\* the lock of a chain that waits for the wallet, or was cut short.
CatchesUp == <>[](hashes[height] = tip \/ Jammed \/ cut)
=============================================================================
