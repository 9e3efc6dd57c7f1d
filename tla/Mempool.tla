------------------------------ MODULE Mempool ------------------------------
(***************************************************************************)
(* lib/mempool/mempool.js with what drives it: addTX calls that queue on   *)
(* the chain lock, and the connect, disconnect, reorganize and reset       *)
(* events of the chain, which lib/node/fullnode.js hands to the mempool    *)
(* while the chain holds that lock.  The chain is any behaviour of Ledger, *)
(* the specification Chain is shown to implement.  One step runs from one  *)
(* insertTX, removed entry or batch write to the next; the process may die *)
(* between any two.                                                        *)
(***************************************************************************)
EXTENDS MempoolIndex

CONSTANTS
  MaxQueue,     \* bound: addTX calls waiting for the lock
  Resets,       \* whether an operator may reset the chain
  Crashes       \* whether the process may die and restart

ASSUME DriverAssumption ==
  /\ MaxQueue \in Nat \ {0}
  /\ {Resets, Crashes} \subseteq BOOLEAN

VARIABLES
  head,         \* chain.tip
  utxo,         \* the coins of the chain database
  goal,         \* the block the chain is moving to; head when it is not
  reorg,        \* whether this move still has its reorganize event to come
  mtip,         \* mempool.tip
  queue,        \* locker: transactions whose addTX waits for the lock
  op,           \* the method of the mempool under way
  txs,          \* the transactions of a block its loop has not come to
  stack         \* the handleOrphans calls under way, innermost first

L == INSTANCE Ledger

chainVars == <<head, utxo, goal, reorg>>
control == <<op, txs, stack>>
vars == <<indexVars, chainVars, mtip, queue, control>>

\* handleOrphans(tx) with the resolved orphans still to insert; own tells the
\* call that addEntry makes from the one that _addBlock makes.
Frame == [tx : Tx, left : Seq(Tx), own : BOOLEAN]

TypeOK ==
  /\ IndexTypeOK
  /\ {head, goal, mtip} \subseteq Block
  /\ utxo \subseteq Coin
  /\ reorg \in BOOLEAN
  /\ queue \in Seq(Tx)
  /\ op \in {"idle", "add", "connect", "disconnect", "reset"}
  /\ txs \in Seq(Tx)
  /\ stack \in Seq(Frame)

\* Mempool#open over an empty database.
Init ==
  /\ L!Init
  /\ goal = Genesis
  /\ reorg = FALSE
  /\ pool = {}
  /\ spents = [c \in Coin |-> NoTx]
  /\ orphans = [t \in Tx |-> 0]
  /\ waiting = [p \in TxId |-> {}]
  /\ rejects = {}
  /\ batch = NoBatch
  /\ disk = {}
  /\ diskTip = Genesis
  /\ mtip = Genesis
  /\ queue = <<>>
  /\ op = "idle"
  /\ txs = <<>>
  /\ stack = <<>>

LockFree == op = "idle" /\ goal = head

\* A peer or an RPC calls addTX.
Request(t) ==
  /\ Len(queue) < MaxQueue
  /\ queue' = Append(queue, t)
  /\ UNCHANGED <<indexVars, chainVars, mtip, control>>

----------------------------------------------------------------------------
\* insertTX, called by addTX, by handleOrphans or by _removeBlock.

Adding == LockFree /\ queue # <<>>
Resolving == stack # <<>> /\ Head(stack).left # <<>>
Reinserting == op = "disconnect" /\ stack = <<>> /\ txs # <<>>

\* Who waits for the lock while insertTX runs.
StillQueued == IF Adding THEN Tail(queue) ELSE queue

\* An orphan handleOrphans has just seen become an orphan again.
DoubleOrphaned == Resolving /\ orphans[Head(Head(stack).left)] > 0

Callee(t) ==
  \/ Adding /\ t = Head(queue)
  \/ Resolving /\ ~DoubleOrphaned /\ t = Head(Head(stack).left)
  \/ Reinserting /\ t = Head(txs) /\ t \notin pool

\* The caller has called insertTX, and goes on to the next when this one has
\* returned at once.
Called ==
  /\ queue' = StillQueued
  /\ txs' = IF Reinserting THEN Tail(txs) ELSE txs

Rest == IF Resolving THEN [stack EXCEPT ![1].left = Tail(@)] ELSE stack

Answered == Called /\ stack' = Rest /\ op' = IF Adding THEN "add" ELSE op

\* A VerifyError: addTX and handleOrphans note the transaction, _removeBlock
\* goes on.
RejectedAs(t) == IF Reinserting THEN rejects ELSE rejects \cup {t}

\* Mutant of Exists: the lock's queue only.
ExistsQueued(t) == t \in ToSet(StillQueued)

\* exists: waiting for the lock, an orphan, or an entry.
Exists(t) == t \in ToSet(StillQueued) \cup Orphans \cup pool

\* Mutant of IsDoubleSpend: coins of other entries only.
IsDoubleSpendOfEntry(t) == SpendersOf({c \in Inputs[t] : Maker[c] \in pool}) # {}

IsDoubleSpend(t) == SpendersOf(Inputs[t]) # {}

\* The checks before the coin view is read.
Relayable(t) ==
  /\ t \in Standard
  /\ ~Exists(t)
  /\ Outputs(t) \cap utxo = {}
  /\ ~IsDoubleSpend(t)

\* getCoinView: an entry's output that no entry spends, or a coin of the chain.
InView(coin) ==
  IF Maker[coin] \in pool THEN SpendersOf({coin}) = {} ELSE coin \in utxo

\* The ids maybeOrphan finds missing.
Missing(t) == {Maker[c] : c \in {i \in Inputs[t] : ~InView(i)}}

\* maybeOrphan does not wait for an id it has, or has rejected.
Hopeless(t) == Missing(t) \cap (rejects \cup pool) # {}

\* verify
Verified(t) ==
  /\ t \in Verifies
  /\ Cardinality(Ancestors(t)) < MaxAncestors

\* insertTX throws a VerifyError before it changes anything.
Refuse(t) ==
  /\ \/ t \in TimeLocked
     \/ ~Relayable(t)
     \/ Missing(t) = {} /\ ~Verified(t)
  /\ rejects' = RejectedAs(t)
  /\ Called /\ stack' = Rest /\ UNCHANGED op
  /\ UNCHANGED <<pool, spents, orphans, waiting, cacheVars>>

\* maybeOrphan rejects the child of a rejected transaction.
Drop(t) ==
  /\ Relayable(t)
  /\ Hopeless(t)
  /\ rejects' = rejects \cup {t}
  /\ Answered
  /\ UNCHANGED <<pool, spents, orphans, waiting, cacheVars>>

\* maybeOrphan keeps t; handleOrphans, in its next step, will not.
KeepOrphan(t) ==
  /\ Relayable(t)
  /\ Missing(t) # {} /\ ~Hopeless(t)
  /\ StoreInRoom(t, Missing(t))
  /\ IF Resolving THEN UNCHANGED <<queue, control>> ELSE Answered
  /\ UNCHANGED <<pool, spents, rejects, cacheVars>>

\* addEntry, up to the first orphan that handleOrphans inserts.
Accept(t) ==
  /\ Relayable(t)
  /\ Missing(t) = {}
  /\ Verified(t)
  /\ Track(t)
  /\ Resolve(t)
  /\ Called
  /\ op' = IF Adding THEN "add" ELSE op
  /\ \E left \in SetToSeqs(Resolved(t)) :
       stack' = <<[tx |-> t, left |-> left, own |-> TRUE]>> \o Rest
  /\ UNCHANGED rejects

InsertTX ==
  /\ \E t \in Tx : Callee(t) /\ (Refuse(t) \/ Drop(t) \/ KeepOrphan(t) \/ Accept(t))
  /\ UNCHANGED <<chainVars, mtip>>

----------------------------------------------------------------------------
\* The rest of insertTX and of addTX.

\* Mutant of LeaveOrphaned: the orphan is not removed again.
LeaveOrphanedKept ==
  /\ DoubleOrphaned
  /\ UNCHANGED <<indexVars, chainVars, mtip, queue, control>>

\* handleOrphans takes out an orphan it could not resolve after all.
LeaveOrphaned ==
  /\ DoubleOrphaned
  /\ LET t == Head(Head(stack).left) IN
       /\ Removable(t)
       /\ waiting' = Unwaited(t)
       /\ orphans' = Forgotten(t)
  /\ stack' = Rest
  /\ UNCHANGED <<pool, spents, rejects, cacheVars, chainVars, mtip, queue, op, txs>>

Returning == stack # <<>> /\ Head(stack).left = <<>>

\* The end of insertTX: limitSize, and "mempool full" when that removed t.
LimitSize ==
  /\ Returning /\ Head(stack).own
  /\ LET t == Head(stack).tx
         outer == Tail(stack) IN
       /\ stack' = outer
       /\ \/ /\ Cardinality(pool) <= MaxSize
             /\ UNCHANGED <<pool, spents, rejects, cacheVars, op>>
          \/ /\ Cardinality(pool) > MaxSize
             /\ \E gone \in Trimmings :
                  /\ Untrack(gone)
                  /\ IF t \in pool \ gone
                     THEN UNCHANGED <<rejects, op>>
                     ELSE /\ rejects' = IF op = "disconnect" /\ outer = <<>>
                                        THEN rejects ELSE rejects \cup {t}
                          /\ op' = IF op = "add" /\ outer = <<>> THEN "idle" ELSE op
  /\ UNCHANGED <<orphans, waiting, chainVars, mtip, queue, txs>>

\* addTX returns; it writes the batch when it last did over ten seconds ago.
ReturnTX ==
  /\ op = "add" /\ stack = <<>>
  /\ op' = "idle"
  /\ Flush(diskTip) \/ UNCHANGED cacheVars
  /\ UNCHANGED <<pool, spents, orphans, waiting, rejects, chainVars, mtip,
                 queue, txs, stack>>

----------------------------------------------------------------------------
\* The chain moves, one block at a time, and tells the mempool.

Move(b) ==
  /\ LockFree
  /\ ChainWork[b] > ChainWork[head]
  /\ Parent[b] = head \/ head \notin Anc[b]
  /\ goal' = b
  /\ reorg' = (Parent[b] # head)
  /\ UNCHANGED <<indexVars, head, utxo, mtip, queue, control>>

Moving == op = "idle" /\ goal # head

\* The block after head on the way to goal.
NextUp(b) == Parent[b] = head /\ b \in Anc[goal]

\* The chain emits reorganize before it connects goal itself.
ReorgDue == Moving /\ reorg /\ NextUp(goal)

\* _addBlock and _removeBlock begin, or return at once.
Begin(method, block) ==
  /\ IF pool = {}
     THEN mtip' = head' /\ UNCHANGED <<op, txs>>
     ELSE op' = method /\ txs' = BlockTxs[block] /\ UNCHANGED mtip
  /\ UNCHANGED <<indexVars, goal, reorg, queue, stack>>

Connect(b) ==
  /\ Moving /\ ~ReorgDue
  /\ NextUp(b)
  /\ L!Extend(b)
  /\ Begin("connect", b)

Disconnect ==
  /\ Moving
  /\ head \notin Anc[goal]
  /\ L!Retract
  /\ Begin("disconnect", head)

\* The next block turns out to be invalid.
GiveUp ==
  /\ Moving /\ ~ReorgDue
  /\ \E b \in Block : NextUp(b) /\ ~L!FullyValid(b)
  /\ goal' = head
  /\ reorg' = FALSE
  /\ UNCHANGED <<indexVars, head, utxo, mtip, queue, control>>

\* _addBlock, whose loop runs from the last transaction to the first: one that
\* is an entry, which is confirmed.
Confirm ==
  /\ op = "connect" /\ stack = <<>> /\ txs # <<>>
  /\ Last(txs) \in pool
  /\ Untrack({Last(txs)})
  /\ txs' = Front(txs)
  /\ UNCHANGED <<orphans, waiting, rejects, chainVars, mtip, queue, op, stack>>

\* One that is not: it is no orphan any more, its double spends go, and those
\* that waited for it are tried.
Settle ==
  /\ op = "connect" /\ stack = <<>> /\ txs # <<>>
  /\ LET t == Last(txs) IN
       /\ t \notin pool
       /\ t \in Orphans => Removable(t)
       /\ Untrack(Package(SpendersOf(Inputs[t])))
       /\ orphans' = [o \in Tx |-> IF o = t THEN 0
                                   ELSE IF o \in waiting[t] THEN orphans[o] - 1
                                   ELSE orphans[o]]
       /\ waiting' = [(IF t \in Orphans THEN Unwaited(t) ELSE waiting)
                        EXCEPT ![t] = {}]
       /\ \E left \in SetToSeqs(Resolved(t)) :
            stack' = IF waiting[t] = {} THEN <<>>
                     ELSE <<[tx |-> t, left |-> left, own |-> FALSE]>>
  /\ txs' = Front(txs)
  /\ UNCHANGED <<rejects, chainVars, mtip, queue, op>>

\* handleOrphans returns to _addBlock.
LeaveBlockOrphans ==
  /\ Returning /\ ~Head(stack).own
  /\ stack' = Tail(stack)
  /\ UNCHANGED <<indexVars, chainVars, mtip, queue, op, txs>>

\* _removeBlock passes by what is still an entry.
StillHere ==
  /\ Reinserting /\ Head(txs) \in pool
  /\ txs' = Tail(txs)
  /\ UNCHANGED <<indexVars, chainVars, mtip, queue, op, stack>>

\* Mutant of SyncBlock: the loop stops short of the first transaction.
SyncBlockEarly ==
  /\ op \in {"connect", "disconnect"} /\ stack = <<>> /\ Len(txs) <= 1
  /\ rejects' = {}
  /\ Flush(head)
  /\ mtip' = head
  /\ op' = "idle"
  /\ txs' = <<>>
  /\ UNCHANGED <<pool, spents, orphans, waiting, chainVars, queue, stack>>

\* Both methods end in rejects.reset, cache.sync and cache.flush.
SyncBlock ==
  /\ op \in {"connect", "disconnect"} /\ stack = <<>> /\ txs = <<>>
  /\ rejects' = {}
  /\ Flush(head)
  /\ mtip' = head
  /\ op' = "idle"
  /\ UNCHANGED <<pool, spents, orphans, waiting, chainVars, queue, txs, stack>>

\* _handleReorg
HandleReorg ==
  /\ ReorgDue
  /\ reorg' = FALSE
  /\ \E late \in SUBSET TimeLocked :
       Untrack(Package(pool \cap (late \cup Relocked)))
  /\ UNCHANGED <<orphans, waiting, rejects, head, utxo, goal, mtip, queue, control>>

\* An assertion in removeOrphan fails.  handleOrphans and addTX let the error
\* through, _removeBlock goes on with the next transaction, and FullNode, which
\* called _addBlock, only reports it.
RemoveFails ==
  /\ \E t \in Orphans :
       /\ ~Removable(t)
       /\ \/ /\ \E u \in Tx : /\ Callee(u) /\ Relayable(u)
                              /\ Missing(u) # {} /\ ~Hopeless(u)
             /\ ~HasRoom
          \/ DoubleOrphaned /\ t = Head(Head(stack).left)
          \/ op = "connect" /\ stack = <<>> /\ txs # <<>> /\ t = Last(txs)
       /\ waiting' \in Torn(t)
  /\ queue' = StillQueued
  /\ stack' = <<>>
  /\ op' = IF op = "disconnect" THEN op ELSE "idle"
  /\ txs' = IF Reinserting THEN Tail(txs) ELSE IF op = "disconnect" THEN txs ELSE <<>>
  /\ UNCHANGED <<pool, spents, orphans, rejects, cacheVars, chainVars, mtip>>

----------------------------------------------------------------------------
\* The chain is reset to a lower block, and only then says so.
Rewind ==
  /\ Resets
  /\ LockFree \/ op = "reset"
  /\ L!Retract
  /\ goal' = head'
  /\ op' = "reset"
  /\ UNCHANGED <<indexVars, reorg, mtip, queue, txs, stack>>

\* _reset
Reset ==
  /\ op = "reset"
  /\ pool' = {}
  /\ spents' = [c \in Coin |-> NoTx]
  /\ orphans' = [t \in Tx |-> 0]
  /\ waiting' = [p \in TxId |-> {}]
  /\ rejects' = {}
  /\ Wipe(head)
  /\ mtip' = head
  /\ op' = "idle"
  /\ UNCHANGED <<chainVars, queue, txs, stack>>

\* trackEntry on every entry that open reads from the database.
Loaded == IF diskTip = head THEN disk ELSE {}

\* The process stops or dies, neither of which writes the batch, and starts
\* again: MempoolCache#verify wipes entries that are not those of the chain's tip.
Restart ==
  /\ Crashes
  /\ pool' = Loaded
  /\ spents' = [c \in Coin |-> IF \E t \in Loaded : c \in Inputs[t]
                               THEN CHOOSE t \in Loaded : c \in Inputs[t] ELSE NoTx]
  /\ orphans' = [t \in Tx |-> 0]
  /\ waiting' = [p \in TxId |-> {}]
  /\ rejects' = {}
  /\ disk' = Loaded
  /\ diskTip' = head
  /\ batch' = NoBatch
  /\ mtip' = head
  /\ goal' = head
  /\ reorg' = FALSE
  /\ queue' = <<>>
  /\ op' = "idle"
  /\ txs' = <<>>
  /\ stack' = <<>>
  /\ UNCHANGED <<head, utxo>>

----------------------------------------------------------------------------
\* What the holder of the lock does next.
Step ==
  \/ InsertTX \/ LeaveOrphaned \/ LimitSize \/ ReturnTX
  \/ Disconnect \/ (\E b \in Block : Connect(b)) \/ GiveUp \/ HandleReorg
  \/ Confirm \/ Settle \/ LeaveBlockOrphans \/ StillHere \/ SyncBlock
  \/ RemoveFails \/ Reset

Next ==
  \/ Step
  \/ \E t \in Tx : Request(t)
  \/ \E b \in Block : Move(b)
  \/ Rewind
  \/ Restart

Spec == Init /\ [][Next]_vars

\* A promise that is under way is settled in the end.
FairSpec == Spec /\ WF_vars(Step)

----------------------------------------------------------------------------
\* Every input of every entry is indexed to it and to it alone: trackEntry and
\* untrackEntry keep this.spents in step with this.map, and no two entries spend
\* the same coin.
SpentsIndexPool ==
  /\ \A t \in pool : \A c \in Inputs[t] : spents[c] = t
  /\ \A c \in Coin :
       spents[c] # NoTx => spents[c] \in pool /\ c \in Inputs[spents[c]]

\* Whoever is in a set of this.waiting is in this.orphans, as resolveOrphans
\* asserts, and lacks at least as many parents as there are sets it is in: it is
\* never inserted while it still waits for one.
WaitingTracked ==
  \A t \in Tx : Cardinality({p \in TxId : t \in waiting[p]}) <= orphans[t]

\* An orphan is not an entry: exists keeps a transaction from being both.
OrphansApart == Orphans \cap pool = {}

\* limitOrphans keeps this.orphans within options.maxOrphans, also while
\* handleOrphans puts back what it could not resolve.
OrphansBounded == Cardinality(Orphans) <= MaxOrphans

\* The database and the batch together hold the entries of the pool, so a flush
\* at any time leaves a faithful copy.
CacheTracksPool == Flushed = pool

\* The entries some input of which neither the pool nor the chain has.
Dangling ==
  {t \in pool : \E c \in Inputs[t] : Maker[c] \notin pool /\ c \notin utxo}

\* While no block is taken in or out, no entry loses a coin it spends: addTX,
\* limitSize and _handleReorg remove an entry with all that depend on it.
NoneLeftDangling ==
  [][head' = head /\ op \in {"idle", "add"} /\ ~Restart
     => Dangling' \subseteq Dangling]_vars

\* When _addBlock has come to its end no transaction of the block is an entry or
\* an orphan, whatever orphans it inserted on the way.
BlockLeavesPool ==
  [][op = "connect" /\ SyncBlock => TxsOf(head) \cap (pool' \cup Orphans') = {}]_vars

\* The miner's assertion: when the chain lock is free the mempool is at the tip
\* of the chain.
MinerSafe == LockFree => mtip = head

\* Whoever holds the chain lock to insert a transaction or to take in or out a
\* block lets go of it: the orphans it resolves do not keep it busy for ever.
LockReleased == op # "idle" ~> op = "idle"
=============================================================================
