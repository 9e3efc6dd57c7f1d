---------------------------- MODULE MempoolIndex ----------------------------
(***************************************************************************)
(* What lib/mempool/mempool.js keeps: the entries and the index of what    *)
(* they spend, the orphans and the index of what they wait for, the        *)
(* rejects filter, and MempoolCache, the copy on disk with the batch of    *)
(* writes it has not been given yet (options.persistent is on).            *)
(* Each operator below says what one method does to this state.            *)
(***************************************************************************)
EXTENDS Transactions

CONSTANTS
  NoTx,         \* "nobody spends this coin"
  MaxSize,      \* options.maxSize, a transaction having size 1
  MaxOrphans,   \* options.maxOrphans
  MaxAncestors  \* options.maxAncestors

ASSUME MempoolAssumption ==
  /\ NoTx \notin Tx
  /\ MaxSize \in Nat
  /\ MaxOrphans \in Nat \ {0}
  /\ MaxAncestors \in Nat \ {0}

VARIABLES
  pool,         \* this.map
  spents,       \* this.spents: coin -> the entry that spends it
  orphans,      \* this.orphans: transaction -> orphan.missing, 0 for no orphan
  waiting,      \* this.waiting: id -> orphans that wait for it, {} for no set
  rejects,      \* this.rejects
  batch,        \* cache.batch: entries to put and to delete
  disk,         \* entries in the database
  diskTip       \* the tip in the database

cacheVars == <<batch, disk, diskTip>>
indexVars == <<pool, spents, orphans, waiting, rejects, cacheVars>>

NoBatch == [put |-> {}, del |-> {}]

IndexTypeOK ==
  /\ pool \subseteq Tx
  /\ spents \in [Coin -> Tx \cup {NoTx}]
  /\ orphans \in [Tx -> Nat]
  /\ waiting \in [TxId -> SUBSET Tx]
  /\ rejects \subseteq Tx
  /\ batch \in [put : SUBSET Tx, del : SUBSET Tx]
  /\ disk \subseteq Tx
  /\ diskTip \in Block

----------------------------------------------------------------------------
\* Entries and the coins they spend.

SpentBack(txs) == UNION {Inputs[t] : t \in txs}

\* trackEntry and cache.save.
Track(t) ==
  /\ pool' = pool \cup {t}
  /\ spents' = [c \in Coin |-> IF c \in Inputs[t] THEN t ELSE spents[c]]
  /\ batch' = [put |-> batch.put \cup {t}, del |-> batch.del \ {t}]
  /\ UNCHANGED <<disk, diskTip>>

\* Mutant of Untrack: the entry stays in the cache.
UntrackMemory(txs) ==
  /\ pool' = pool \ txs
  /\ spents' = [c \in Coin |-> IF c \in SpentBack(txs) THEN NoTx ELSE spents[c]]
  /\ UNCHANGED <<batch, disk, diskTip>>

\* removeEntry on each of txs: untrackEntry and cache.remove.
Untrack(txs) ==
  /\ pool' = pool \ txs
  /\ spents' = [c \in Coin |-> IF c \in SpentBack(txs) THEN NoTx ELSE spents[c]]
  /\ batch' = [put |-> batch.put \ txs, del |-> batch.del \cup txs]
  /\ UNCHANGED <<disk, diskTip>>

\* The entries that spend one of these coins.
SpendersOf(coins) == {spents[c] : c \in coins} \ {NoTx}

\* Mutant of Package: an evicted entry leaves its spenders behind.
PackageAlone(roots) == roots

\* What evictEntry removes, called on each of roots: removeSpenders goes down
\* the spents index from output to output.
Package(roots) ==
  {t \in pool :
    \A S \in SUBSET pool :
      /\ roots \subseteq S
      /\ \A s \in S : SpendersOf(Outputs(s)) \subseteq S
      => t \in S}

\* hasDepends
HasDepends(t) == Parents(t) \cap pool # {}

\* _countAncestors; whoever has more than maxAncestors is rejected all the same.
Ancestors(t) ==
  {a \in pool :
    \A S \in SUBSET pool :
      /\ Parents(t) \cap pool \subseteq S
      /\ \A s \in S : Parents(s) \cap pool \subseteq S
      => a \in S}

\* The size a trimmed pool may keep: no more than maxSize - maxSize / 10.
Fits(txs) == 10 * Cardinality(txs) <= 9 * MaxSize

\* What limitSize may remove from a pool over its limit.  Whoever spends no entry
\* goes with its package: first those that have expired, then, while the pool
\* does not fit, the others from the lowest fee rate up.
Trimmings ==
  LET roots == {t \in pool : ~HasDepends(t)} IN
  {gone \in SUBSET pool :
    \E expired \in SUBSET roots :
      \E cheap \in SUBSET (roots \ expired) :
        /\ gone = Package(expired \cup cheap)
        /\ Fits(pool \ gone) \/ expired \cup cheap = roots
        /\ cheap # {} =>
             \E last \in cheap :
               ~Fits(pool \ Package(expired \cup (cheap \ {last})))}

----------------------------------------------------------------------------
\* Orphans and the ids they wait for.

Orphans == {t \in Tx : orphans[t] > 0}

\* The assertion in removeOrphan: whichever id of its inputs somebody waits for,
\* this orphan waits for it too.
Removable(t) == \A p \in Parents(t) : waiting[p] # {} => t \in waiting[p]

\* Mutant of Unwaited: the orphan goes, and is waited for still.
UnwaitedNot(t) == waiting

\* removeOrphan
Unwaited(t) == [p \in TxId |-> waiting[p] \ {t}]
Forgotten(t) == [orphans EXCEPT ![t] = 0]

\* removeOrphan until its assertion fails: some of the waits are gone.
Torn(t) ==
  {[p \in TxId |-> IF p \in done THEN waiting[p] \ {t} ELSE waiting[p]] :
     done \in SUBSET {p \in Parents(t) : t \in waiting[p]}}

\* The end of maybeOrphan: t waits for these ids.
Store(t, ids, wait, missing) ==
  /\ waiting' = [p \in TxId |-> IF p \in ids THEN wait[p] \cup {t} ELSE wait[p]]
  /\ orphans' = [missing EXCEPT ![t] = Cardinality(ids)]

\* Mutant of HasRoom: the orphans are limited once they are over the limit.
HasRoomLate == Cardinality(Orphans) <= MaxOrphans

\* limitOrphans: whether none has to go.
HasRoom == Cardinality(Orphans) < MaxOrphans

\* limitOrphans picks a victim at random, and t takes its place.
StoreInRoom(t, ids) ==
  \/ HasRoom /\ Store(t, ids, waiting, orphans)
  \/ /\ ~HasRoom
     /\ \E victim \in Orphans :
          /\ Removable(victim)
          /\ Store(t, ids, Unwaited(victim), Forgotten(victim))

\* resolveOrphans: those t was the last missing parent of.
Resolved(t) == {o \in waiting[t] : orphans[o] = 1}

\* Mutant of Resolve: the set of t is kept.
ResolveKept(t) ==
  /\ orphans' = [o \in Tx |-> IF o \in waiting[t] THEN orphans[o] - 1 ELSE orphans[o]]
  /\ UNCHANGED waiting

Resolve(t) ==
  /\ orphans' = [o \in Tx |-> IF o \in waiting[t] THEN orphans[o] - 1 ELSE orphans[o]]
  /\ waiting' = [waiting EXCEPT ![t] = {}]

----------------------------------------------------------------------------
\* MempoolCache.

\* What the disk holds once the batch is written.
Flushed == (disk \cup batch.put) \ batch.del

\* cache.flush
Flush(tip) ==
  /\ disk' = Flushed
  /\ diskTip' = tip
  /\ batch' = NoBatch

\* cache.wipe and cache.clear
Wipe(tip) ==
  /\ disk' = {}
  /\ diskTip' = tip
  /\ batch' = NoBatch
=============================================================================
