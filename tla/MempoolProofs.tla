--------------------------- MODULE MempoolProofs ---------------------------
(***************************************************************************)
(* Proofs about the mempool, for every set of transactions and blocks and  *)
(* every limit, with resets and restarts.  IndexInv joins what the runs    *)
(* check of the entries with what a restart needs: that the database never *)
(* holds two entries that spend the same coin.  WaitInv is about orphans   *)
(* and what they wait for, BlockInv about _addBlock with the orphans that  *)
(* it inserts on its way.                                                  *)
(***************************************************************************)
EXTENDS Mempool, FiniteSetTheorems, SequenceTheorems, TLAPS

Typed ==
  /\ pool \subseteq Tx
  /\ disk \subseteq Tx
  /\ spents \in [Coin -> Tx \cup {NoTx}]
  /\ orphans \in [Tx -> Int]
  /\ batch \in [put : SUBSET Tx, del : SUBSET Tx]

DiskApart == \A s, t \in disk : s # t => Inputs[s] \cap Inputs[t] = {}

IndexInv == Typed /\ SpentsIndexPool /\ CacheTracksPool /\ OrphansApart /\ DiskApart

\* No transaction becomes an orphan.
OrphansShrink ==
  /\ orphans' \in [Tx -> Int]
  /\ \A t \in Tx : orphans'[t] > 0 => orphans[t] > 0

----------------------------------------------------------------------------
\* What an eviction removes is in the pool, and whoever spends one of its
\* outputs goes with it.
LEMMA PackageClosed ==
  ASSUME Typed, SpentsIndexPool, NEW roots
  PROVE  /\ Package(roots) \subseteq pool
         /\ \A s \in Package(roots) : SpendersOf(Outputs(s)) \subseteq Package(roots)
<1>1. Package(roots) \subseteq pool
  BY DEF Package
<1>2. SUFFICES ASSUME NEW s \in Package(roots), NEW t \in SpendersOf(Outputs(s))
               PROVE  t \in Package(roots)
  BY <1>1
<1>3. t \in pool
  BY DEF SpendersOf, Outputs, SpentsIndexPool
<1>4. SUFFICES ASSUME NEW S \in SUBSET pool, roots \subseteq S,
                      \A u \in S : SpendersOf(Outputs(u)) \subseteq S
               PROVE  t \in S
  BY <1>3 DEF Package
<1>5. s \in S
  BY <1>4 DEF Package
<1> QED
  BY <1>4, <1>5

\* Without new orphans the pool and the orphans stay apart when the pool does
\* not grow.
LEMMA ShrinkApart ==
  ASSUME Typed, OrphansApart, OrphansShrink, pool' \subseteq pool
  PROVE  OrphansApart'
<1>1. \A t \in Tx : orphans[t] \in Int /\ orphans'[t] \in Int
  BY DEF Typed, OrphansShrink
<1> QED
  BY <1>1 DEF OrphansApart, Orphans, OrphansShrink

\* trackEntry on a transaction that conflicts with no entry.
LEMMA TrackKeeps ==
  ASSUME IndexInv, OrphansShrink, NEW t \in Tx,
         t \notin Orphans, SpendersOf(Inputs[t]) = {}, Track(t)
  PROVE  IndexInv'
<1>0. Inputs[t] \subseteq Coin
  BY TxAssumption DEF TxAssumption
<1>2. \A c \in Inputs[t] : spents[c] = NoTx
  BY <1>0 DEF SpendersOf, IndexInv
<1> USE TxAssumption DEF IndexInv
<1>1. Typed'
  BY DEF Typed, Track, OrphansShrink
<1>3. SpentsIndexPool'
  <2>1. ASSUME NEW s \in pool', NEW c \in Inputs[s]
        PROVE  spents'[c] = s
    <3>1. c \in Coin
      BY <1>1 DEF Typed, TxAssumption
    <3>2. CASE s = t
      BY <3>1, <3>2 DEF Track
    <3>3. CASE s # t
      <4>1. s \in pool /\ spents[c] = s
        BY <3>3 DEF Track, SpentsIndexPool
      <4>2. s # NoTx
        BY <4>1, MempoolAssumption DEF Typed, MempoolAssumption
      <4> QED
        BY <3>1, <4>1, <4>2, <1>2 DEF Track
    <3> QED
      BY <3>2, <3>3
  <2>2. ASSUME NEW c \in Coin, spents'[c] # NoTx
        PROVE  spents'[c] \in pool' /\ c \in Inputs[spents'[c]]
    BY <2>2 DEF Track, SpentsIndexPool
  <2> QED
    BY <2>1, <2>2 DEF SpentsIndexPool
<1>4. CacheTracksPool'
  BY DEF CacheTracksPool, Flushed, Track, Typed
<1>5. OrphansApart'
  <2>1. \A s \in Tx : orphans[s] \in Int /\ orphans'[s] \in Int
    BY DEF Typed, OrphansShrink
  <2> QED
    BY <2>1 DEF OrphansApart, Orphans, OrphansShrink, Track
<1>6. DiskApart'
  BY DEF DiskApart, Track
<1> QED
  BY <1>1, <1>3, <1>4, <1>5, <1>6

\* removeEntry on any of the entries.
LEMMA UntrackKeeps ==
  ASSUME IndexInv, OrphansShrink, NEW S \in SUBSET pool, Untrack(S)
  PROVE  IndexInv'
<1> USE TxAssumption DEF IndexInv
<1>1. Typed'
  BY DEF Typed, Untrack, OrphansShrink
<1>2. SpentsIndexPool'
  <2>1. ASSUME NEW s \in pool', NEW c \in Inputs[s]
        PROVE  spents'[c] = s
    <3>1. s \in pool /\ s \notin S /\ c \in Coin /\ spents[c] = s
      BY DEF Typed, TxAssumption, Untrack, SpentsIndexPool
    <3>2. c \notin SpentBack(S)
      BY <3>1 DEF SpentBack, SpentsIndexPool
    <3> QED
      BY <3>1, <3>2 DEF Untrack
  <2>2. ASSUME NEW c \in Coin, spents'[c] # NoTx
        PROVE  spents'[c] \in pool' /\ c \in Inputs[spents'[c]]
    <3>1. c \notin SpentBack(S) /\ spents'[c] = spents[c]
      BY <2>2 DEF Untrack
    <3>2. spents[c] \in pool /\ c \in Inputs[spents[c]]
      BY <2>2, <3>1 DEF SpentsIndexPool
    <3>3. spents[c] \notin S
      BY <3>1, <3>2 DEF SpentBack
    <3> QED
      BY <3>1, <3>2, <3>3 DEF Untrack
  <2> QED
    BY <2>1, <2>2 DEF SpentsIndexPool
<1>3. CacheTracksPool'
  BY DEF CacheTracksPool, Flushed, Untrack, Typed
<1>4. OrphansApart'
  BY ShrinkApart DEF Untrack
<1>5. DiskApart'
  BY DEF DiskApart, Untrack
<1> QED
  BY <1>1, <1>2, <1>3, <1>4, <1>5

\* A batch write leaves the pool as it is and the database with its entries.
LEMMA FlushKeeps ==
  ASSUME IndexInv, NEW block, Flush(block), UNCHANGED <<pool, spents, orphans>>
  PROVE  IndexInv'
<1> USE DEF IndexInv
<1>1. Typed' /\ CacheTracksPool' /\ OrphansApart'
  BY DEF Typed, CacheTracksPool, Flushed, Flush, NoBatch, OrphansApart, Orphans
<1>2. SpentsIndexPool'
  BY DEF SpentsIndexPool
<1>3. \A t \in pool : \A c \in Inputs[t] : spents[c] = t
  BY DEF SpentsIndexPool
<1>4. DiskApart'
  BY <1>3 DEF DiskApart, CacheTracksPool, Flush
<1> QED
  BY <1>1, <1>2, <1>4

\* A step that only moves orphans.
LEMMA SameKeeps ==
  ASSUME IndexInv, UNCHANGED <<pool, spents, cacheVars>>,
         orphans' \in [Tx -> Int], OrphansApart'
  PROVE  IndexInv'
<1> USE DEF IndexInv, cacheVars
<1>1. Typed' /\ CacheTracksPool' /\ DiskApart'
  BY DEF Typed, CacheTracksPool, Flushed, DiskApart
<1>2. SpentsIndexPool'
  BY DEF SpentsIndexPool
<1> QED
  BY <1>1, <1>2

\* A transaction waits for finitely many ids.
LEMMA MissingFinite ==
  ASSUME NEW t \in Tx
  PROVE  Cardinality(Missing(t)) \in Int
<1> DEFINE Unseen == {i \in Inputs[t] : ~InView(i)}
           f == [c \in Unseen |-> Maker[c]]
<1>1. IsFiniteSet(Unseen)
  BY FS_Subset, TxAssumption DEF TxAssumption
<1>2. Missing(t) = {f[c] : c \in Unseen}
  BY DEF Missing
<1>3. f \in Surjection(Unseen, Missing(t))
  BY <1>2 DEF Surjection
<1>4. IsFiniteSet(Missing(t))
  BY <1>1, <1>3, FS_Surjection
<1> QED
  BY <1>4, FS_CardinalityType

----------------------------------------------------------------------------
\* One lemma per group of actions.

LEMMA InsertKeeps ==
  ASSUME IndexInv, InsertTX
  PROVE  IndexInv'
<1>1. PICK t \in Tx : Refuse(t) \/ Drop(t) \/ KeepOrphan(t) \/ Accept(t)
  BY DEF InsertTX
<1>2. CASE Refuse(t) \/ Drop(t)
  <2>1. UNCHANGED <<pool, spents, orphans, cacheVars>>
    BY <1>2 DEF Refuse, Drop
  <2>2. orphans' \in [Tx -> Int] /\ OrphansApart'
    BY <2>1 DEF IndexInv, Typed, OrphansApart, Orphans
  <2> QED
    BY <2>1, <2>2, SameKeeps DEF cacheVars
<1>3. CASE KeepOrphan(t)
  <2>1. UNCHANGED <<pool, spents, cacheVars>>
    BY <1>3 DEF KeepOrphan
  <2>2. t \notin pool
    BY <1>3 DEF KeepOrphan, Relayable, Exists
  <2>3. PICK victim \in Tx :
          \/ orphans' = [orphans EXCEPT ![t] = Cardinality(Missing(t))]
          \/ orphans' = [[orphans EXCEPT ![victim] = 0]
                           EXCEPT ![t] = Cardinality(Missing(t))]
    BY <1>3 DEF KeepOrphan, StoreInRoom, Store, Forgotten, Orphans
  <2>4. orphans' \in [Tx -> Int]
    BY <2>3, MissingFinite DEF IndexInv, Typed
  <2>5. \A o \in Tx \ {t} : orphans'[o] > 0 => orphans[o] > 0
    BY <2>3 DEF IndexInv, Typed
  <2>6. OrphansApart'
    BY <2>1, <2>2, <2>5 DEF IndexInv, OrphansApart, Orphans
  <2> QED
    BY <2>1, <2>4, <2>6, SameKeeps DEF cacheVars
<1>4. CASE Accept(t)
  <2>1. Track(t) /\ SpendersOf(Inputs[t]) = {} /\ t \notin Orphans
    BY <1>4 DEF Accept, Relayable, Exists, IsDoubleSpend
  <2>2. OrphansShrink
    BY <1>4 DEF Accept, Resolve, OrphansShrink, IndexInv, Typed
  <2> QED
    BY <2>1, <2>2, TrackKeeps
<1> QED
  BY <1>1, <1>2, <1>3, <1>4

LEMMA RemovalShrinks ==
  ASSUME IndexInv, LimitSize \/ Confirm \/ Settle \/ HandleReorg
  PROVE  OrphansShrink
<1>1. CASE UNCHANGED orphans
  BY <1>1 DEF IndexInv, Typed, OrphansShrink
<1>2. CASE Settle
  <2>1. PICK t \in {Last(txs)} :
          orphans' = [o \in Tx |-> IF o = t THEN 0
                                  ELSE IF o \in waiting[t] THEN orphans[o] - 1
                                  ELSE orphans[o]]
    BY <1>2 DEF Settle
  <2>2. \A o \in Tx : orphans[o] \in Int
    BY DEF IndexInv, Typed
  <2> QED
    BY <2>1, <2>2 DEF OrphansShrink
<1> QED
  BY <1>1, <1>2 DEF LimitSize, Confirm, HandleReorg

LEMMA RemovalKeeps ==
  ASSUME IndexInv, LimitSize \/ Confirm \/ Settle \/ HandleReorg
  PROVE  IndexInv'
<1>0. SpentsIndexPool /\ Typed
  BY DEF IndexInv
<1>1. OrphansShrink
  BY RemovalShrinks
<1>2. CASE LimitSize
  <2>1. CASE UNCHANGED <<pool, spents, orphans, cacheVars>>
    <3>1. orphans' \in [Tx -> Int] /\ OrphansApart'
      BY <2>1 DEF IndexInv, Typed, OrphansApart, Orphans
    <3> QED
      BY <2>1, <3>1, SameKeeps DEF cacheVars
  <2>2. CASE \E gone \in Trimmings : Untrack(gone)
    <3>1. PICK gone \in SUBSET pool : Untrack(gone)
      BY <2>2 DEF Trimmings
    <3> QED
      BY <1>1, <3>1, UntrackKeeps
  <2> QED
    BY <1>2, <2>1, <2>2 DEF LimitSize
<1>3. CASE Confirm
  <2>1. {Last(txs)} \in SUBSET pool /\ Untrack({Last(txs)})
    BY <1>3 DEF Confirm
  <2> QED
    BY <1>1, <2>1, UntrackKeeps
<1>4. CASE Settle
  <2>1. PICK roots : Untrack(Package(roots))
    BY <1>4 DEF Settle
  <2> QED
    BY <1>0, <1>1, <2>1, PackageClosed, UntrackKeeps
<1>5. CASE HandleReorg
  <2>1. PICK roots : Untrack(Package(roots))
    BY <1>5 DEF HandleReorg
  <2> QED
    BY <1>0, <1>1, <2>1, PackageClosed, UntrackKeeps
<1> QED
  BY <1>2, <1>3, <1>4, <1>5

LEMMA RestartKeeps ==
  ASSUME IndexInv, Reset \/ Restart
  PROVE  IndexInv'
<1> USE DEF IndexInv
<1>1. CASE Reset
  <2>1. Typed' /\ CacheTracksPool' /\ OrphansApart' /\ DiskApart'
    BY <1>1 DEF Reset, Wipe, NoBatch, Typed, CacheTracksPool, Flushed, OrphansApart,
                Orphans, DiskApart
  <2>2. SpentsIndexPool'
    BY <1>1 DEF Reset, SpentsIndexPool
  <2> QED
    BY <2>1, <2>2
<1>2. CASE Restart
  <2>1. Loaded \subseteq disk
    BY DEF Loaded
  <2>2. \A t \in Loaded : \A c \in Inputs[t] :
          c \in Coin /\ (CHOOSE u \in Loaded : c \in Inputs[u]) = t
    BY <2>1, TxAssumption DEF DiskApart, Typed, TxAssumption
  <2>3. pool' = Loaded /\ disk' = Loaded
    BY <1>2 DEF Restart
  <2>4. Typed'
    BY <1>2, <2>1 DEF Restart, Typed, NoBatch
  <2>5. SpentsIndexPool'
    <3>1. ASSUME NEW t \in pool', NEW c \in Inputs[t]
          PROVE  spents'[c] = t
      BY <1>2, <2>2, <2>3 DEF Restart
    <3>2. ASSUME NEW c \in Coin, spents'[c] # NoTx
          PROVE  spents'[c] \in pool' /\ c \in Inputs[spents'[c]]
      BY <1>2, <2>2, <2>3, <3>2 DEF Restart
    <3> QED
      BY <3>1, <3>2 DEF SpentsIndexPool
  <2>6. CacheTracksPool' /\ OrphansApart'
    BY <1>2 DEF Restart, CacheTracksPool, Flushed, NoBatch, OrphansApart, Orphans
  <2>7. DiskApart'
    BY <2>1, <2>3 DEF DiskApart
  <2> QED
    BY <2>4, <2>5, <2>6, <2>7
<1> QED
  BY <1>1, <1>2

\* The remaining actions move no entry, and take orphans out if they touch them.
LEMMA OthersKeep ==
  ASSUME IndexInv, UNCHANGED indexVars
  PROVE  IndexInv'
<1>1. UNCHANGED <<pool, spents, orphans, cacheVars>>
  BY DEF indexVars
<1>2. orphans' \in [Tx -> Int] /\ OrphansApart'
  BY <1>1 DEF IndexInv, Typed, OrphansApart, Orphans
<1> QED
  BY <1>1, <1>2, SameKeeps

LEMMA LeaveShrinks ==
  ASSUME IndexInv, LeaveOrphaned \/ RemoveFails
  PROVE  OrphansShrink
BY DEF LeaveOrphaned, RemoveFails, Forgotten, IndexInv, Typed, OrphansShrink

LEMMA OrphansLeaveKeeps ==
  ASSUME IndexInv, LeaveOrphaned \/ RemoveFails
  PROVE  IndexInv'
<1>1. UNCHANGED <<pool, spents, cacheVars>>
  BY DEF LeaveOrphaned, RemoveFails
<1>2. OrphansShrink
  BY LeaveShrinks
<1>3. OrphansApart'
  BY <1>1, <1>2, ShrinkApart DEF IndexInv
<1> QED
  BY <1>1, <1>2, <1>3, SameKeeps DEF OrphansShrink

LEMMA WriteKeeps ==
  ASSUME IndexInv, ReturnTX \/ SyncBlock
  PROVE  IndexInv'
<1>1. UNCHANGED <<pool, spents, orphans>>
  BY DEF ReturnTX, SyncBlock
<1>2. CASE \E block \in {diskTip, head} : Flush(block)
  BY <1>1, <1>2, FlushKeeps
<1>3. CASE UNCHANGED cacheVars
  <2>1. orphans' \in [Tx -> Int] /\ OrphansApart'
    BY <1>1 DEF IndexInv, Typed, OrphansApart, Orphans
  <2> QED
    BY <1>1, <1>3, <2>1, SameKeeps
<1> QED
  BY <1>2, <1>3 DEF ReturnTX, SyncBlock

----------------------------------------------------------------------------
\* The chain the mempool is told about: its tip is a block, and every move of
\* the tip is to another block.
ChainInv == head \in Block

MempoolInv == IndexInv /\ ChainInv

LEMMA HeadMoves ==
  ASSUME ChainInv, Disconnect \/ (\E b \in Block : Connect(b)) \/ Rewind
  PROVE  head' # head /\ head' \in Block
<1>1. CASE L!Retract
  BY <1>1, TreeAssumption DEF L!Retract, ChainInv, TreeAssumption
<1>2. ASSUME NEW b \in Block, L!Extend(b)
      PROVE  head' # head /\ head' \in Block
  <2>1. b \in Anc[b] \/ b = Genesis
    BY TreeAssumption DEF TreeAssumption
  <2>2. Parent[b] # b
    BY <2>1, TreeAssumption DEF TreeAssumption
  <2> QED
    BY <1>2, <2>2 DEF L!Extend
<1> QED
  BY <1>1, <1>2 DEF Disconnect, Connect, Rewind

\* What the actions that neither insert, remove, write nor restart leave alone.
Idle ==
  \/ Disconnect \/ (\E b \in Block : Connect(b)) \/ GiveUp
  \/ LeaveBlockOrphans \/ StillHere
  \/ (\E t \in Tx : Request(t)) \/ (\E b \in Block : Move(b)) \/ Rewind

LEMMA IdleSame ==
  ASSUME Idle
  PROVE  UNCHANGED indexVars
BY DEF Idle, Disconnect, Connect, Begin, GiveUp, LeaveBlockOrphans, StillHere,
       Request, Move, Rewind

LEMMA NextActions ==
  ASSUME [Next]_vars
  PROVE  \/ InsertTX
         \/ LimitSize \/ Confirm \/ Settle \/ HandleReorg
         \/ LeaveOrphaned \/ RemoveFails
         \/ ReturnTX \/ SyncBlock
         \/ Reset \/ Restart
         \/ Idle
         \/ UNCHANGED vars
BY DEF Next, Step, Idle

LEMMA InitInv ==
  ASSUME Init
  PROVE  MempoolInv
<1>1. IndexInv
  <2>1. Typed /\ CacheTracksPool /\ OrphansApart /\ DiskApart
    BY DEF Init, Typed, NoBatch, CacheTracksPool, Flushed, OrphansApart, Orphans,
           DiskApart
  <2>2. SpentsIndexPool
    BY DEF Init, SpentsIndexPool
  <2> QED
    BY <2>1, <2>2 DEF IndexInv
<1>2. ChainInv
  BY TreeAssumption DEF Init, L!Init, ChainInv, TreeAssumption
<1> QED
  BY <1>1, <1>2 DEF MempoolInv

LEMMA StepInv ==
  ASSUME MempoolInv, [Next]_vars
  PROVE  MempoolInv'
<1>1. IndexInv /\ ChainInv
  BY DEF MempoolInv
<1>2. IndexInv'
  <2>1. CASE InsertTX
    BY <1>1, <2>1, InsertKeeps
  <2>2. CASE LimitSize \/ Confirm \/ Settle \/ HandleReorg
    BY <1>1, <2>2, RemovalKeeps
  <2>3. CASE LeaveOrphaned \/ RemoveFails
    BY <1>1, <2>3, OrphansLeaveKeeps
  <2>4. CASE ReturnTX \/ SyncBlock
    BY <1>1, <2>4, WriteKeeps
  <2>5. CASE Reset \/ Restart
    BY <1>1, <2>5, RestartKeeps
  <2>6. CASE Idle
    BY <1>1, <2>6, IdleSame, OthersKeep
  <2>7. CASE UNCHANGED vars
    BY <1>1, <2>7, OthersKeep DEF vars
  <2> QED
    BY <2>1, <2>2, <2>3, <2>4, <2>5, <2>6, <2>7, NextActions
<1>3. ChainInv'
  <2>1. CASE UNCHANGED head
    BY <1>1, <2>1 DEF ChainInv
  <2>2. CASE Disconnect \/ (\E b \in Block : Connect(b)) \/ Rewind
    BY <1>1, <2>2, HeadMoves DEF ChainInv
  <2>3. UNCHANGED head \/ Disconnect \/ (\E b \in Block : Connect(b)) \/ Rewind
    BY NextActions DEF Idle, InsertTX, LimitSize, Confirm, Settle, HandleReorg,
       LeaveOrphaned, RemoveFails, ReturnTX, SyncBlock, Reset, Restart, GiveUp,
       LeaveBlockOrphans, StillHere, Request, Move, vars, chainVars
  <2> QED
    BY <2>1, <2>2, <2>3
<1> QED
  BY <1>2, <1>3 DEF MempoolInv

LEMMA Inductive ==
  Spec => []MempoolInv
<1>1. Init => MempoolInv
  BY InitInv
<1>2. MempoolInv /\ [Next]_vars => MempoolInv'
  BY StepInv
<1> QED
  BY <1>1, <1>2, PTL DEF Spec

----------------------------------------------------------------------------
\* Whatever is added, evicted, confirmed, put back after a reorganization or
\* loaded after a crash, this.spents indexes the inputs of the entries and
\* nothing else; no two entries spend the same coin.
THEOREM Indexed == Spec => []SpentsIndexPool
<1>1. MempoolInv => SpentsIndexPool
  BY DEF MempoolInv, IndexInv
<1> QED
  BY <1>1, Inductive, PTL

\* cache.save and cache.remove, called where entries come and go, keep database
\* and batch together equal to the pool.
THEOREM Copied == Spec => []CacheTracksPool
<1>1. MempoolInv => CacheTracksPool
  BY DEF MempoolInv, IndexInv
<1> QED
  BY <1>1, Inductive, PTL

\* No transaction is an orphan and an entry at once, also while addEntry and
\* _addBlock turn orphans into entries.
THEOREM Apart == Spec => []OrphansApart
<1>1. MempoolInv => OrphansApart
  BY DEF MempoolInv, IndexInv
<1> QED
  BY <1>1, Inductive, PTL

----------------------------------------------------------------------------
\* What goes with all that spends it leaves no entry without its coins.
LEMMA ClosedRemoval ==
  ASSUME IndexInv, UNCHANGED utxo, NEW roots, Untrack(Package(roots))
  PROVE  Dangling' \subseteq Dangling
<1> DEFINE gone == Package(roots)
<1>1. /\ pool' = pool \ gone
      /\ \A s \in gone : SpendersOf(Outputs(s)) \subseteq gone
  BY PackageClosed DEF IndexInv, Untrack
<1>2. SUFFICES ASSUME NEW t \in pool, t \notin gone, NEW c \in Inputs[t],
                      Maker[c] \notin pool \ gone, c \notin utxo
               PROVE  t \in Dangling
  BY <1>1 DEF Dangling
<1>3. c \in Coin /\ t \in Tx
  BY TxAssumption DEF TxAssumption, IndexInv, Typed
<1>4. ASSUME Maker[c] \in gone
      PROVE  FALSE
  <2>1. c \in Outputs(Maker[c])
    BY <1>3 DEF Outputs
  <2>2. spents[c] = t /\ t # NoTx
    BY <1>3, MempoolAssumption DEF IndexInv, SpentsIndexPool, MempoolAssumption
  <2>3. t \in SpendersOf(Outputs(Maker[c]))
    BY <2>1, <2>2 DEF SpendersOf
  <2> QED
    BY <1>1, <1>2, <1>4, <2>3
<1> QED
  BY <1>2, <1>4 DEF Dangling

\* An accepted transaction finds all its coins.
LEMMA InsertionFunded ==
  ASSUME IndexInv, InsertTX
  PROVE  Dangling' \subseteq Dangling
<1>1. UNCHANGED utxo
  BY DEF InsertTX, chainVars
<1>2. CASE UNCHANGED pool
  BY <1>1, <1>2 DEF Dangling
<1>3. ASSUME NEW t \in Tx, Accept(t)
      PROVE  Dangling' \subseteq Dangling
  <2>1. pool' = pool \cup {t}
    BY <1>3 DEF Accept, Track
  <2>2. \A c \in Inputs[t] : Maker[c] \in pool \/ c \in utxo
    BY <1>3 DEF Accept, Missing, InView
  <2> QED
    BY <1>1, <2>1, <2>2 DEF Dangling
<1> QED
  BY <1>2, <1>3 DEF InsertTX, Refuse, Drop, KeepOrphan

\* While no block is taken in or out no entry loses a coin it spends: an entry is
\* accepted with all its coins at hand, and limitSize and _handleReorg remove
\* none without its descendants, which the spents index leads them to.
THEOREM Funded == Spec => NoneLeftDangling
<1>1. ASSUME MempoolInv, [Next]_vars, UNCHANGED head, op \in {"idle", "add"}, ~Restart
      PROVE  Dangling' \subseteq Dangling
  <2>1. IndexInv /\ ChainInv
    BY <1>1 DEF MempoolInv
  <2>2. CASE InsertTX
    BY <2>1, <2>2, InsertionFunded
  <2>3. CASE LimitSize \/ HandleReorg
    <3>1. UNCHANGED utxo
      BY <2>3 DEF LimitSize, HandleReorg, chainVars
    <3>2. CASE UNCHANGED pool
      BY <3>1, <3>2 DEF Dangling
    <3>3. CASE \E roots : Untrack(Package(roots))
      BY <2>1, <3>1, <3>3, ClosedRemoval
    <3> QED
      BY <2>3, <3>2, <3>3 DEF LimitSize, HandleReorg, Trimmings
  <2>4. ~(Confirm \/ Settle \/ SyncBlock \/ Reset)
    BY <1>1 DEF Confirm, Settle, SyncBlock, Reset
  <2>5. ~(Disconnect \/ (\E b \in Block : Connect(b)) \/ Rewind)
    BY <1>1, <2>1, HeadMoves
  <2>6. CASE UNCHANGED <<pool, utxo>>
    BY <2>6 DEF Dangling
  <2>7. InsertTX \/ LimitSize \/ HandleReorg \/ UNCHANGED <<pool, utxo>>
    <3>1. CASE LeaveOrphaned \/ RemoveFails \/ ReturnTX
      BY <3>1 DEF LeaveOrphaned, RemoveFails, ReturnTX, chainVars
    <3>2. CASE Idle
      BY <2>5, <3>2 DEF Idle, GiveUp, LeaveBlockOrphans, StillHere, Request, Move,
         indexVars, chainVars
    <3>3. CASE UNCHANGED vars
      BY <3>3 DEF vars, indexVars, chainVars
    <3> QED
      BY <1>1, <2>4, <3>1, <3>2, <3>3, NextActions
  <2> QED
    BY <2>2, <2>3, <2>6, <2>7
<1>2. MempoolInv /\ [Next]_vars
        => [head' = head /\ op \in {"idle", "add"} /\ ~Restart
              => Dangling' \subseteq Dangling]_vars
  BY <1>1
<1> QED
  BY <1>2, Inductive, PTL DEF Spec, NoneLeftDangling

----------------------------------------------------------------------------
\* Orphans only come in one place.
LEMMA OrphansMove ==
  ASSUME MempoolInv, [Next]_vars
  PROVE  OrphansShrink \/ \E t \in Tx : KeepOrphan(t)
<1>1. IndexInv /\ Typed
  BY DEF MempoolInv, IndexInv
<1>2. CASE InsertTX
  <2>1. PICK t \in Tx : Refuse(t) \/ Drop(t) \/ KeepOrphan(t) \/ Accept(t)
    BY <1>2 DEF InsertTX
  <2>2. CASE UNCHANGED orphans
    BY <1>1, <2>2 DEF Typed, OrphansShrink
  <2>3. CASE Accept(t)
    BY <1>1, <2>3 DEF Accept, Resolve, Typed, OrphansShrink
  <2> QED
    BY <2>1, <2>2, <2>3 DEF Refuse, Drop
<1>3. CASE LimitSize \/ Confirm \/ Settle \/ HandleReorg
  BY <1>1, <1>3, RemovalShrinks
<1>4. CASE LeaveOrphaned
  BY <1>1, <1>4, LeaveShrinks
<1>5. CASE Reset \/ Restart
  BY <1>5 DEF Reset, Restart, OrphansShrink
<1>6. CASE UNCHANGED orphans
  BY <1>1, <1>6 DEF Typed, OrphansShrink
<1>7. RemoveFails \/ ReturnTX \/ SyncBlock \/ Idle \/ UNCHANGED vars => UNCHANGED orphans
  BY IdleSame DEF RemoveFails, ReturnTX, SyncBlock, vars, indexVars
<1> QED
  BY <1>2, <1>3, <1>4, <1>5, <1>6, <1>7, NextActions

LEMMA WithinBound ==
  ASSUME NEW S, IsFiniteSet(S), Cardinality(S) <= MaxOrphans, Orphans' \subseteq S
  PROVE  OrphansBounded'
<1>1. Cardinality(Orphans') <= Cardinality(S)
  BY FS_Subset
<1>2. Cardinality(Orphans') \in Nat /\ Cardinality(S) \in Nat /\ MaxOrphans \in Nat
  BY FS_Subset, FS_CardinalityType, MempoolAssumption DEF MempoolAssumption
<1> QED
  BY <1>1, <1>2 DEF OrphansBounded

LEMMA BoundKeeps ==
  ASSUME MempoolInv, OrphansBounded, [Next]_vars
  PROVE  OrphansBounded'
<1>0. /\ \A t \in Tx : orphans[t] \in Int
      /\ IsFiniteSet(Orphans)
      /\ MaxOrphans \in Nat
  BY FS_Subset, TxAssumption, MempoolAssumption
     DEF MempoolInv, IndexInv, Typed, Orphans, TxAssumption, MempoolAssumption
<1>1. CASE OrphansShrink
  <2>1. Orphans' \subseteq Orphans
    BY <1>1 DEF OrphansShrink, Orphans
  <2>2. Cardinality(Orphans') <= Cardinality(Orphans)
    BY <1>0, <2>1, FS_Subset
  <2>3. Cardinality(Orphans) \in Nat /\ Cardinality(Orphans') \in Nat
    BY <1>0, <2>1, FS_Subset, FS_CardinalityType
  <2> QED
    BY <1>0, <2>2, <2>3 DEF OrphansBounded
<1>2. ASSUME NEW t \in Tx, KeepOrphan(t)
      PROVE  OrphansBounded'
  <2>1. CASE HasRoom /\ Store(t, Missing(t), waiting, orphans)
    <3>1. Orphans' \subseteq Orphans \cup {t}
      BY <2>1 DEF Store, Orphans, MempoolInv, IndexInv, Typed
    <3>2. Cardinality(Orphans \cup {t}) <= MaxOrphans
      BY <1>0, <2>1, FS_AddElement, FS_CardinalityType DEF HasRoom
    <3> QED
      BY <1>0, <3>1, <3>2, WithinBound, FS_AddElement
  <2>2. ASSUME NEW victim \in Orphans,
               Store(t, Missing(t), Unwaited(victim), Forgotten(victim))
        PROVE  OrphansBounded'
    <3>1. Orphans' \subseteq (Orphans \ {victim}) \cup {t}
      BY <2>2 DEF Store, Forgotten, Orphans, MempoolInv, IndexInv, Typed
    <3> DEFINE rest == Orphans \ {victim}
    <3>2. IsFiniteSet(rest) /\ Cardinality(rest) = Cardinality(Orphans) - 1
      BY <1>0, FS_RemoveElement
    <3>3. Cardinality(rest \cup {t}) <= MaxOrphans
      <4>1. Cardinality(Orphans) \in Nat /\ Cardinality(Orphans) <= MaxOrphans
        BY <1>0, FS_CardinalityType DEF OrphansBounded
      <4>2. Cardinality(rest \cup {t}) \in {Cardinality(rest), Cardinality(rest) + 1}
        BY <3>2, FS_AddElement
      <4> HIDE DEF rest
      <4> QED
        BY <1>0, <3>2, <4>1, <4>2
    <3> QED
      BY <3>1, <3>2, <3>3, WithinBound, FS_AddElement
  <2> QED
    BY <1>2, <2>1, <2>2 DEF KeepOrphan, StoreInRoom
<1> QED
  BY <1>1, <1>2, OrphansMove

\* limitOrphans keeps this.orphans within options.maxOrphans, also when
\* handleOrphans puts an orphan back that it could not resolve.
THEOREM OrphansLimited == Spec => []OrphansBounded
<1>1. Init => OrphansBounded
  <2>1. Init => Orphans = {}
    BY DEF Init, Orphans
  <2> QED
    BY <2>1, FS_EmptySet, MempoolAssumption DEF OrphansBounded, MempoolAssumption
<1>2. MempoolInv /\ OrphansBounded /\ [Next]_vars => OrphansBounded'
  BY BoundKeeps
<1> QED
  BY <1>1, <1>2, Inductive, PTL DEF Spec

----------------------------------------------------------------------------
\* The ids that have t in their set of this.waiting.
Waits(t) == {p \in TxId : t \in waiting[p]}

\* An orphan is only in the sets of its own parents, and lacks as many parents as
\* it is in sets, at least.
WaitInv ==
  /\ orphans \in [Tx -> Nat]
  /\ waiting \in [TxId -> SUBSET Tx]
  /\ \A t \in Tx :
       /\ Waits(t) \subseteq Parents(t)
       /\ Cardinality(Waits(t)) <= orphans[t]

----------------------------------------------------------------------------
\* this.waiting and the count of parents an orphan lacks.
LEMMA ParentsFinite ==
  ASSUME NEW t \in Tx
  PROVE  /\ Parents(t) \subseteq TxId /\ IsFiniteSet(Parents(t))
         /\ Missing(t) \subseteq Parents(t)
<1> DEFINE f == [c \in Inputs[t] |-> Maker[c]]
<1>1. Inputs[t] \subseteq Coin /\ IsFiniteSet(Inputs[t])
  BY FS_Subset, TxAssumption DEF TxAssumption
<1>2. f \in Surjection(Inputs[t], Parents(t))
  BY DEF Surjection, Parents
<1>3. IsFiniteSet(Parents(t))
  BY <1>1, <1>2, FS_Surjection
<1>4. Parents(t) \subseteq TxId
  BY <1>1, TxAssumption DEF Parents, TxAssumption
<1>5. Missing(t) \subseteq Parents(t)
  BY DEF Missing, Parents
<1> QED
  BY <1>3, <1>4, <1>5

LEMMA WaitsFinite ==
  ASSUME WaitInv, NEW t \in Tx
  PROVE  IsFiniteSet(Waits(t)) /\ Cardinality(Waits(t)) \in Nat
BY ParentsFinite, FS_Subset, FS_CardinalityType DEF WaitInv

LEMMA NoOrphanWaits ==
  ASSUME WaitInv, NEW t \in Tx, t \notin Orphans
  PROVE  orphans[t] = 0 /\ Waits(t) = {}
<1>1. orphans[t] = 0
  BY DEF WaitInv, Orphans
<1>2. Cardinality(Waits(t)) = 0
  BY <1>1, WaitsFinite DEF WaitInv
<1> QED
  BY <1>1, <1>2, WaitsFinite, FS_EmptySet

\* What a step may do to the waits of one orphan: leave it in fewer sets, or
\* in none, or in those of some parents, as many as it is said to lack, or take
\* it out of one set and count that.
Rewaits(t, nowWaiting, nowOrphans) ==
  LET now == {p \in TxId : t \in nowWaiting[p]} IN
  \/ now \subseteq Waits(t) /\ nowOrphans[t] = orphans[t]
  \/ now = {} /\ nowOrphans[t] = 0
  \/ now \subseteq Parents(t) /\ nowOrphans[t] = Cardinality(now)
  \/ \E p \in Waits(t) : now = Waits(t) \ {p} /\ nowOrphans[t] = orphans[t] - 1

LEMMA WaitsStep ==
  ASSUME WaitInv, waiting' \in [TxId -> SUBSET Tx], orphans' \in [Tx -> Int],
         \A t \in Tx : Rewaits(t, waiting', orphans')
  PROVE  WaitInv'
<1> SUFFICES ASSUME NEW t \in Tx
             PROVE  /\ orphans'[t] \in Nat
                    /\ Waits(t)' \subseteq Parents(t)
                    /\ Cardinality(Waits(t)') <= orphans'[t]
  BY DEF WaitInv
<1>1. /\ Waits(t) \subseteq Parents(t) /\ Cardinality(Waits(t)) <= orphans[t]
      /\ orphans[t] \in Nat
      /\ IsFiniteSet(Waits(t)) /\ Cardinality(Waits(t)) \in Nat
  BY WaitsFinite DEF WaitInv
<1> DEFINE now == Waits(t)'
<1>2. now = {p \in TxId : t \in waiting'[p]}
  BY DEF Waits
<1>3. CASE now \subseteq Waits(t) /\ orphans'[t] = orphans[t]
  <2>1. Cardinality(now) <= Cardinality(Waits(t)) /\ Cardinality(now) \in Nat
    BY <1>1, <1>3, FS_Subset, FS_CardinalityType
  <2> QED
    BY <1>1, <1>3, <2>1
<1>4. CASE now = {} /\ orphans'[t] = 0
  BY <1>4, FS_EmptySet
<1>5. CASE now \subseteq Parents(t) /\ orphans'[t] = Cardinality(now)
  <2>1. Cardinality(now) \in Nat
    BY <1>5, ParentsFinite, FS_Subset, FS_CardinalityType
  <2> QED
    BY <1>5, <2>1
<1>6. ASSUME NEW p \in Waits(t), now = Waits(t) \ {p}, orphans'[t] = orphans[t] - 1
      PROVE  /\ orphans'[t] \in Nat
             /\ now \subseteq Parents(t)
             /\ Cardinality(now) <= orphans'[t]
  <2>1. Cardinality(now) = Cardinality(Waits(t)) - 1 /\ IsFiniteSet(now)
    BY <1>1, <1>6, FS_RemoveElement
  <2>2. Cardinality(now) \in Nat
    BY <2>1, FS_CardinalityType
  <2> QED
    BY <1>1, <1>6, <2>1, <2>2
<1>7. Rewaits(t, waiting', orphans')
  OBVIOUS
<1> QED
  BY <1>2, <1>3, <1>4, <1>5, <1>6, <1>7 DEF Rewaits

\* The end of maybeOrphan, with or without a victim.
LEMMA StoreWaits ==
  ASSUME WaitInv, NEW t \in Tx, t \notin Orphans, StoreInRoom(t, Missing(t))
  PROVE  WaitInv'
<1>0. Missing(t) \subseteq Parents(t) /\ Missing(t) \subseteq TxId
      /\ Cardinality(Missing(t)) \in Int
  BY ParentsFinite, MissingFinite
<1>1. Waits(t) = {}
  BY NoOrphanWaits
<1>2. CASE Store(t, Missing(t), waiting, orphans)
  <2>1. waiting' \in [TxId -> SUBSET Tx] /\ orphans' \in [Tx -> Int]
    BY <1>0, <1>2 DEF Store, WaitInv
  <2>2. ASSUME NEW u \in Tx
        PROVE  Rewaits(u, waiting', orphans')
    <3> DEFINE now == {p \in TxId : u \in waiting'[p]}
    <3>1. CASE u = t
      <4>1. now = Missing(t) /\ orphans'[u] = Cardinality(Missing(t))
        BY <1>0, <1>1, <1>2, <3>1 DEF Store, Waits, WaitInv
      <4> QED
        BY <1>0, <3>1, <4>1 DEF Rewaits
    <3>2. CASE u # t
      <4>1. now = Waits(u) /\ orphans'[u] = orphans[u]
        BY <1>2, <3>2 DEF Store, Waits, WaitInv
      <4> QED
        BY <4>1 DEF Rewaits
    <3> QED
      BY <3>1, <3>2
  <2> QED
    BY <2>1, <2>2, WaitsStep
<1>3. ASSUME NEW victim \in Orphans,
             Store(t, Missing(t), Unwaited(victim), Forgotten(victim))
      PROVE  WaitInv'
  <2>0. victim # t /\ victim \in Tx
    BY DEF Orphans
  <2>1. waiting' \in [TxId -> SUBSET Tx] /\ orphans' \in [Tx -> Int]
    BY <1>0, <1>3 DEF Store, Unwaited, Forgotten, WaitInv
  <2>2. ASSUME NEW u \in Tx
        PROVE  Rewaits(u, waiting', orphans')
    <3> DEFINE now == {p \in TxId : u \in waiting'[p]}
    <3>1. CASE u = t
      <4>1. now = Missing(t)
        BY <1>0, <1>1, <1>3, <3>1 DEF Store, Unwaited, Waits, WaitInv
      <4>2. orphans'[u] = Cardinality(Missing(t))
        BY <1>3, <3>1 DEF Store, Forgotten, WaitInv
      <4> QED
        BY <1>0, <3>1, <4>1, <4>2 DEF Rewaits
    <3>2. CASE u = victim
      <4>1. now = {} /\ orphans'[u] = 0
        BY <1>3, <2>0, <3>2 DEF Store, Unwaited, Forgotten, Waits, WaitInv
      <4> QED
        BY <4>1 DEF Rewaits
    <3>3. CASE u # t /\ u # victim
      <4>1. now = Waits(u) /\ orphans'[u] = orphans[u]
        BY <1>3, <2>0, <3>3 DEF Store, Unwaited, Forgotten, Waits, WaitInv
      <4> QED
        BY <4>1 DEF Rewaits
    <3> QED
      BY <3>1, <3>2, <3>3
  <2> QED
    BY <2>1, <2>2, WaitsStep
<1> QED
  BY <1>2, <1>3 DEF StoreInRoom

\* resolveOrphans on t; when _addBlock calls it, t is no orphan any more.
LEMMA ResolveWaits ==
  ASSUME WaitInv, NEW t \in TxId, NEW gone \in SUBSET Tx,
         waiting' = [p \in TxId |-> IF p = t THEN {} ELSE waiting[p] \ gone],
         orphans' = [o \in Tx |-> IF o \in gone THEN 0
                                  ELSE IF o \in waiting[t] THEN orphans[o] - 1
                                  ELSE orphans[o]]
  PROVE  WaitInv'
<1>1. waiting' \in [TxId -> SUBSET Tx] /\ orphans' \in [Tx -> Int]
  BY DEF WaitInv
<1>2. ASSUME NEW u \in Tx
      PROVE  Rewaits(u, waiting', orphans')
  <2> DEFINE now == {p \in TxId : u \in waiting'[p]}
  <2>1. CASE u \in gone
    <3>1. now = {} /\ orphans'[u] = 0
      BY <2>1 DEF WaitInv
    <3> QED
      BY <3>1 DEF Rewaits
  <2>2. CASE u \notin gone /\ u \in waiting[t]
    <3>1. now = Waits(u) \ {t} /\ t \in Waits(u) /\ orphans'[u] = orphans[u] - 1
      BY <2>2 DEF Waits, WaitInv
    <3> QED
      BY <3>1 DEF Rewaits
  <2>3. CASE u \notin gone /\ u \notin waiting[t]
    <3>1. now = Waits(u) /\ orphans'[u] = orphans[u]
      BY <2>3 DEF Waits, WaitInv
    <3> QED
      BY <3>1 DEF Rewaits
  <2> QED
    BY <2>1, <2>2, <2>3
<1> QED
  BY <1>1, <1>2, WaitsStep

LEMMA InsertWaits ==
  ASSUME WaitInv, InsertTX
  PROVE  WaitInv'
<1>1. PICK t \in Tx : Refuse(t) \/ Drop(t) \/ KeepOrphan(t) \/ Accept(t)
  BY DEF InsertTX
<1>2. CASE Refuse(t) \/ Drop(t)
  BY <1>2 DEF Refuse, Drop, WaitInv, Waits
<1>3. CASE KeepOrphan(t)
  BY <1>3, StoreWaits DEF KeepOrphan, Relayable, Exists
<1>4. CASE Accept(t)
  <2>1. PICK gone \in SUBSET Tx : gone = {}
    OBVIOUS
  <2>2. /\ waiting' = [p \in TxId |-> IF p = t THEN {} ELSE waiting[p] \ gone]
        /\ orphans' = [o \in Tx |-> IF o \in gone THEN 0
                                    ELSE IF o \in waiting[t] THEN orphans[o] - 1
                                    ELSE orphans[o]]
    BY <1>4, <2>1 DEF Accept, Resolve, WaitInv
  <2> QED
    BY <2>2, ResolveWaits DEF TxId
<1> QED
  BY <1>1, <1>2, <1>3, <1>4

LEMMA SettleWaits ==
  ASSUME WaitInv, Settle, Last(txs) \in Tx
  PROVE  WaitInv'
<1> DEFINE t == Last(txs)
<1>1. \A p \in TxId : (IF t \in Orphans THEN Unwaited(t) ELSE waiting)[p] = waiting[p] \ {t}
  BY NoOrphanWaits DEF Unwaited, Waits
<1>2. waiting' = [(IF t \in Orphans THEN Unwaited(t) ELSE waiting) EXCEPT ![t] = {}]
  BY DEF Settle
<1>3. waiting' = [p \in TxId |-> IF p = t THEN {} ELSE waiting[p] \ {t}]
  BY <1>1, <1>2 DEF Unwaited, WaitInv
<1>4. orphans' = [o \in Tx |-> IF o \in {t} THEN 0
                               ELSE IF o \in waiting[t] THEN orphans[o] - 1
                               ELSE orphans[o]]
  BY DEF Settle
<1> QED
  BY <1>3, <1>4, ResolveWaits DEF TxId

\* removeOrphan, done or cut short, and what empties both maps.
LEMMA LeaveWaits ==
  ASSUME WaitInv, LeaveOrphaned \/ RemoveFails \/ Reset \/ Restart
  PROVE  WaitInv'
<1>1. CASE LeaveOrphaned
  <2>1. PICK t : waiting' = Unwaited(t) /\ orphans' = Forgotten(t)
    BY <1>1 DEF LeaveOrphaned
  <2>2. waiting' \in [TxId -> SUBSET Tx] /\ orphans' \in [Tx -> Int]
    <3>1. orphans \in [Tx -> Int] /\ 0 \in Int
      BY DEF WaitInv
    <3> QED
      BY <2>1, <3>1 DEF WaitInv, Unwaited, Forgotten
  <2>3. ASSUME NEW u \in Tx
        PROVE  Rewaits(u, waiting', orphans')
    BY <2>1 DEF WaitInv, Waits, Rewaits, Unwaited, Forgotten
  <2> QED
    BY <2>2, <2>3, WaitsStep
<1>2. CASE RemoveFails
  <2>1. PICK t : waiting' \in Torn(t)
    BY <1>2 DEF RemoveFails
  <2>2. PICK done : waiting' = [p \in TxId |-> IF p \in done THEN waiting[p] \ {t} ELSE waiting[p]]
    BY <2>1 DEF Torn
  <2>3. waiting' \in [TxId -> SUBSET Tx] /\ orphans' = orphans /\ orphans' \in [Tx -> Int]
    BY <1>2, <2>2 DEF WaitInv, RemoveFails
  <2>4. ASSUME NEW u \in Tx
        PROVE  Rewaits(u, waiting', orphans')
    BY <2>2, <2>3 DEF Waits, Rewaits
  <2> QED
    BY <2>3, <2>4, WaitsStep
<1>3. CASE Reset \/ Restart
  <2>1. waiting' = [p \in TxId |-> {}] /\ orphans' = [t \in Tx |-> 0]
    BY <1>3 DEF Reset, Restart
  <2>2. \A u \in Tx : Rewaits(u, waiting', orphans')
    BY <2>1 DEF Rewaits
  <2> QED
    BY <2>1, <2>2, WaitsStep
<1> QED
  BY <1>1, <1>2, <1>3

LEMMA WaitNext ==
  ASSUME WaitInv, TypeOK, [Next]_vars
  PROVE  WaitInv'
<1>1. CASE InsertTX
  BY <1>1, InsertWaits
<1>2. CASE Settle
  <2>1. txs \in Seq(Tx) /\ Len(txs) \in 1..Len(txs)
    BY <1>2, EmptySeq DEF TypeOK, Settle
  <2>2. Last(txs) \in Tx
    BY <2>1, ElementOfSeq DEF Last
  <2> QED
    BY <1>2, <2>2, SettleWaits
<1>3. CASE LeaveOrphaned \/ RemoveFails \/ Reset \/ Restart
  BY <1>3, LeaveWaits
<1>4. CASE UNCHANGED <<orphans, waiting>>
  BY <1>4 DEF WaitInv, Waits
<1>5. LimitSize \/ Confirm \/ HandleReorg \/ ReturnTX \/ SyncBlock \/ Idle \/ UNCHANGED vars
        => UNCHANGED <<orphans, waiting>>
  BY IdleSame DEF LimitSize, Confirm, HandleReorg, ReturnTX, SyncBlock, vars, indexVars
<1> QED
  BY <1>1, <1>2, <1>3, <1>4, <1>5, NextActions

----------------------------------------------------------------------------
\* Types of what is not an index.
ChainTypes ==
  /\ {head, goal, mtip, diskTip} \subseteq Block
  /\ utxo \subseteq Coin
  /\ reorg \in BOOLEAN
  /\ rejects \subseteq Tx

ControlTypes ==
  /\ queue \in Seq(Tx)
  /\ op \in {"idle", "add", "connect", "disconnect", "reset"}
  /\ txs \in Seq(Tx)
  /\ stack \in Seq(Frame)

LEMMA TypeParts ==
  IndexInv /\ WaitInv => (TypeOK <=> ChainTypes /\ ControlTypes)
BY DEF TypeOK, IndexTypeOK, IndexInv, Typed, WaitInv, ChainTypes, ControlTypes

\* The frame on top, and what insertTX leaves of the stack and the queue.
LEMMA TopFrame ==
  ASSUME ControlTypes, stack # <<>>
  PROVE  /\ Head(stack) \in Frame /\ Tail(stack) \in Seq(Frame)
         /\ Head(stack) = stack[1] /\ Len(stack) \in Nat \ {0}
BY HeadTailProperties, EmptySeq DEF ControlTypes

LEMMA RestTyped ==
  ASSUME ControlTypes
  PROVE  Rest \in Seq(Frame)
<1>1. CASE ~Resolving
  BY <1>1 DEF Rest, ControlTypes
<1>2. CASE Resolving
  <2> DEFINE top == stack[1]
             less == [top EXCEPT !.left = Tail(top.left)]
  <2>1. top \in Frame /\ top.left # <<>> /\ 1 \in 1..Len(stack)
    BY <1>2, TopFrame DEF Resolving
  <2>2. Tail(top.left) \in Seq(Tx)
    BY <2>1, HeadTailProperties DEF Frame
  <2>3. less \in Frame
    BY <2>1, <2>2 DEF Frame
  <2>4. Rest = [stack EXCEPT ![1] = less]
    BY <1>2 DEF Rest
  <2> HIDE DEF less
  <2> QED
    BY <2>1, <2>3, <2>4, ExceptSeq DEF ControlTypes
<1> QED
  BY <1>1, <1>2

LEMMA CalledTyped ==
  ASSUME ControlTypes, Called
  PROVE  queue' \in Seq(Tx) /\ txs' \in Seq(Tx)
<1>1. \A s \in Seq(Tx) : s # <<>> => Tail(s) \in Seq(Tx)
  BY HeadTailProperties
<1> QED
  BY <1>1 DEF ControlTypes, Called, StillQueued, Adding, Reinserting

LEMMA LeftTyped ==
  ASSUME WaitInv, NEW t \in Tx, NEW left \in SetToSeqs(Resolved(t))
  PROVE  left \in Seq(Tx) /\ ToSet(left) \subseteq Resolved(t)
<1>1. Resolved(t) \subseteq Tx
  BY DEF Resolved, WaitInv, TxId
<1>2. Cardinality(Resolved(t)) \in Nat
  BY <1>1, FS_Subset, FS_CardinalityType, TxAssumption DEF TxAssumption
<1>3. left \in [1..Cardinality(Resolved(t)) -> Resolved(t)]
  BY DEF SetToSeqs
<1>4. ToSet(left) \subseteq Resolved(t)
  BY <1>3 DEF ToSet
<1>5. left \in [1..Cardinality(Resolved(t)) -> Tx]
  BY <1>1, <1>3
<1> QED
  BY <1>2, <1>4, <1>5, SeqDef

LEMMA InsertTyped ==
  ASSUME WaitInv, ChainTypes, ControlTypes, InsertTX
  PROVE  ChainTypes' /\ ControlTypes'
<1>1. PICK t \in Tx : Refuse(t) \/ Drop(t) \/ KeepOrphan(t) \/ Accept(t)
  BY DEF InsertTX
<1>2. ChainTypes'
  BY <1>1 DEF InsertTX, Refuse, Drop, KeepOrphan, Accept, Track, RejectedAs, ChainTypes,
     chainVars, cacheVars
<1>3. CASE Called /\ stack' = Rest /\ op' \in {op, "add"}
  <2>1. queue' \in Seq(Tx) /\ txs' \in Seq(Tx) /\ stack' \in Seq(Frame)
    BY <1>3, CalledTyped, RestTyped
  <2> QED
    BY <1>2, <1>3, <2>1 DEF ControlTypes
<1>4. CASE UNCHANGED <<queue, control>>
  BY <1>2, <1>4 DEF ControlTypes, control
<1>5. CASE Accept(t)
  <2>1. PICK left \in SetToSeqs(Resolved(t)) :
          stack' = <<[tx |-> t, left |-> left, own |-> TRUE]>> \o Rest
    BY <1>5 DEF Accept
  <2> DEFINE frame == [tx |-> t, left |-> left, own |-> TRUE]
  <2>2. frame \in Frame
    BY LeftTyped DEF Frame
  <2>3. stack' = <<frame>> \o Rest
    BY <2>1
  <2> HIDE DEF frame
  <2>4. <<frame>> \in Seq(Frame)
    BY <2>2
  <2>5. stack' \in Seq(Frame)
    BY <2>3, <2>4, RestTyped, ConcatProperties
  <2>6. queue' \in Seq(Tx) /\ txs' \in Seq(Tx) /\ op' \in {op, "add"}
    BY <1>5, CalledTyped DEF Accept
  <2> QED
    BY <1>2, <2>5, <2>6 DEF ControlTypes
<1> QED
  BY <1>1, <1>2, <1>3, <1>4, <1>5 DEF Refuse, Drop, KeepOrphan, Answered

\* Every transaction of a block is one, and so is the last.
LEMMA BlockTyped ==
  ASSUME NEW b \in Block
  PROVE  BlockTxs[b] \in Seq(Tx) /\ Unspent[b] \subseteq Coin
BY CoinAssumption, TxAssumption

LEMMA LastTyped ==
  ASSUME NEW S, NEW s \in Seq(S), s # <<>>
  PROVE  /\ Last(s) \in S /\ Front(s) \in Seq(S)
         /\ Len(s) \in Nat \ {0} /\ Len(Front(s)) = Len(s) - 1
         /\ Last(s) = s[Len(s)]
         /\ \A i \in 1..Len(s) - 1 : Front(s)[i] = s[i]
<1>1. Len(s) \in Nat \ {0}
  BY EmptySeq
<1>2. \A i \in 1..Len(s) : s[i] \in S
  BY ElementOfSeq
<1>3. \A i \in 1..Len(s) - 1 : s[i] \in S
  BY <1>1, <1>2
<1> DEFINE f == SubSeq(s, 1, Len(s) - 1)
           n == Len(s) - 1
<1>4. /\ f \in Seq(S)
      /\ Len(f) = IF 1 <= n THEN n - 1 + 1 ELSE 0
      /\ \A i \in 1..n - 1 + 1 : f[i] = s[1 + i - 1]
  BY <1>1, <1>3, SubSeqProperties
<1>5. Front(s) = f /\ n \in Nat /\ n = Len(s) - 1
  BY <1>1 DEF Front
<1> HIDE DEF f, n
<1>6. Len(f) = n
  BY <1>4, <1>5
<1>7. \A i \in 1..n : f[i] = s[i]
  BY <1>4, <1>5
<1> QED
  BY <1>1, <1>2, <1>4, <1>5, <1>6, <1>7 DEF Last

LEMMA SettleTyped ==
  ASSUME WaitInv, ChainTypes, ControlTypes, Settle
  PROVE  ChainTypes' /\ ControlTypes'
<1> DEFINE t == Last(txs)
<1>1. t \in Tx /\ txs' \in Seq(Tx) /\ UNCHANGED <<queue, op>>
  BY LastTyped DEF Settle, ControlTypes
<1>2. PICK left \in SetToSeqs(Resolved(t)) :
        stack' = IF waiting[t] = {} THEN <<>> ELSE <<[tx |-> t, left |-> left, own |-> FALSE]>>
  BY DEF Settle
<1> DEFINE frame == [tx |-> t, left |-> left, own |-> FALSE]
<1>3. frame \in Frame
  BY <1>1, LeftTyped DEF Frame
<1>4. stack' \in {<<>>, <<frame>>}
  BY <1>2
<1> HIDE DEF frame
<1>5. <<frame>> \in Seq(Frame) /\ <<>> \in Seq(Frame)
  BY <1>3, EmptySeq
<1>6. stack' \in Seq(Frame)
  BY <1>4, <1>5
<1> QED
  BY <1>1, <1>6 DEF ChainTypes, ControlTypes, Settle, Untrack, chainVars

\* The other actions.
LEMMA OthersTyped ==
  ASSUME ChainInv, ChainTypes, ControlTypes, [Next]_vars, ~InsertTX, ~Settle
  PROVE  ChainTypes' /\ ControlTypes'
<1>1. CASE LeaveOrphaned
  <2>1. stack' \in Seq(Frame)
    BY <1>1, RestTyped DEF LeaveOrphaned
  <2> QED
    BY <1>1, <2>1 DEF LeaveOrphaned, ChainTypes, ControlTypes, chainVars, cacheVars
<1>2. CASE LimitSize \/ LeaveBlockOrphans
  <2>1. Head(stack) \in Frame /\ Tail(stack) \in Seq(Frame)
    BY <1>2, TopFrame DEF LimitSize, LeaveBlockOrphans, Returning
  <2>2. Head(stack).tx \in Tx
    BY <2>1 DEF Frame
  <2> QED
    BY <1>2, <2>1, <2>2 DEF LimitSize, LeaveBlockOrphans, Untrack, ChainTypes, ControlTypes,
       chainVars, cacheVars, indexVars
<1>3. CASE Confirm \/ StillHere
  <2>1. CASE Confirm
    BY <2>1, LastTyped DEF Confirm, Untrack, ChainTypes, ControlTypes, chainVars
  <2>2. CASE StillHere
    BY <2>2, HeadTailProperties DEF StillHere, Reinserting, ChainTypes, ControlTypes,
       chainVars, indexVars, cacheVars
  <2> QED
    BY <1>3, <2>1, <2>2
<1>4. CASE ReturnTX \/ SyncBlock \/ HandleReorg \/ GiveUp \/ (\E b \in Block : Move(b))
  BY <1>4 DEF ReturnTX, SyncBlock, HandleReorg, GiveUp, Move, Flush, Untrack, ChainTypes,
     ControlTypes, chainVars, cacheVars, indexVars, control
<1>5. CASE Disconnect \/ (\E b \in Block : Connect(b)) \/ Rewind
  <2>1. head' \in Block
    BY <1>5, HeadMoves
  <2>2. utxo' = Unspent[head']
    BY <1>5 DEF Disconnect, Connect, Rewind, L!Extend, L!Retract
  <2>3. ASSUME NEW method \in {"connect", "disconnect"}, NEW block \in Block,
               Begin(method, block)
        PROVE  ChainTypes' /\ ControlTypes'
    BY <2>1, <2>2, <2>3, BlockTyped DEF Begin, ChainTypes, ControlTypes, indexVars, cacheVars
  <2>4. CASE Rewind
    BY <2>1, <2>2, <2>4, BlockTyped DEF Rewind, ChainTypes, ControlTypes, indexVars, cacheVars
  <2> QED
    BY <1>5, <2>3, <2>4 DEF Disconnect, Connect, ChainInv
<1>6. CASE RemoveFails
  <2>1. queue' \in Seq(Tx) /\ txs' \in Seq(Tx)
    <3>1. \A s \in Seq(Tx) : s # <<>> => Tail(s) \in Seq(Tx)
      BY HeadTailProperties
    <3> QED
      BY <1>6, <3>1 DEF RemoveFails, ControlTypes, StillQueued, Adding, Reinserting
  <2> QED
    BY <1>6, <2>1 DEF RemoveFails, ChainTypes, ControlTypes, chainVars, cacheVars
<1>7. CASE Reset \/ Restart
  <2>1. <<>> \in Seq(Tx) /\ <<>> \in Seq(Frame) /\ head \in Block
    BY EmptySeq DEF ChainInv
  <2>2. CASE Reset
    BY <2>1, <2>2 DEF Reset, Wipe, ChainTypes, ControlTypes, chainVars
  <2>3. CASE Restart
    BY <2>1, <2>3 DEF Restart, ChainTypes, ControlTypes
  <2> QED
    BY <1>7, <2>2, <2>3
<1>8. ASSUME NEW t \in Tx, Request(t)
      PROVE  ChainTypes' /\ ControlTypes'
  BY <1>8, AppendProperties DEF Request, ChainTypes, ControlTypes, chainVars, indexVars,
     cacheVars, control
<1>9. CASE UNCHANGED vars
  BY <1>9 DEF vars, ChainTypes, ControlTypes, chainVars, indexVars, cacheVars, control
<1> QED
  BY <1>1, <1>2, <1>3, <1>4, <1>5, <1>6, <1>7, <1>8, <1>9, NextActions DEF Idle

----------------------------------------------------------------------------
FullInv == MempoolInv /\ WaitInv /\ TypeOK

LEMMA InitFull ==
  ASSUME Init
  PROVE  FullInv
<1>1. WaitInv
  <2>1. orphans \in [Tx -> Nat] /\ waiting \in [TxId -> SUBSET Tx]
    BY DEF Init
  <2>2. ASSUME NEW t \in Tx
        PROVE  Waits(t) \subseteq Parents(t) /\ Cardinality(Waits(t)) <= orphans[t]
    <3>1. Waits(t) = {} /\ orphans[t] = 0
      BY DEF Init, Waits
    <3>2. Cardinality(Waits(t)) = 0
      BY <3>1, FS_EmptySet
    <3> QED
      BY <3>1, <3>2
  <2> QED
    BY <2>1, <2>2 DEF WaitInv
<1>2. ChainTypes
  <2>1. Unspent[Genesis] \subseteq Coin /\ Genesis \in Block
    BY BlockTyped, TreeAssumption DEF TreeAssumption
  <2> QED
    BY <2>1 DEF Init, ChainTypes, L!Init
<1>3. ControlTypes
  BY EmptySeq DEF Init, ControlTypes
<1> QED
  BY <1>1, <1>2, <1>3, InitInv, TypeParts DEF FullInv, MempoolInv

LEMMA FullNext ==
  ASSUME FullInv, [Next]_vars
  PROVE  FullInv'
<1>1. MempoolInv /\ WaitInv /\ TypeOK /\ ChainTypes /\ ControlTypes /\ ChainInv
  BY TypeParts DEF FullInv, MempoolInv
<1>2. MempoolInv'
  BY <1>1, StepInv
<1>3. WaitInv'
  BY <1>1, WaitNext
<1>4. ChainTypes' /\ ControlTypes'
  BY <1>1, InsertTyped, SettleTyped, OthersTyped
<1>5. (IndexInv /\ WaitInv => (TypeOK <=> ChainTypes /\ ControlTypes))'
  BY TypeParts, PTL
<1> QED
  BY <1>2, <1>3, <1>4, <1>5 DEF FullInv, MempoolInv

LEMMA FullInductive == Spec => []FullInv
<1>1. FullInv /\ [Next]_vars => FullInv'
  BY FullNext
<1> QED
  BY <1>1, InitFull, PTL DEF Spec

\* Maps, filters, batches, the lock's queue and the nested calls keep their types;
\* the count of parents an orphan lacks never goes below zero.
THEOREM TypeCorrect == Spec => []TypeOK
<1>1. FullInv => TypeOK
  BY DEF FullInv
<1> QED
  BY <1>1, FullInductive, PTL

\* maybeOrphan, resolveOrphans and removeOrphan keep this.waiting within
\* this.orphans, also where removeOrphan throws half-way: the assertion in
\* resolveOrphans holds, and no orphan is inserted while a set still names it.
THEOREM WaitsCounted == Spec => []WaitingTracked
<1>1. FullInv => WaitingTracked
  BY DEF FullInv, WaitInv, WaitingTracked, Waits
<1> QED
  BY <1>1, FullInductive, PTL

----------------------------------------------------------------------------
\* The transactions of the block that _addBlock is done with.
Done == {BlockTxs[head][i] : i \in (Len(txs) + 1)..Len(BlockTxs[head])}

\* handleOrphans runs inside a call. What is left of the block's transactions is the
\* front of them, and the others are neither entries nor orphans nor about to be
\* inserted.
BlockInv ==
  /\ op \in {"idle", "reset"} => stack = <<>>
  /\ op = "connect" =>
       /\ Len(txs) <= Len(BlockTxs[head])
       /\ \A i \in 1..Len(txs) : txs[i] = BlockTxs[head][i]
       /\ Done \cap (pool \cup Orphans) = {}
       /\ \A k \in DOMAIN stack : ToSet(stack[k].left) \cap Done = {}

\* The calls inside insert none of these.
LeftClear(S) == \A k \in DOMAIN S : ToSet(S[k].left) \cap Done = {}

LEMMA RestClear ==
  ASSUME ControlTypes, LeftClear(stack)
  PROVE  LeftClear(Rest)
<1>1. CASE ~Resolving
  BY <1>1 DEF Rest
<1>2. CASE Resolving
  <2>1. stack \in Seq(Frame) /\ 1 \in DOMAIN stack /\ stack[1] \in Frame
        /\ stack[1].left # <<>>
    BY <1>2, TopFrame, LenProperties DEF Resolving, ControlTypes
  <2>2. stack[1].left \in Seq(Tx)
    BY <2>1 DEF Frame
  <2>3. ToSet(Tail(stack[1].left)) \subseteq ToSet(stack[1].left)
    <3> DEFINE s == stack[1].left
    <3>0. s \in Seq(Tx) /\ s # <<>>
      BY <2>1, <2>2
    <3> HIDE DEF s
    <3>1. /\ Tail(s) \in Seq(Tx) /\ Len(Tail(s)) = Len(s) - 1
          /\ \A i \in 1..Len(Tail(s)) : Tail(s)[i] = s[i + 1]
          /\ DOMAIN s = 1..Len(s) /\ DOMAIN Tail(s) = 1..Len(Tail(s))
          /\ Len(s) \in Nat
      BY <3>0, HeadTailProperties, LenProperties
    <3>2. \A i \in DOMAIN Tail(s) : i + 1 \in DOMAIN s /\ Tail(s)[i] = s[i + 1]
      BY <3>1
    <3>3. ToSet(Tail(s)) \subseteq ToSet(s)
      BY <3>2 DEF ToSet
    <3> QED
      BY <3>3 DEF s
  <2>4. /\ DOMAIN Rest = DOMAIN stack
        /\ \A k \in DOMAIN stack :
             Rest[k].left = IF k = 1 THEN Tail(stack[1].left) ELSE stack[k].left
    <3>1. Rest = [stack EXCEPT ![1].left = Tail(stack[1].left)]
      BY <1>2 DEF Rest
    <3> QED
      BY <2>1, <3>1 DEF Frame
  <2> QED
    BY <2>1, <2>3, <2>4 DEF LeftClear
<1> QED
  BY <1>1, <1>2

LEMMA PushClear ==
  ASSUME NEW S \in Seq(Frame), LeftClear(S), NEW f \in Frame, ToSet(f.left) \cap Done = {}
  PROVE  LeftClear(<<f>> \o S)
<1>1. /\ <<f>> \o S \in Seq(Frame) /\ Len(<<f>> \o S) = 1 + Len(S)
      /\ \A i \in 1..1 + Len(S) : (<<f>> \o S)[i] = IF i <= 1 THEN f ELSE S[i - 1]
      /\ Len(S) \in Nat /\ DOMAIN S = 1..Len(S)
  <2>1. <<f>> \in Seq(Frame) /\ Len(<<f>>) = 1 /\ \A i \in 1..1 : <<f>>[i] = f
    OBVIOUS
  <2> DEFINE s == <<f>>
  <2>2. s \in Seq(Frame) /\ Len(s) = 1 /\ \A i \in 1..1 : s[i] = f
    BY <2>1
  <2> HIDE DEF s
  <2>3. /\ s \o S \in Seq(Frame) /\ Len(s \o S) = Len(s) + Len(S)
        /\ \A i \in 1..Len(s) + Len(S) : (s \o S)[i] = IF i <= Len(s) THEN s[i] ELSE S[i - Len(s)]
        /\ Len(S) \in Nat /\ DOMAIN S = 1..Len(S)
    <3>1. Len(S) \in Nat /\ DOMAIN S = 1..Len(S)
      BY LenProperties
    <3> QED
      BY <2>2, <3>1, ConcatProperties
  <2>4. \A i \in 1..1 + Len(S) : (s \o S)[i] = IF i <= 1 THEN f ELSE S[i - 1]
    BY <2>2, <2>3
  <2>5. Len(s \o S) = 1 + Len(S)
    BY <2>2, <2>3
  <2> QED
    BY <2>3, <2>4, <2>5 DEF s
<1> DEFINE T == <<f>> \o S
<1>2. DOMAIN T = 1..1 + Len(S)
  BY <1>1, LenProperties
<1>3. \A k \in DOMAIN T : T[k] = f \/ \E j \in DOMAIN S : T[k] = S[j]
  BY <1>1, <1>2
<1> HIDE DEF T
<1>4. LeftClear(T)
  BY <1>3 DEF LeftClear
<1> QED
  BY <1>4 DEF T

LEMMA PopClear ==
  ASSUME ControlTypes, stack # <<>>, LeftClear(stack)
  PROVE  LeftClear(Tail(stack))
<1>1. /\ Tail(stack) \in Seq(Frame) /\ Len(Tail(stack)) = Len(stack) - 1
      /\ \A i \in 1..Len(Tail(stack)) : Tail(stack)[i] = stack[i + 1]
      /\ DOMAIN stack = 1..Len(stack) /\ DOMAIN Tail(stack) = 1..Len(Tail(stack))
      /\ Len(stack) \in Nat
  BY HeadTailProperties, LenProperties DEF ControlTypes
<1>2. \A i \in DOMAIN Tail(stack) : i + 1 \in DOMAIN stack /\ Tail(stack)[i] = stack[i + 1]
  BY <1>1
<1> QED
  BY <1>2 DEF LeftClear

\* One more transaction of the block is done.
LEMMA FrontDone ==
  ASSUME ControlTypes, ChainInv, BlockInv, op = "connect", txs # <<>>,
         txs' = Front(txs), head' = head
  PROVE  /\ Done' = Done \cup {Last(txs)}
         /\ Len(txs') <= Len(BlockTxs[head'])
         /\ \A i \in 1..Len(txs') : txs'[i] = BlockTxs[head'][i]
<1> DEFINE B == BlockTxs[head]
           n == Len(txs)
<1>1. /\ n \in Nat \ {0} /\ Len(txs') = n - 1 /\ Last(txs) = txs[n]
      /\ \A i \in 1..n - 1 : txs'[i] = txs[i]
  BY LastTyped DEF ControlTypes
<1>2. n <= Len(B) /\ (\A i \in 1..n : txs[i] = B[i]) /\ Len(B) \in Nat
  BY BlockTyped, LenProperties DEF BlockInv, ChainInv
<1>3. Last(txs) = B[n]
  BY <1>1, <1>2
<1>4. Done' = {B[i] : i \in n - 1 + 1..Len(B)}
  BY <1>1 DEF Done
<1>5. Done = {B[i] : i \in n + 1..Len(B)}
  BY DEF Done
<1> HIDE DEF B, n
<1>6. n - 1 + 1..Len(B) = {n} \cup (n + 1..Len(B))
  BY <1>1, <1>2
<1>7. Done' = Done \cup {Last(txs)}
  BY <1>3, <1>4, <1>5, <1>6
<1>8. Len(txs') <= Len(B) /\ \A i \in 1..Len(txs') : txs'[i] = B[i]
  BY <1>1, <1>2
<1> QED
  BY <1>7, <1>8 DEF B

LEMMA InsertClear ==
  ASSUME FullInv, BlockInv, op = "connect", InsertTX
  PROVE  /\ Done' = Done /\ UNCHANGED <<head, txs>>
         /\ Done \cap (pool' \cup Orphans') = {}
         /\ LeftClear(stack')
<1>1. WaitInv /\ Typed /\ ControlTypes /\ TypeOK /\ LeftClear(stack)
      /\ Done \cap (pool \cup Orphans) = {}
  BY TypeParts DEF FullInv, MempoolInv, IndexInv, BlockInv, LeftClear
<1>2. PICK t \in Tx : Callee(t) /\ (Refuse(t) \/ Drop(t) \/ KeepOrphan(t) \/ Accept(t))
  BY DEF InsertTX
<1>3. Resolving /\ ~Reinserting /\ ~Adding /\ t = Head(Head(stack).left)
  BY <1>2 DEF Callee, Adding, Reinserting, LockFree
<1>4. t \notin Done
  <2>1. stack[1] \in Frame /\ stack[1].left # <<>> /\ t = Head(stack[1].left)
        /\ 1 \in DOMAIN stack
    BY <1>1, <1>3, TopFrame, LenProperties DEF Resolving, ControlTypes
  <2>2. stack[1].left \in Seq(Tx)
    BY <2>1 DEF Frame
  <2>3. t = stack[1].left[1] /\ 1 \in DOMAIN stack[1].left
    BY <2>1, <2>2, EmptySeq, LenProperties
  <2>4. t \in ToSet(stack[1].left)
    BY <2>3 DEF ToSet
  <2> QED
    BY <1>1, <2>1, <2>4 DEF LeftClear
<1>5. UNCHANGED <<head, txs>>
  BY <1>2, <1>3 DEF InsertTX, chainVars, Refuse, Drop, KeepOrphan, Accept, Answered, Called,
     control
<1>6. Done' = Done
  BY <1>5 DEF Done
<1>7. pool' \subseteq pool \cup {t}
  BY <1>2 DEF Refuse, Drop, KeepOrphan, Accept, Track
<1>8. Orphans' \subseteq Orphans \cup {t}
  <2>0. orphans \in [Tx -> Nat]
    BY <1>1 DEF WaitInv
  <2>1. CASE UNCHANGED orphans
    BY <2>1 DEF Orphans
  <2>2. CASE KeepOrphan(t)
    <3>1. PICK victim :
            \/ orphans' = [orphans EXCEPT ![t] = Cardinality(Missing(t))]
            \/ orphans' = [[orphans EXCEPT ![victim] = 0]
                             EXCEPT ![t] = Cardinality(Missing(t))]
      BY <2>2 DEF KeepOrphan, StoreInRoom, Store, Forgotten
    <3>2. \A o \in Tx \ {t} : orphans'[o] > 0 => orphans[o] > 0
      BY <2>0, <3>1
    <3> QED
      BY <3>2 DEF Orphans
  <2>3. CASE Accept(t)
    <3>1. \A o \in Tx : orphans'[o] > 0 => orphans[o] > 0
      BY <2>0, <2>3 DEF Accept, Resolve
    <3> QED
      BY <3>1 DEF Orphans
  <2> QED
    BY <1>2, <2>1, <2>2, <2>3 DEF Refuse, Drop
<1>9. LeftClear(stack')
  <2>1. CASE stack' = Rest
    BY <1>1, <2>1, RestClear
  <2>2. CASE stack' = stack
    BY <1>1, <2>2
  <2>3. CASE Accept(t)
    <3>1. PICK left \in SetToSeqs(Resolved(t)) :
            stack' = <<[tx |-> t, left |-> left, own |-> TRUE]>> \o Rest
      BY <2>3 DEF Accept
    <3> DEFINE frame == [tx |-> t, left |-> left, own |-> TRUE]
    <3>2. left \in Seq(Tx) /\ ToSet(left) \subseteq Resolved(t)
      BY <1>1, LeftTyped
    <3>3. Resolved(t) \subseteq Orphans
      BY <1>1 DEF Resolved, Orphans, WaitInv, TxId
    <3>4. frame \in Frame /\ ToSet(frame.left) \cap Done = {} /\ stack' = <<frame>> \o Rest
      BY <1>1, <3>1, <3>2, <3>3 DEF Frame
    <3> HIDE DEF frame
    <3> QED
      BY <1>1, <3>4, RestTyped, RestClear, PushClear
  <2> QED
    BY <1>2, <1>3, <2>1, <2>2, <2>3 DEF Refuse, Drop, KeepOrphan, Answered, control
<1> QED
  BY <1>1, <1>4, <1>5, <1>6, <1>7, <1>8, <1>9

LEMMA ConfirmClear ==
  ASSUME FullInv, BlockInv, Confirm \/ Settle
  PROVE  /\ Len(txs') <= Len(BlockTxs[head'])
         /\ \A i \in 1..Len(txs') : txs'[i] = BlockTxs[head'][i]
         /\ Done' \cap (pool' \cup Orphans') = {}
         /\ \A k \in DOMAIN stack' : ToSet(stack'[k].left) \cap Done' = {}
<1>1. WaitInv /\ ControlTypes /\ ChainInv /\ OrphansApart /\ SpentsIndexPool /\ Typed
      /\ Done \cap (pool \cup Orphans) = {}
  BY TypeParts DEF FullInv, MempoolInv, IndexInv, BlockInv, Confirm, Settle
<1> DEFINE t == Last(txs)
<1>2. op = "connect" /\ txs # <<>> /\ txs' = Front(txs) /\ head' = head /\ stack = <<>>
  BY DEF Confirm, Settle, chainVars
<1>3. /\ Done' = Done \cup {t}
      /\ Len(txs') <= Len(BlockTxs[head'])
      /\ \A i \in 1..Len(txs') : txs'[i] = BlockTxs[head'][i]
  BY <1>1, <1>2, FrontDone
<1>4. t \in Tx
  BY <1>1, <1>2, LastTyped DEF ControlTypes
<1>5. CASE Confirm
  <2>1. pool' = pool \ {t} /\ t \in pool /\ Orphans' = Orphans /\ stack' = <<>>
    BY <1>2, <1>5 DEF Confirm, Untrack, Orphans
  <2>2. DOMAIN stack' = {}
    BY <2>1
  <2> QED
    BY <1>1, <1>3, <2>1, <2>2 DEF OrphansApart
<1>6. CASE Settle
  <2>1. pool' \subseteq pool /\ t \notin pool
    BY <1>6 DEF Settle, Untrack
  <2>2. Orphans' \subseteq Orphans \ {t}
    <3>1. \A o \in Tx : orphans[o] \in Nat
      BY <1>1 DEF WaitInv
    <3>2. \A o \in Tx : orphans'[o] = IF o = t THEN 0
                                      ELSE IF o \in waiting[t] THEN orphans[o] - 1
                                      ELSE orphans[o]
      BY <1>6 DEF Settle
    <3>3. \A o \in Tx : orphans'[o] > 0 => orphans[o] > 0 /\ o # t
      BY <3>1, <3>2
    <3> QED
      BY <3>3 DEF Orphans
  <2>3. PICK left \in SetToSeqs(Resolved(t)) :
          stack' = IF waiting[t] = {} THEN <<>> ELSE <<[tx |-> t, left |-> left, own |-> FALSE]>>
    BY <1>6 DEF Settle
  <2>4. ToSet(left) \subseteq Resolved(t)
    BY <1>1, <1>4, LeftTyped
  <2>5. t \notin waiting[t]
    <3>1. t \notin Parents(t) /\ t \in TxId
      BY <1>4, TxAssumption DEF TxAssumption, TxId
    <3> QED
      BY <1>1, <1>4, <3>1 DEF WaitInv, Waits
  <2>6. Resolved(t) \subseteq Orphans \ {t}
    BY <1>1, <1>4, <2>5 DEF Resolved, Orphans, WaitInv, TxId
  <2>7. ToSet(left) \cap Done' = {}
    BY <1>1, <1>3, <2>4, <2>6
  <2>8. \A k \in DOMAIN stack' : stack'[k].left = left
    <3>1. CASE stack' = <<>>
      BY <3>1
    <3>2. CASE stack' = <<[tx |-> t, left |-> left, own |-> FALSE]>>
      BY <3>2
    <3> QED
      BY <2>3, <3>1, <3>2
  <2> QED
    BY <1>1, <1>3, <2>1, <2>2, <2>7, <2>8
<1> QED
  BY <1>5, <1>6

\* No call is under way when the lock is passed on.
LEMMA StackNext ==
  ASSUME BlockInv, ControlTypes, [Next]_vars, op' \in {"idle", "reset"}
  PROVE  stack' = <<>>
<1>1. op \in {"idle", "reset"} => stack = <<>>
  BY DEF BlockInv
<1>2. CASE InsertTX
  <2>1. PICK t \in Tx : Callee(t) /\ (Refuse(t) \/ Drop(t) \/ KeepOrphan(t) \/ Accept(t))
    BY <1>2 DEF InsertTX
  <2>2. op' = op \/ op' = "add"
    BY <2>1 DEF Refuse, Drop, KeepOrphan, Accept, Answered, control
  <2>3. stack = <<>> /\ op \in {"idle", "reset"} /\ ~Resolving /\ ~Reinserting
    BY <1>1, <2>2 DEF Resolving, Reinserting
  <2>4. Adding
    BY <2>1, <2>3 DEF Callee
  <2> QED
    BY <2>1, <2>2, <2>3, <2>4 DEF Refuse, Drop, KeepOrphan, Accept, Answered, Rest
<1>3. CASE LimitSize \/ LeaveBlockOrphans \/ LeaveOrphaned
  BY <1>1, <1>3 DEF LimitSize, LeaveBlockOrphans, LeaveOrphaned, DoubleOrphaned, Resolving,
     Returning
<1>4. CASE Confirm \/ Settle \/ HandleReorg \/ ReturnTX \/ SyncBlock \/ RemoveFails
  BY <1>1, <1>4 DEF Confirm, Settle, HandleReorg, ReturnTX, SyncBlock, RemoveFails, control,
     ReorgDue, Moving
<1>5. CASE Reset \/ Restart \/ Rewind
  BY <1>1, <1>5 DEF Reset, Restart, Rewind, LockFree
<1>6. CASE Disconnect \/ (\E b \in Block : Connect(b)) \/ GiveUp
  BY <1>1, <1>6 DEF Disconnect, Connect, GiveUp, Begin, Moving, control
<1>7. CASE StillHere \/ (\E t \in Tx : Request(t)) \/ (\E b \in Block : Move(b))
  BY <1>1, <1>7 DEF StillHere, Request, Move, control
<1>8. CASE UNCHANGED vars
  BY <1>1, <1>8 DEF vars, control
<1> QED
  BY <1>2, <1>3, <1>4, <1>5, <1>6, <1>7, <1>8, NextActions DEF Idle

LEMMA BlockNext ==
  ASSUME FullInv, BlockInv, [Next]_vars
  PROVE  BlockInv'
<1>1. ControlTypes /\ ChainInv /\ IndexInv
  BY TypeParts DEF FullInv, MempoolInv
<1>2. op' \in {"idle", "reset"} => stack' = <<>>
  BY <1>1, StackNext
<1> DEFINE Clear == /\ Len(txs') <= Len(BlockTxs[head'])
                    /\ \A i \in 1..Len(txs') : txs'[i] = BlockTxs[head'][i]
                    /\ Done' \cap (pool' \cup Orphans') = {}
                    /\ \A k \in DOMAIN stack' : ToSet(stack'[k].left) \cap Done' = {}
<1>3. SUFFICES ASSUME op' = "connect"
               PROVE  Clear
  BY <1>2 DEF BlockInv
<1>4. CASE op = "connect"
  <2>1. CASE InsertTX
    BY <1>4, <2>1, InsertClear DEF LeftClear, BlockInv
  <2>2. CASE Confirm \/ Settle
    BY <2>2, ConfirmClear
  <2>3. ASSUME UNCHANGED <<head, txs>>, pool' \subseteq pool, Orphans' \subseteq Orphans,
               LeftClear(stack')
        PROVE  Clear
    <3>1. Done' = Done
      BY <2>3 DEF Done
    <3> QED
      BY <1>4, <2>3, <3>1 DEF BlockInv, LeftClear
  <2>4. LeftClear(stack) /\ stack \in Seq(Frame)
    BY <1>1, <1>4 DEF BlockInv, LeftClear, ControlTypes
  <2>5. CASE LimitSize \/ LeaveBlockOrphans
    <3>1. UNCHANGED <<head, txs, orphans>> /\ pool' \subseteq pool /\ stack # <<>>
          /\ stack' = Tail(stack)
      BY <2>5 DEF LimitSize, LeaveBlockOrphans, Returning, Untrack, indexVars, chainVars
    <3>2. LeftClear(stack')
      BY <1>1, <2>4, <3>1, PopClear
    <3> QED
      BY <2>3, <3>1, <3>2 DEF Orphans
  <2>6. CASE LeaveOrphaned
    <3>1. UNCHANGED <<head, txs, pool>> /\ stack' = Rest
      BY <2>6 DEF LeaveOrphaned, chainVars
    <3>2. Orphans' \subseteq Orphans
      BY <1>1, <2>6, LeaveShrinks DEF OrphansShrink, Orphans
    <3> QED
      BY <1>1, <2>3, <2>4, <3>1, <3>2, RestClear
  <2>7. CASE (\E t \in Tx : Request(t)) \/ UNCHANGED vars
    BY <2>3, <2>4, <2>7 DEF Request, vars, indexVars, chainVars, control, Orphans
  <2>8. ~(\/ HandleReorg \/ RemoveFails \/ ReturnTX \/ SyncBlock \/ Reset \/ Restart
          \/ Disconnect \/ (\E b \in Block : Connect(b)) \/ GiveUp \/ StillHere
          \/ (\E b \in Block : Move(b)) \/ Rewind)
    BY <1>3, <1>4 DEF HandleReorg, ReorgDue, Moving, RemoveFails, ReturnTX, SyncBlock, Reset,
       Restart, Disconnect, Connect, GiveUp, StillHere, Reinserting, Move, LockFree, Rewind
  <2> QED
    BY <2>1, <2>2, <2>5, <2>6, <2>7, <2>8, NextActions DEF Idle
<1>5. CASE op # "connect"
  <2>1. ASSUME NEW b \in Block, Connect(b)
        PROVE  Clear
    <3>1. stack' = <<>> /\ head' = b /\ txs' = BlockTxs[b]
      BY <1>3, <1>5, <2>1 DEF Connect, Begin, Moving, BlockInv, L!Extend
    <3>2. Len(BlockTxs[b]) \in Nat
      BY BlockTyped, LenProperties
    <3>3. Done' = {}
      BY <3>1, <3>2 DEF Done
    <3>4. DOMAIN stack' = {}
      BY <3>1
    <3> QED
      BY <3>1, <3>2, <3>3, <3>4
  <2>2. \E b \in Block : Connect(b)
    <3>1. CASE InsertTX \/ LimitSize \/ Confirm \/ Settle \/ HandleReorg \/ LeaveOrphaned
               \/ RemoveFails \/ ReturnTX \/ SyncBlock \/ Reset \/ Restart
      BY <1>3, <1>5, <3>1 DEF InsertTX, Refuse, Drop, KeepOrphan, Accept, Answered, control,
         LimitSize, Confirm, Settle, HandleReorg, LeaveOrphaned, RemoveFails, ReturnTX,
         SyncBlock, Reset, Restart
    <3>2. CASE Idle
      BY <1>3, <1>5, <3>2 DEF Idle, Disconnect, Begin, GiveUp, LeaveBlockOrphans, StillHere,
         Request, Move, Rewind, control
    <3>3. CASE UNCHANGED vars
      BY <1>3, <1>5, <3>3 DEF vars, control
    <3> QED
      BY <3>1, <3>2, <3>3, NextActions
  <2> QED
    BY <2>1, <2>2
<1> QED
  BY <1>4, <1>5

\* _addBlock goes from the last transaction to the first, and whatever orphans it
\* resolves on the way and inserts, nested as deep as they come, it leaves none of
\* the block's own transactions behind as an entry or an orphan.
THEOREM BlockLeaves == Spec => BlockLeavesPool
<1>1. Init => BlockInv
  BY DEF Init, BlockInv
<1>2. FullInv /\ BlockInv /\ [Next]_vars => BlockInv'
  BY BlockNext
<1>3. FullInv /\ BlockInv /\ [Next]_vars
        => [op = "connect" /\ SyncBlock => TxsOf(head) \cap (pool' \cup Orphans') = {}]_vars
  <2> SUFFICES ASSUME FullInv, BlockInv, op = "connect", SyncBlock
               PROVE  TxsOf(head) \cap (pool' \cup Orphans') = {}
    OBVIOUS
  <2>1. pool' = pool /\ Orphans' = Orphans /\ txs = <<>>
    BY DEF SyncBlock, Orphans
  <2>2. head \in Block
    BY DEF FullInv, MempoolInv, ChainInv
  <2>3. DOMAIN BlockTxs[head] = 1..Len(BlockTxs[head])
    BY <2>2, BlockTyped, LenProperties
  <2>4. TxsOf(head) = Done
    BY <2>1, <2>3 DEF TxsOf, ToSet, Done
  <2> QED
    BY <2>1, <2>4 DEF BlockInv
<1> QED
  BY <1>1, <1>2, <1>3, FullInductive, PTL DEF Spec, BlockLeavesPool
=============================================================================
