------------------------------- MODULE Chain -------------------------------
(***************************************************************************)
(* lib/blockchain/chain.js over ChainDB.  Callers (peers, the miner, RPC)  *)
(* queue add, reset and invalidate calls on the chain lock; the holder of  *)
(* the lock advances from one database write to the next, and between two  *)
(* of them more calls are queued, a mark is forgotten, an I/O error ends   *)
(* the call or the process dies.                                           *)
(***************************************************************************)
EXTENDS ChainDB, Sequences, SequencesExt

CONSTANTS
  Mutable,      \* blocks of which a copy with a mutated body circulates
  Resettable,   \* blocks an operator may call reset on
  Invalidable,  \* blocks an operator may call invalidate on
  MaxOrphans,   \* options.maxOrphans
  MaxQueue,     \* bound: calls waiting for the lock
  Faults,       \* whether an I/O error may end add()
  ResetFaults,  \* whether an I/O error may end reset()
  Crashes       \* whether the process may die and restart

ASSUME ChainAssumption ==
  /\ Mutable \subseteq Block
  /\ Resettable \subseteq Block
  /\ Invalidable \subseteq Block
  /\ MaxOrphans \in Nat \ {0}
  /\ MaxQueue \in Nat \ {0}
  /\ {Faults, ResetFaults, Crashes} \subseteq BOOLEAN

VARIABLES
  tip,          \* this.tip
  invalid,      \* this.invalid
  orphans,      \* this.orphanMap, in its insertion order
  queue,        \* this.locker: calls waiting
  pc,           \* where the lock holder is; "idle" when the lock is free
  cand,         \* the copy of a block it connects, or the block it resets to
  call,         \* the call that holds the lock
  known,        \* history: marks given by _add to blocks that have an entry
  broken        \* history: an error has cut a reset short

history == <<known, broken>>
memory == <<tip, invalid, orphans, history>>
control == <<pc, cand, call>>
vars == <<dbVars, memory, queue, control>>

Copy == [block : Block, intact : BOOLEAN]
Call == [op : {"add", "reset", "invalidate"}, block : Block, intact : BOOLEAN]
Calls ==
  {c \in Call :
    /\ c.op = "add" => c.intact \/ c.block \in Mutable
    /\ c.op = "reset" => c.intact /\ c.block \in Resettable
    /\ c.op = "invalidate" => c.intact /\ c.block \in Invalidable}

NoCopy == [block |-> Genesis, intact |-> TRUE]
NoCall == [op |-> "add", block |-> Genesis, intact |-> TRUE]
CopyIn(c) == [block |-> c.block, intact |-> c.intact]

TypeOK ==
  /\ DbTypeOK
  /\ tip \in Block
  /\ invalid \subseteq Block
  /\ orphans \in Seq(Copy)
  /\ queue \in Seq(Call)
  /\ pc \in {"idle", "connect", "extend", "orphans", "unwind"}
  /\ cand \in Copy
  /\ call \in Call
  /\ known \subseteq Block
  /\ broken \in BOOLEAN

\* Chain#open after a fresh start.
Init ==
  /\ DbInit
  /\ tip = Genesis
  /\ invalid = {}
  /\ orphans = <<>>
  /\ queue = <<>>
  /\ pc = "idle"
  /\ cand = NoCopy
  /\ call = NoCall
  /\ known = {}
  /\ broken = FALSE

----------------------------------------------------------------------------
\* The block under way.
New == cand.block

OrphanBlocks == {o.block : o \in ToSet(orphans)}
IsOrphan(b) == b \in OrphanBlocks

\* Mutant of HasNextOrphan: orphans are resolved for main chain blocks only.
HasNextOrphanOnMain(b) ==
  IsMainChain(b) /\ \E o \in ToSet(orphans) : Parent[o.block] = b

HasNextOrphan(b) == \E o \in ToSet(orphans) : Parent[o.block] = b

\* The pool without the orphan that has parent p, if there is one.
WithoutSibling(p) ==
  IF HasNextOrphan(p)
  THEN RemoveAt(orphans, CHOOSE i \in 1..Len(orphans) : Parent[orphans[i].block] = p)
  ELSE orphans

\* Mutant of Limited: the pool is trimmed once it is over the limit.
LimitedLate(pool) == IF Len(pool) <= MaxOrphans THEN pool ELSE Tail(pool)

\* limitOrphans, past the age limit: the oldest makes room.
Limited(pool) == IF Len(pool) < MaxOrphans THEN pool ELSE Tail(pool)

\* Mutant of HasInvalid: the hash itself is not looked up.
HasInvalidParent(b) == Parent[b] \in invalid

\* Chain#hasInvalid.
HasInvalid(b) == b \in invalid \/ Parent[b] \in invalid

\* Mutant of HasPending: the running call counts as waiting.
HasPendingOrRunning(b) ==
  \E i \in 1..Len(queue) : queue[i].op = "add" /\ queue[i].block = b

\* Chain#hasPending: another call for the same hash waits behind this one.
HasPending(b) == \E i \in 2..Len(queue) : queue[i].op = "add" /\ queue[i].block = b

\* Mutant of HasMoreWork: the longer chain wins.
HasMoreBlocks(b) == Height[b] > Height[tip]

\* Whether connect() tries to make b the tip.
HasMoreWork(b) == ChainWork[b] > ChainWork[tip]

\* The lock is released; marked blocks are remembered.
Release == pc' = "idle" /\ cand' = NoCopy /\ call' = NoCall
Mark(S) == invalid' = invalid \cup S /\ known' = known \ S

\* Mutant of Rejected: malleated errors mark the block as well.
RejectedAlways(b, verdict) ==
  /\ Mark({b})
  /\ orphans' = IF CheckpointHolds(b) THEN orphans ELSE <<>>
  /\ Release

\* An error for b ends the call.  A VerifyError marks b unless it
\* only says that this copy is bad; a checkpoint mismatch empties the orphan pool.
Rejected(b, verdict) ==
  /\ Mark(IF verdict = "invalid" THEN {b} ELSE {})
  /\ orphans' = IF CheckpointHolds(b) THEN orphans ELSE <<>>
  /\ Release

----------------------------------------------------------------------------
\* A caller queues for the lock.
Request(c) ==
  /\ Len(queue) < MaxQueue
  /\ queue' = Append(queue, c)
  /\ UNCHANGED <<dbVars, memory, control>>

\* The head of the queue gets the lock.
Granted(op) == pc = "idle" /\ queue # <<>> /\ Head(queue).op = op
Duplicate(b) == b = Genesis \/ HasPending(b) \/ IsOrphan(b)
Refused(b) == Duplicate(b) \/ HasInvalid(b) \/ b \in NoWork \/ b \in entries

\* _add throws 'duplicate' or 'high-hash'; a child of an invalid block is
\* marked invalid itself, whether or not it has an entry.
Refuse ==
  /\ Granted("add")
  /\ LET b == Head(queue).block
     IN  /\ Refused(b)
         /\ LET marked == IF ~Duplicate(b) /\ HasInvalid(b) THEN {b} \ invalid ELSE {}
            IN  /\ invalid' = invalid \cup marked
                /\ known' = known \cup (marked \cap entries)
  /\ queue' = Tail(queue)
  /\ UNCHANGED <<dbVars, tip, orphans, broken, control>>

\* storeOrphan: the orphan with the same parent makes way, limitOrphans drops
\* the k oldest for their age and one more if the pool is still full.
StoreOrphan ==
  /\ Granted("add")
  /\ LET b == Head(queue).block
         others == WithoutSibling(Parent[b])
     IN  /\ ~Refused(b)
         /\ Parent[b] \notin entries
         /\ \E k \in 0..Len(others) :
              orphans' = Append(Limited(SubSeq(others, k + 1, Len(others))),
                                CopyIn(Head(queue)))
  /\ queue' = Tail(queue)
  /\ UNCHANGED <<dbVars, tip, invalid, history, control>>

\* The block has a parent entry: on to connect().
Accept ==
  /\ Granted("add")
  /\ ~Refused(Head(queue).block)
  /\ Parent[Head(queue).block] \in entries
  /\ pc' = "connect"
  /\ cand' = CopyIn(Head(queue))
  /\ call' = Head(queue)
  /\ queue' = Tail(queue)
  /\ UNCHANGED <<dbVars, memory>>

----------------------------------------------------------------------------
\* connect(): saveAlternate for a block without more work than the tip.
SaveAlternate ==
  /\ pc = "connect"
  /\ ~HasMoreWork(New)
  /\ \E late \in Clock(New) :
       LET verdict == HeaderVerdict(New, cand.intact, late)
       IN  \/ /\ verdict = "ok"
              /\ SaveAlternateBatch(New)
              /\ pc' = "orphans"
              /\ UNCHANGED <<memory, queue, cand, call>>
           \/ /\ verdict # "ok"
              /\ Rejected(New, verdict)
              /\ UNCHANGED <<dbVars, tip, broken, queue>>

\* findFork and the two walks of reorganize ask for these entries.
ReorgWalk ==
  {a \in (Anc[tip] \ {tip}) \cup (Anc[New] \ {New}) :
     Height[a] >= Height[ForkOf(tip, New)]}

\* setBestChain: the block extends the tip, or the walks to the fork succeed.
BeginExtend ==
  /\ pc = "connect"
  /\ HasMoreWork(New)
  /\ Parent[New] = tip \/ ReorgWalk \subseteq entries
  /\ pc' = "extend"
  /\ UNCHANGED <<dbVars, memory, queue, cand, call>>

\* 'No previous entry for ... tip.': not a VerifyError, nothing is marked.
ForkMissing ==
  /\ pc = "connect"
  /\ HasMoreWork(New)
  /\ Parent[New] # tip /\ ~(ReorgWalk \subseteq entries)
  /\ Release
  /\ UNCHANGED <<dbVars, memory, queue>>

\* reorganize: where the tip stands on the way to the new block.
\* Mutant of OffBranch: the walk down does not stop at the fork.
OffBranchUnlessParent == tip # Parent[New]

OffBranch == tip \notin Anc[New]
OnBranch == tip \in Anc[New] /\ tip # Parent[New]
AtParent == tip = Parent[New]

\* The next block of the new branch.
NextUp == CHOOSE a \in Anc[New] : Parent[a] = tip

\* Mutant of Disconnect: this.tip is not moved back.
DisconnectStale ==
  /\ pc = "extend"
  /\ OffBranch
  /\ CanDisconnect(tip)
  /\ DisconnectBatch(tip)
  /\ UNCHANGED <<memory, queue, control>>

\* disconnect(tip).
Disconnect ==
  /\ pc = "extend"
  /\ OffBranch
  /\ CanDisconnect(tip)
  /\ DisconnectBatch(tip)
  /\ tip' = Parent[tip]
  /\ UNCHANGED <<invalid, orphans, history, queue, control>>

\* reconnect(NextUp), from the stored block and without the body checks.
Reconnect ==
  /\ pc = "extend"
  /\ OnBranch
  /\ NextUp \in blocks
  /\ \E late \in Clock(NextUp) :
       LET verdict == ContextVerdict(NextUp, TRUE, late, coins)
       IN  \/ /\ verdict = "ok"
              /\ ReconnectBatch(NextUp)
              /\ tip' = NextUp
              /\ UNCHANGED <<invalid, orphans, history, queue, control>>
           \/ /\ verdict # "ok"
              /\ Rejected(NextUp, verdict)
              /\ UNCHANGED <<dbVars, tip, broken, queue>>

\* 'Block not found.', or undo coins that are gone: the reorganization ends
\* where it stands.
DataMissing ==
  /\ pc = "extend"
  /\ \/ OffBranch /\ ~CanDisconnect(tip)
     \/ OnBranch /\ NextUp \notin blocks
  /\ Release
  /\ UNCHANGED <<dbVars, memory, queue>>

\* setBestChain past the reorganization: verify and save the new block.
Attach ==
  /\ pc = "extend"
  /\ AtParent
  /\ \E late \in Clock(New) :
       LET verdict == ContextVerdict(New, cand.intact, late, coins)
       IN  \/ /\ verdict = "ok"
              /\ SaveBatch(New)
              /\ tip' = New
              /\ pc' = "orphans"
              /\ UNCHANGED <<invalid, orphans, history, queue, cand, call>>
           \/ /\ verdict # "ok"
              /\ Rejected(New, verdict)
              /\ UNCHANGED <<dbVars, tip, broken, queue>>

\* Mutant of NextOrphan: the orphan stays in the pool and the loop on its entry.
NextOrphanKept ==
  /\ pc = "orphans"
  /\ HasNextOrphan(New)
  /\ pc' = "connect"
  /\ UNCHANGED <<dbVars, memory, queue, cand, call>>

\* handleOrphans: the orphan waiting for the block just saved is next.  It is
\* not looked up among the invalid blocks again.
NextOrphan ==
  /\ pc = "orphans"
  /\ \E i \in 1..Len(orphans) :
       /\ Parent[orphans[i].block] = New
       /\ cand' = orphans[i]
       /\ orphans' = RemoveAt(orphans, i)
  /\ pc' = "connect"
  /\ UNCHANGED <<dbVars, tip, invalid, history, queue, call>>

AddDone ==
  /\ pc = "orphans"
  /\ ~HasNextOrphan(New)
  /\ Release
  /\ UNCHANGED <<dbVars, memory, queue>>

----------------------------------------------------------------------------
\* The block store as a call that stops at the next write may leave it.
StoreLeft ==
  LET written ==
        CASE pc = "connect" /\ ~HasMoreWork(New)
               -> IF HeaderVerdict(New, cand.intact, FALSE) = "ok"
                  THEN {<<blocks, undo>>, <<blocks \cup {New}, undo>>}
                  ELSE {}
          [] pc = "extend" /\ OnBranch /\ NextUp \in blocks
               -> IF ContextVerdict(NextUp, TRUE, FALSE, coins) = "ok"
                  THEN PartialStores(NextUp) ELSE {}
          [] pc = "extend" /\ AtParent
               -> IF ContextVerdict(New, cand.intact, FALSE, coins) = "ok"
                  THEN PartialStores(New) ELSE {}
          [] OTHER -> {}
  IN  {<<blocks, undo>>} \cup written

\* A read, a block store write or a batch write fails in the middle of add().
AddFails ==
  /\ Faults
  /\ pc \in {"connect", "extend"}
  /\ \E left \in StoreLeft : blocks' = left[1] /\ undo' = left[2]
  /\ Release
  /\ UNCHANGED <<index, memory, queue>>

----------------------------------------------------------------------------
\* The block a reset call ends on: invalidate() resets to the parent.
ResetTarget(c) ==
  IF c.op = "invalidate" /\ c.block # Genesis THEN Parent[c.block] ELSE c.block

ResetAllowed(c) ==
  /\ ~Prune
  /\ {c.block, ResetTarget(c)} \subseteq entries
  /\ IsMainChain(c.block) /\ IsMainChain(ResetTarget(c))
  /\ ChainsWalkable

RefuseReset ==
  /\ Granted("reset") \/ Granted("invalidate")
  /\ ~ResetAllowed(Head(queue))
  /\ queue' = Tail(queue)
  /\ UNCHANGED <<dbVars, memory, control>>

\* reset(): the alternate chains go first, in one batch.
BeginReset ==
  /\ Granted("reset") \/ Granted("invalidate")
  /\ ResetAllowed(Head(queue))
  /\ RemoveChainsBatch
  /\ pc' = "unwind"
  /\ cand' = [block |-> ResetTarget(Head(queue)), intact |-> TRUE]
  /\ call' = Head(queue)
  /\ queue' = Tail(queue)
  /\ UNCHANGED memory

\* One main chain block is removed, with its entry.
Unwind ==
  /\ pc = "unwind"
  /\ dbTip \notin {New, Genesis}
  /\ CanDisconnect(dbTip)
  /\ UnwindBatch(dbTip)
  /\ UNCHANGED <<memory, queue, control>>

\* Only now does this.tip follow; invalidate() adds its mark.
FinishReset ==
  /\ pc = "unwind"
  /\ dbTip = New
  /\ tip' = dbTip
  /\ orphans' = <<>>
  /\ Mark(IF call.op = "invalidate" THEN {call.block} ELSE {})
  /\ Release
  /\ UNCHANGED <<dbVars, broken, queue>>

\* db.reset throws between two batches: this.tip stays where it was.
ResetFails ==
  /\ pc = "unwind"
  /\ \/ ResetFaults
     \/ dbTip # New /\ (dbTip = Genesis \/ ~CanDisconnect(dbTip))
  /\ broken' = TRUE
  /\ Release
  /\ UNCHANGED <<dbVars, tip, invalid, orphans, known, queue>>

----------------------------------------------------------------------------
\* RPC reconsiderblock, and the eviction of an old mark from the LRU.
Forget(b) ==
  /\ b \in invalid
  /\ invalid' = invalid \ {b}
  /\ known' = known \ {b}
  /\ UNCHANGED <<dbVars, tip, orphans, broken, queue, control>>

\* The process dies and Chain#open runs again.
Crash ==
  /\ Crashes
  /\ \E left \in StoreLeft : blocks' = left[1] /\ undo' = left[2]
  /\ tip' = dbTip
  /\ invalid' = {}
  /\ orphans' = <<>>
  /\ queue' = <<>>
  /\ known' = {}
  /\ Release
  /\ UNCHANGED <<index, broken>>

AddStep ==
  \/ Refuse \/ StoreOrphan \/ Accept
  \/ SaveAlternate \/ BeginExtend \/ ForkMissing
  \/ Disconnect \/ Reconnect \/ DataMissing \/ Attach
  \/ NextOrphan \/ AddDone

ResetStep == RefuseReset \/ BeginReset \/ Unwind \/ FinishReset \/ ResetFails

Next ==
  \/ \E c \in Calls : Request(c)
  \/ AddStep
  \/ AddFails
  \/ ResetStep
  \/ \E b \in invalid : Forget(b)
  \/ Crash

Spec == Init /\ [][Next]_vars

\* The event loop runs a call that holds the lock, and grants the lock.
FairSpec == Spec /\ WF_vars(AddStep \/ ResetStep)

\* Callers offer every block again and again, intact.
Offer(b) == Request([op |-> "add", block |-> b, intact |-> TRUE])
OfferedSpec == FairSpec /\ \A b \in Block \ {Genesis} : SF_vars(Offer(b))

----------------------------------------------------------------------------
\* The committed indexes describe exactly the chain that ends in the committed
\* tip, whatever batch a crash or an error came after.
MainIndexed ==
  \A b \in Block :
    /\ \A h \in Heights : mainAt[h] = b <=> b \in Anc[dbTip] /\ Height[b] = h
    /\ \A a \in Block : nextOf[a] = b <=> b \in Anc[dbTip] /\ Parent[b] = a

\* The coin set is the one that replaying the main chain from the genesis
\* block leaves, after any number of disconnects, reconnects and resets.
CoinsAtTip == coins = Unspent[dbTip]

\* Nothing reaches the main chain unverified: not through an alternate branch,
\* the orphan pool, a mutated copy or a failed reorganization.
OnlyValidConnected == FullyValid(dbTip)

\* this.tip and the committed tip differ only while a reset unwinds.
TipAgrees == pc # "unwind" => tip = dbTip

\* removeChains and reset never take the entry of a main chain block, until an
\* error cuts a reset short.
EntriesOfMain == Anc[dbTip] \subseteq entries
MainHasEntries == ~broken => EntriesOfMain

\* What makes those inductive.  A call that extends the chain works towards a
\* block above the tip whose ancestors all have entries; a reset unwinds towards
\* a main chain block; without pruning every main chain block can be undone.
ExtendReady ==
  pc = "extend" =>
    /\ New # Genesis
    /\ New \notin Anc[tip]
    /\ Anc[Parent[New]] \subseteq entries

UnwindReady == pc = "unwind" => New \in Anc[dbTip] /\ ~Prune

UndoKept == ~Prune => \A a \in Anc[dbTip] : CanDisconnect(a)

Inv ==
  /\ TypeOK
  /\ MainIndexed
  /\ CoinsAtTip
  /\ OnlyValidConnected
  /\ EntriesOfMain
  /\ TipAgrees
  /\ ExtendReady
  /\ UnwindReady
  /\ UndoKept

\* The chain on disk is a ledger that grows and shrinks by one valid block, until
\* an error cuts a reset short: the next block then extends a tip that is no more.
L == INSTANCE Ledger WITH head <- dbTip, utxo <- coins
LedgerSpec == L!Init /\ [][broken \/ L!Next]_(L!ledger)

\* An orphan that could be connected never stays in the pool: with the lock
\* free, no orphan has a parent entry, and none has an entry of its own.
NoStuckOrphan ==
  pc = "idle" => \A o \in OrphanBlocks : {o, Parent[o]} \cap entries = {}

\* The pool holds one orphan per parent and never more than maxOrphans.
OrphansBounded ==
  /\ Len(orphans) <= MaxOrphans
  /\ \A i, j \in 1..Len(orphans) :
       Parent[orphans[i].block] = Parent[orphans[j].block] => i = j

\* A mark is evidence: the block or an ancestor is invalid by itself or was
\* within reach of invalidate().  A mutated copy, a clock that runs behind, an
\* I/O error or missing data never mark a block.
NotPoisoned ==
  \A b \in invalid : \E a \in Anc[b] : ~ValidInContext(a) \/ a \in Invalidable

\* A marked block is off the main chain and stays off it until it is forgotten,
\* whichever call marked it and whichever brings it again, the orphan pool
\* included.  Only a mark that _add gave to a block which had an entry already (of
\* the kind that ResetCleans finds) is not enough: once its invalidated ancestor
\* is forgotten, reconnect() takes it from disk without a look at the marks.
InvalidNotMain ==
  ~broken => \A b \in invalid \cap Anc[dbTip] : b = Genesis \/ b \in known

\* Without a failed reorganization, the lock is never free while a valid block
\* with more work than the tip is on disk.
BestTip ==
  pc = "idle" => \A e \in entries : FullyValid(e) => ChainWork[e] <= ChainWork[tip]

\* pruneBlock runs before the batch that connects the block: a crash in
\* between costs one block of the window, and never more.
PruneWindow ==
  \A b \in Anc[dbTip] \ blocks :
    /\ Height[b] > PruneAfter
    /\ \E e \in entries : Height[e] + 1 >= Height[b] + KeepBlocks

\* The block store is written first: an entry or a main chain record never
\* points at a block whose data or undo coins are missing.
DataBeforeIndex ==
  /\ ~Prune => entries \subseteq blocks
  /\ ~Prune => \A h \in Heights : mainAt[h] # NoBlock => CanDisconnect(mainAt[h])

\* When callers keep offering every block, whatever the order, the duplicates
\* and the orphans they cause, the chain ends up on a tip of the most work.
Converges == <>[](\A b \in Block : FullyValid(b) => ChainWork[b] <= ChainWork[tip])

\* Whoever holds the lock lets go of it, and a full queue moves on.
LockMoves ==
  /\ pc # "idle" ~> pc = "idle"
  /\ Len(queue) = MaxQueue ~> Len(queue) < MaxQueue

----------------------------------------------------------------------------
\* chaindb.js on reset: "We need to remove all alternate chains first", "it's
\* the only safe way to reset the chain".
ResetCleans == pc = "unwind" => entries \subseteq Anc[dbTip]

\* chain.js in setBestChain: "now that we're certain its previous block is in
\* the chain".
PrevInChain == pc = "extend" /\ AtParent => IsMainChain(Parent[New]) /\ dbTip = Parent[New]
=============================================================================
