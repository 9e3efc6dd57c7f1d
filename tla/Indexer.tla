------------------------------ MODULE Indexer ------------------------------
(***************************************************************************)
(* An index that follows the chain: Indexer of lib/indexer/indexer.js,     *)
(* with or without the pruneBlock of FilterIndexer.                        *)
(*                                                                         *)
(* The chain waits for the index to handle an event, but not for the sync  *)
(* that the index starts when the event does not fit: that one reads the   *)
(* chain without its lock, block after block, and events that come while   *)
(* it runs are dropped.  `run' is how far the event or the sync is.        *)
(*                                                                         *)
(* The chain is abstracted to what Ledger promises, with its reorganizing  *)
(* and resetting under one lock.                                           *)
(***************************************************************************)
EXTENDS BlockTree

CONSTANT
  MaxExtras     \* bound: resets of the chain, restarts and batches that fail, together

ASSUME IndexerAssumption == MaxExtras \in Nat

VARIABLES
  tip,          \* chain.tip
  goal,         \* the block the chain is on its way to, forward or back
  event,        \* the event that the chain waits for, or NoEvent
  hashes,       \* h: height -> hash, up to R
  height,       \* this.height
  syncing,      \* this.syncing
  batch,        \* this.batch # null though nothing is under way
  run,          \* how far the event or the sync under way is
  asked,        \* FullNode#startSync has called sync since the start
  prunes,       \* this is a FilterIndexer
  extras,
  crossed,      \* history: the chain left a block while a sync was reading it
  left,         \* history: the chain left its first block, which _rollback keeps
  missed,       \* history: since the last sync began, an event was dropped that it
                \* did not see, or one was taken for its opposite
  failed        \* history: a batch, or a pruneBlock, failed since the last start

chain == <<tip, goal, event>>
index == <<hashes, height, syncing, batch, run>>
vars == <<chain, index, asked, prunes, extras, crossed, left, missed, failed>>

Event == [kind : {"connect", "disconnect", "reset"}, block : Block]
NoEvent == [kind |-> "none", block |-> Genesis]

At(stage, h, b) == [stage |-> stage, at |-> h, block |-> b]
Idle == At("idle", 0, NoBlock)
Stages == {"idle", "adding", "removing", "look", "back", "forward", "loaded", "done"}

\* The types of the records and of the run: R is the height of the last record,
\* which this.height follows but for what failed.
TypeOK ==
  /\ tip \in Block /\ goal \in Block
  /\ event \in Event \cup {NoEvent}
  /\ height \in Nat
  /\ \E r \in {height, height - 1} :
       hashes \in [0..r -> Block] /\ (failed \/ r = height)
  /\ syncing \in BOOLEAN /\ batch \in BOOLEAN
  /\ run \in [stage : Stages, at : 0..height, block : Block \cup {NoBlock}]
  /\ run # Idle => syncing
  /\ asked \in BOOLEAN /\ prunes \in BOOLEAN
  /\ extras \in 0..MaxExtras
  /\ {crossed, left, missed, failed} \subseteq BOOLEAN

\* saveGenesis of a new index, on a chain of any length.
Init ==
  /\ tip \in Block /\ FullyValid(tip) /\ goal = tip /\ event = NoEvent
  /\ hashes = [h \in {0} |-> Genesis] /\ height = 0
  /\ syncing = FALSE /\ batch = FALSE /\ run = Idle
  /\ asked = FALSE /\ prunes \in BOOLEAN /\ extras = 0
  /\ crossed = FALSE /\ left = FALSE /\ missed = FALSE /\ failed = FALSE

----------------------------------------------------------------------------
\* The chain.

Main == Anc[tip]

\* A sync is reading the chain.
Reading == run.stage \in {"look", "back", "forward", "loaded", "done"}

Free == event = NoEvent /\ tip = goal

\* chain.add takes the lock for a block with more work.
SetBest(b) ==
  /\ Free /\ ChainWork[b] > ChainWork[tip] /\ FullyValid(b)
  /\ goal' = b
  /\ UNCHANGED <<tip, event, index, asked, prunes, extras, crossed, left, missed, failed>>

\* chain.reset takes it for a block of the main chain.
Reset(b) ==
  /\ Free /\ extras < MaxExtras /\ b \in Main \ {tip}
  /\ goal' = b /\ extras' = extras + 1
  /\ UNCHANGED <<tip, event, index, asked, prunes, crossed, left, missed, failed>>

\* The batch of a block that the chain connects, and the event.
Connect ==
  /\ event = NoEvent /\ tip # goal /\ tip \in Anc[goal]
  /\ \E b \in Anc[goal] :
       /\ Parent[b] = tip
       /\ tip' = b /\ event' = [kind |-> "connect", block |-> b]
  /\ UNCHANGED <<goal, index, asked, prunes, extras, crossed, left, missed, failed>>

\* The chain takes back its last block.
Retract ==
  /\ tip' = Parent[tip]
  /\ crossed' = (crossed \/ Reading)
  /\ left' = (left \/ Parent[tip] = Genesis)
  /\ UNCHANGED <<goal, index, asked, prunes, extras, missed, failed>>

Disconnect ==
  /\ event = NoEvent /\ tip \notin Anc[goal] /\ goal \notin Main
  /\ event' = [kind |-> "disconnect", block |-> tip]
  /\ Retract

\* One round of a reset; the event comes after the last.
ResetRound ==
  /\ event = NoEvent /\ goal \in Main \ {tip}
  /\ event' = IF Parent[tip] = goal THEN [kind |-> "reset", block |-> goal] ELSE NoEvent
  /\ Retract

ChainStep == Connect \/ Disconnect \/ ResetRound

----------------------------------------------------------------------------
\* The batches of the index.

Recorded(h) == h \in DOMAIN hashes

\* _setTip in the batch: the record and the height of the new tip.
SetTip(b) == hashes' = [h \in 0..Height[b] |-> IF h = Height[b] THEN b ELSE hashes[h]]

\* What became of the step under way: `next' when it was written, else the error
\* ends the event, where syncing stays set, or the sync.
Ends == /\ run' = Idle
        /\ syncing' = (run.stage \in {"adding", "removing"})

\* _addBlock.
Add(b, next) ==
  /\ ~batch
  /\ SetTip(b) /\ height' = Height[b]
  /\ run' = next /\ syncing' = (next # Idle)
  /\ UNCHANGED <<batch, failed>>

\* _removeBlock; the pruneBlock of FilterIndexer uses the batch that commit has
\* just let go of, so it throws before this.height is set.
Remove(next) ==
  /\ ~batch
  /\ SetTip(hashes[height - 1])
  /\ IF prunes
     THEN Ends /\ failed' = TRUE /\ UNCHANGED <<height, batch>>
     ELSE /\ height' = height - 1
          /\ run' = next /\ syncing' = (next # Idle)
          /\ UNCHANGED <<batch, failed>>

\* The batch does not get written: start() refuses while an earlier one is left,
\* or the write fails and leaves this one.
Unwritten ==
  /\ \/ batch /\ UNCHANGED extras
     \/ ~batch /\ extras < MaxExtras /\ extras' = extras + 1
  /\ batch' = TRUE /\ failed' = TRUE /\ Ends
  /\ UNCHANGED <<hashes, height>>

----------------------------------------------------------------------------
\* The events of the chain: sync and _syncBlock.

\* _syncChain begins; the listener returns, and the chain goes on.
Begin ==
  /\ run' = IF height = 0 THEN At("forward", 0, NoBlock) ELSE At("look", height, NoBlock)
  /\ syncing' = TRUE /\ missed' = FALSE

Fits == \/ Height[event.block] = height + 1 /\ hashes[height] = Parent[event.block]
        \/ Height[event.block] = height /\ hashes[height] = event.block

\* An event while a sync runs is dropped: unless the sync will see the block.
Dropped ==
  /\ event # NoEvent /\ syncing /\ run.stage \notin {"adding", "removing"}
  /\ event' = NoEvent
  /\ missed' = (missed \/ event.kind # "connect" \/ run.stage = "done")
  /\ UNCHANGED <<tip, goal, index, asked, prunes, extras, crossed, left, failed>>

\* _syncBlock goes by the height of the block, whatever the event is.
Taken ==
  /\ event # NoEvent /\ event.kind # "reset" /\ ~syncing /\ Recorded(height) /\ Fits
  /\ syncing' = TRUE
  /\ run' = At(IF Height[event.block] = height THEN "removing" ELSE "adding", 0, NoBlock)
  /\ missed' = (missed \/ (event.kind = "connect") # (Height[event.block] = height + 1))
  /\ UNCHANGED <<chain, hashes, height, batch, asked, prunes, extras, crossed, left,
                 failed>>

\* The record of this.height is missing: _syncBlock throws, and syncing stays set.
Thrown ==
  /\ event # NoEvent /\ event.kind # "reset" /\ ~syncing /\ ~Recorded(height)
  /\ Height[event.block] \in {height, height + 1}
  /\ syncing' = TRUE /\ event' = NoEvent
  /\ UNCHANGED <<tip, goal, hashes, height, batch, run, asked, prunes, extras, crossed,
                 left, missed, failed>>

Started ==
  /\ event # NoEvent /\ ~syncing
  /\ \/ event.kind = "reset"
     \/ Height[event.block] \notin {height, height + 1}
     \/ Recorded(height) /\ ~Fits
  /\ Begin /\ event' = NoEvent
  /\ UNCHANGED <<tip, goal, hashes, height, batch, asked, prunes, extras, crossed, left,
                 failed>>

\* The batch for the event, which the chain waits for.
AddEvent ==
  /\ run.stage = "adding" /\ event' = NoEvent
  /\ \/ Add(event.block, Idle) /\ UNCHANGED extras
     \/ Unwritten
  /\ UNCHANGED <<tip, goal, asked, prunes, crossed, left, missed>>

RemoveEvent ==
  /\ run.stage = "removing" /\ event' = NoEvent
  /\ \/ Remove(Idle) /\ UNCHANGED extras
     \/ Unwritten
  /\ UNCHANGED <<tip, goal, asked, prunes, crossed, left, missed>>

\* FullNode#startSync calls sync without a block.
StartSync ==
  /\ ~asked /\ asked' = TRUE
  /\ IF syncing THEN UNCHANGED <<run, syncing, missed>> ELSE Begin
  /\ UNCHANGED <<chain, hashes, height, batch, prunes, extras, crossed, left, failed>>

----------------------------------------------------------------------------
\* The sync: _syncChain, _rollback and _rollforward.

Goes(stage, h, b) == run' = At(stage, h, b)

\* getEntry: on the main chain now.
IsMain(b) == b \in Main

\* The search for a common height, which the last record fails when it is missing.
Look ==
  /\ run.stage = "look"
  /\ IF ~Recorded(run.at)
     THEN run' = Idle /\ syncing' = FALSE
     ELSE /\ IF IsMain(hashes[run.at]) THEN Goes("back", run.at, NoBlock)
             ELSE IF run.at = 1 THEN Goes("back", 0, NoBlock)
             ELSE Goes("look", run.at - 1, NoBlock)
          /\ UNCHANGED syncing
  /\ UNCHANGED <<chain, hashes, height, batch, asked, prunes, extras, crossed, left,
                 missed, failed>>

\* Mutant of Above: the rollback stops one block early.
AboveNext(at) == height > at + 1

\* The condition of the loop of _rollback.
Above(at) == height > at /\ height > 1

Rollback ==
  /\ run.stage = "back"
  /\ \/ Above(run.at) /\ Remove(run) /\ UNCHANGED extras
     \/ Above(run.at) /\ Unwritten
     \/ ~Above(run.at) /\ Goes("forward", 0, NoBlock)
        /\ UNCHANGED <<hashes, height, syncing, batch, failed, extras>>
  /\ UNCHANGED <<chain, asked, prunes, crossed, left, missed>>

\* getEntry of the next height; the chain may move before its batch is written.
Load ==
  /\ run.stage = "forward"
  /\ \/ \E b \in Main : Height[b] = height + 1 /\ Goes("loaded", 0, b)
     \/ (\A b \in Main : Height[b] # height + 1) /\ Goes("done", 0, NoBlock)
  /\ UNCHANGED <<chain, hashes, height, syncing, batch, asked, prunes, extras, crossed,
                 left, missed, failed>>

Rollforward ==
  /\ run.stage = "loaded"
  /\ \/ Add(run.block, At("forward", 0, NoBlock)) /\ UNCHANGED extras
     \/ Unwritten
  /\ UNCHANGED <<chain, asked, prunes, crossed, left, missed>>

\* Mutant of Synced: the flag is cleared on errors only.
SyncedQuiet == run.stage = "done" /\ run' = Idle /\ UNCHANGED syncing

\* The loop has ended; then syncing is cleared.
Synced == run.stage = "done" /\ run' = Idle /\ syncing' = FALSE

SyncEnds ==
  /\ Synced
  /\ UNCHANGED <<chain, hashes, height, batch, asked, prunes, extras, crossed, left,
                 missed, failed>>

----------------------------------------------------------------------------
\* The process ends between any two batches, and starts again.
Restart ==
  /\ extras < MaxExtras /\ extras' = extras + 1
  /\ event' = NoEvent /\ goal' = tip
  /\ height' = CHOOSE r \in DOMAIN hashes : r + 1 \notin DOMAIN hashes
  /\ syncing' = FALSE /\ batch' = FALSE /\ run' = Idle /\ asked' = FALSE
  /\ missed' = FALSE /\ failed' = FALSE
  /\ UNCHANGED <<tip, hashes, prunes, crossed, left>>

IndexStep ==
  \/ Dropped \/ Taken \/ Thrown \/ Started \/ AddEvent \/ RemoveEvent \/ StartSync
  \/ Look \/ Rollback \/ Load \/ Rollforward \/ SyncEnds

Next ==
  \/ (\E b \in Block : SetBest(b) \/ Reset(b))
  \/ ChainStep \/ IndexStep \/ Restart

Spec == Init /\ [][Next]_vars

\* The event loop runs the handlers; the chain goes on when it is answered.
FairSpec == Spec /\ WF_vars(IndexStep) /\ WF_vars(ChainStep)

----------------------------------------------------------------------------
\* Properties.

\* The records are a branch of the block tree from the genesis block: fast
\* events, the search for the common height, the rollback and the rollforward
\* hand over to each other at heights that fit, also when an event is missed or
\* taken for its opposite, a batch is not written or the process ends.
OneBranch ==
  crossed \/ left \/ (/\ hashes[0] = Genesis
                      /\ \A h \in DOMAIN hashes \ {0} : Parent[hashes[h]] = hashes[h - 1])

\* Once the chain rests the index comes to its tip and stays there, unless an
\* event was dropped that the sync did not see, or a batch or pruneBlock failed,
\* or the first block is all that is left of a chain that has another, or none.
FirstKept == left /\ height = 1 /\ Height[tip] <= 1

CatchesUp == <>[](missed \/ failed \/ FirstKept \/ hashes[height] = tip)
=============================================================================
