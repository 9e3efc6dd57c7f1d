------------------------------ MODULE ChainDB ------------------------------
(***************************************************************************)
(* What lib/blockchain/chaindb.js keeps on disk: the leveldb indexes, each *)
(* operation of the chain one atomic batch over them, and the block store  *)
(* (lib/blockstore), which is written before the batch and outside it.     *)
(***************************************************************************)
EXTENDS BlockTree

CONSTANTS
  Prune,        \* options.prune
  KeepBlocks,   \* network.block.keepBlocks
  PruneAfter    \* network.block.pruneAfterHeight

ASSUME PruneAssumption ==
  /\ Prune \in BOOLEAN
  /\ KeepBlocks \in Nat \ {0}
  /\ PruneAfter \in Nat

VARIABLES
  entries,      \* h, e: blocks with a chain entry
  mainAt,       \* H: height -> main chain block
  nextOf,       \* n: main chain block -> the one after it
  tips,         \* p: the leaves of the entry tree, kept for removeChains
  dbTip,        \* R: the tip of the committed chain state
  coins,        \* c: unspent outputs
  blocks,       \* block store: blocks with their data
  undo          \* block store: blocks with their undo coins

index == <<entries, mainAt, nextOf, tips, dbTip, coins>>
store == <<blocks, undo>>
dbVars == <<index, store>>

DbTypeOK ==
  /\ entries \subseteq Block
  /\ mainAt \in [Heights -> Block \cup {NoBlock}]
  /\ nextOf \in [Block -> Block \cup {NoBlock}]
  /\ tips \subseteq Block
  /\ dbTip \in Block
  /\ coins \subseteq Coin
  /\ blocks \subseteq Block
  /\ undo \subseteq Block

\* ChainDB#saveGenesis on a fresh database.
DbInit ==
  /\ entries = {Genesis}
  /\ mainAt = [h \in Heights |-> IF h = 0 THEN Genesis ELSE NoBlock]
  /\ nextOf = [b \in Block |-> NoBlock]
  /\ tips = {Genesis}
  /\ dbTip = Genesis
  /\ coins = {}
  /\ blocks = {Genesis}
  /\ undo = {}

----------------------------------------------------------------------------
\* ChainDB#isMainChain, with coherent caches.
IsMainChain(b) == b = Genesis \/ b = dbTip \/ nextOf[b] # NoBlock

\* The block and the undo coins that disconnecting b reads.
HasUndo(b) == Spends[b] = {} \/ b \in undo
CanDisconnect(b) == b \in blocks /\ HasUndo(b)

\* Mutant of PrunedBy: the block at pruneAfterHeight goes as well.
PrunedByAtLimit(b) ==
  IF Prune /\ Height[b] - KeepBlocks >= PruneAfter
  THEN {mainAt[h] : h \in Heights \cap {Height[b] - KeepBlocks}} \ {NoBlock}
  ELSE {}

\* ChainDB#pruneBlock: what connecting b removes from the block store.
PrunedBy(b) ==
  IF Prune /\ Height[b] - KeepBlocks > PruneAfter
  THEN {mainAt[h] : h \in Heights \cap {Height[b] - KeepBlocks}} \ {NoBlock}
  ELSE {}

UndoOf(b) == IF Spends[b] = {} THEN {} ELSE {b}

\* The block store after saveBlock and connectBlock ...
BlocksWith(b) == (blocks \cup {b}) \ PrunedBy(b)
UndosWith(b) == (undo \cup UndoOf(b)) \ PrunedBy(b)

\* ... and every state it is left in when they stop half-way: the block, its
\* undo coins, pruneUndo and prune are written one after the other.
PartialStores(b) ==
  {<<blocks, undo>>,
   <<blocks \cup {b}, undo>>,
   <<blocks \cup {b}, undo \cup UndoOf(b)>>,
   <<blocks \cup {b}, UndosWith(b)>>,
   <<BlocksWith(b), UndosWith(b)>>}

----------------------------------------------------------------------------
\* Mutant of SaveAlternateBatch: only connected blocks are written to the store.
SaveAlternateUnwritten(b) ==
  /\ entries' = entries \cup {b}
  /\ tips' = (tips \ {Parent[b]}) \cup {b}
  /\ UNCHANGED <<mainAt, nextOf, dbTip, coins, store>>

\* ChainDB#save without a view: an alternate block.
SaveAlternateBatch(b) ==
  /\ entries' = entries \cup {b}
  /\ tips' = (tips \ {Parent[b]}) \cup {b}
  /\ blocks' = blocks \cup {b}
  /\ UNCHANGED <<mainAt, nextOf, dbTip, coins, undo>>

\* The part _save with a view and _reconnect share.
Connected(b) ==
  /\ mainAt' = [mainAt EXCEPT ![Height[b]] = b]
  /\ nextOf' = [nextOf EXCEPT ![Parent[b]] = b]
  /\ dbTip' = b
  /\ coins' = (coins \cup Creates[b]) \ Spends[b]
  /\ blocks' = BlocksWith(b)
  /\ undo' = UndosWith(b)

\* ChainDB#save with a view: a new block on the main chain.
SaveBatch(b) ==
  /\ Connected(b)
  /\ entries' = entries \cup {b}
  /\ tips' = (tips \ {Parent[b]}) \cup {b}

\* ChainDB#reconnect: the tip index is left alone.
ReconnectBatch(b) == Connected(b) /\ UNCHANGED <<entries, tips>>

\* Mutants of Disconnected: the height record stays; created coins are removed
\* before the spent ones come back.
DisconnectedKeepingHeight(b) ==
  /\ nextOf' = [nextOf EXCEPT ![Parent[b]] = NoBlock]
  /\ dbTip' = Parent[b]
  /\ coins' = (coins \cup Spends[b]) \ Creates[b]
  /\ UNCHANGED <<mainAt, store>>

DisconnectedOutOfOrder(b) ==
  /\ mainAt' = [mainAt EXCEPT ![Height[b]] = NoBlock]
  /\ nextOf' = [nextOf EXCEPT ![Parent[b]] = NoBlock]
  /\ dbTip' = Parent[b]
  /\ coins' = (coins \ Creates[b]) \cup Spends[b]
  /\ UNCHANGED store

\* The part _disconnect and one round of reset share.
Disconnected(b) ==
  /\ mainAt' = [mainAt EXCEPT ![Height[b]] = NoBlock]
  /\ nextOf' = [nextOf EXCEPT ![Parent[b]] = NoBlock]
  /\ dbTip' = Parent[b]
  /\ coins' = (coins \cup Spends[b]) \ Creates[b]
  /\ UNCHANGED store

\* ChainDB#disconnect: the entry stays, as an alternate block.
DisconnectBatch(b) == Disconnected(b) /\ UNCHANGED <<entries, tips>>

\* One round of the loop in ChainDB#reset.
UnwindBatch(b) ==
  /\ Disconnected(b)
  /\ entries' = entries \ {b}
  /\ tips' = (tips \ {b}) \cup {Parent[b]}

\* Mutant of AlternateOf: the walk removes the fork block too.
AlternateOfPastFork(t) ==
  {a \in Anc[t] \ {Genesis} :
     \A c \in Anc[t] : Height[c] > Height[a] => ~IsMainChain(c)}

\* ChainDB#_removeChain visits a tip and its ancestors up to the main chain.
AlternateOf(t) ==
  {a \in Anc[t] : \A c \in Anc[t] : Height[c] >= Height[a] => ~IsMainChain(c)}

\* The walk finds every entry it asks for.
ChainsWalkable ==
  \A t \in tips : {t} \cup {Parent[a] : a \in AlternateOf(t)} \subseteq entries

\* ChainDB#removeChains, one batch for all the alternate chains.
RemoveChainsBatch ==
  LET gone == UNION {AlternateOf(t) : t \in tips}
  IN  /\ entries' = entries \ gone
      /\ tips' = tips \ gone
      /\ UNCHANGED <<mainAt, nextOf, dbTip, coins, store>>
=============================================================================
