----------------------------- MODULE BlockTree -----------------------------
(***************************************************************************)
(* The universe of blocks a node can be handed, as far as the chain logic  *)
(* tells blocks apart.  A block header commits to its parent, so the       *)
(* parent, the height and the accumulated chainwork of a block never       *)
(* change: they are constants here, with the recurrences                   *)
(* ChainEntry.fromBlock computes them by as the assumption.  What a block  *)
(* spends and creates is a set of coins (outpoints); what verification     *)
(* says about the block itself is a handful of sets.                       *)
(***************************************************************************)
EXTENDS Integers, FiniteSets

CONSTANTS
  Block,        \* every block hash the node may see
  Genesis,      \* network.genesis
  NoBlock,      \* "no such record" in an index
  Coin,         \* outpoints
  Parent,       \* block -> header.prevBlock
  Height,       \* block -> entry.height
  ChainWork,    \* block -> entry.chainwork, accumulated proof of work
  Anc,          \* block -> the block and all its ancestors
  Spends,       \* block -> coins its transactions consume
  Creates,      \* block -> coins its transactions create
  Unspent,      \* block -> coins a replay of its chain leaves unspent
  Bip34         \* network.block.bip34Enabled: coinbases carry their height

CONSTANTS
  NoWork,       \* blocks whose hash misses their own target
  HeaderBad,    \* blocks verify() rejects before it looks at the clock (bits, MTP)
  TooNew,       \* blocks whose timestamp may be over two hours ahead of now
  ContextBad,   \* blocks verify() rejects after that (version, finality, height)
  ScriptBad,    \* blocks verifyInputs() rejects whatever the coins are
  Checkpointed, \* the blocks of network.checkpointMap
  LastCheckpoint \* network.lastCheckpoint; {} and 0 when options.checkpoints is off

ASSUME TreeAssumption ==
  /\ Genesis \in Block
  /\ NoBlock \notin Block
  /\ Parent \in [Block -> Block \cup {NoBlock}]
  /\ Height \in [Block -> Nat]
  /\ ChainWork \in [Block -> Nat]
  /\ Anc \in [Block -> SUBSET Block]
  /\ Anc[Genesis] = {Genesis}
  /\ Height[Genesis] = 0
  /\ Parent[Genesis] = NoBlock
  /\ \A b \in Block \ {Genesis} :
       /\ Parent[b] \in Block
       /\ b \notin Anc[Parent[b]]
       /\ Anc[b] = Anc[Parent[b]] \cup {b}
       /\ Height[b] = Height[Parent[b]] + 1
       /\ ChainWork[b] > ChainWork[Parent[b]]

\* A fork point: a common ancestor, and none is higher.
IsFork(f, a, b) ==
  /\ f \in Anc[a] \cap Anc[b]
  /\ \A c \in Anc[a] \cap Anc[b] : Height[c] <= Height[f]

\* A transaction id commits to the coins the transaction spends, so of the blocks
\* whose inputs are there only those with the coinbase of another block create a
\* coin that exists.  BIP34 heights rule that out, and so do checkpoints (the two
\* such blocks of mainnet, at 91842 and 91880, are left out of the universe); any
\* other block is up to verifyDuplicates.
ASSUME CoinAssumption ==
  /\ Spends \in [Block -> SUBSET Coin]
  /\ Creates \in [Block -> SUBSET Coin]
  /\ Unspent \in [Block -> SUBSET Coin]
  /\ Bip34 \in BOOLEAN
  /\ Spends[Genesis] = {} /\ Creates[Genesis] = {} /\ Unspent[Genesis] = {}
  /\ \A b \in Block \ {Genesis} :
       /\ Unspent[b] = (Unspent[Parent[b]] \cup Creates[b]) \ Spends[b]
       /\ (Bip34 \/ Height[b] <= LastCheckpoint)
            => \/ ~(Spends[b] \subseteq Unspent[Parent[b]] \cup Creates[b])
               \/ Creates[b] \cap Unspent[Parent[b]] = {}

ASSUME VerdictAssumption ==
  /\ NoWork \subseteq Block \ {Genesis}
  /\ HeaderBad \subseteq Block \ {Genesis}
  /\ ContextBad \subseteq Block \ {Genesis}
  /\ TooNew \subseteq Block
  /\ ScriptBad \subseteq Block \ {Genesis}
  /\ Checkpointed \subseteq Block
  /\ LastCheckpoint \in Nat
  /\ \A b \in Checkpointed : Height[b] <= LastCheckpoint

Heights == {Height[b] : b \in Block}

----------------------------------------------------------------------------
\* Chain#isHistorical, asked with the parent of b.
IsHistorical(b) == Height[b] <= LastCheckpoint

\* Chain#verifyCheckpoint.
CheckpointHolds(b) ==
  \A c \in Checkpointed : Height[c] = Height[b] => c = b

\* Chain#verify on one copy of b.  intact: the body is the one the header
\* commits to; late: the clock reads more than two hours before its timestamp.
HeaderVerdict(b, intact, late) ==
  CASE ~CheckpointHolds(b) -> "invalid"
    [] CheckpointHolds(b) /\ ~intact -> "malleated"
    [] CheckpointHolds(b) /\ intact /\ b \in HeaderBad -> "invalid"
    [] CheckpointHolds(b) /\ intact /\ b \notin HeaderBad /\ late -> "malleated"
    [] OTHER -> IF b \in ContextBad THEN "invalid" ELSE "ok"

\* What the clock may read when b is looked at.
Clock(b) == IF b \in TooNew THEN {TRUE, FALSE} ELSE {FALSE}

\* The view's spendInputs over all transactions of b finds every coin.
InputsExist(b, utxo) == Spends[b] \subseteq (utxo \cup Creates[b])

\* Chain#verifyDuplicates (BIP30): no coin of a transaction of b is still there.
NoDuplicates(b, utxo) == Creates[b] \cap utxo = {}

\* Mutant of ContextVerdict: an alternate branch is trusted once its headers are.
ContextVerdictHeadersOnly(b, intact, late, utxo) == HeaderVerdict(b, intact, late)

\* Chain#verifyContext: verify(), then updateInputs() for a historical block,
\* which asserts that the coins are there, and verifyDuplicates() without BIP34 and
\* verifyInputs() for any other.
ContextVerdict(b, intact, late, utxo) ==
  IF HeaderVerdict(b, intact, late) # "ok" THEN HeaderVerdict(b, intact, late)
  ELSE IF IsHistorical(b)
  THEN IF InputsExist(b, utxo) THEN "ok" ELSE "error"
  ELSE IF /\ Bip34 \/ NoDuplicates(b, utxo)
          /\ InputsExist(b, utxo) /\ b \notin ScriptBad
       THEN "ok" ELSE "invalid"

----------------------------------------------------------------------------
\* Reference definition, for the properties only: the verdict on b in the context
\* of its own chain.
ValidInContext(b) ==
  b # Genesis =>
    /\ CheckpointHolds(b)
    /\ b \notin HeaderBad \cup ContextBad
    /\ InputsExist(b, Unspent[Parent[b]])
    /\ ~IsHistorical(b) => /\ Bip34 \/ NoDuplicates(b, Unspent[Parent[b]])
                           /\ b \notin ScriptBad

\* A block that can be part of a fully valid chain.
FullyValid(b) == \A a \in Anc[b] : ValidInContext(a)

\* What Chain#findFork returns.
ForkOf(a, b) == CHOOSE f \in Block : IsFork(f, a, b)
=============================================================================
