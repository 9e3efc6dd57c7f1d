---------------------------- MODULE Transactions ----------------------------
(***************************************************************************)
(* The transactions in the blocks of BlockTree.  An outpoint names the     *)
(* transaction that makes it, so what a transaction spends and makes is    *)
(* constant; of its scripts, fees and lock times only the verdicts count.  *)
(***************************************************************************)
EXTENDS BlockTree, Sequences, SequencesExt

CONSTANTS
  Tx,           \* the transactions peers relay and blocks hold
  OtherId,      \* ids of coinbases, and of transactions nobody has sent
  Maker,        \* coin -> prevout.hash, the transaction that makes it
  Inputs,       \* transaction -> the coins it spends
  BlockTxs,     \* block -> its transactions but the coinbase, in block order
  Standard,     \* transactions that pass the checks that need no coins
  Verifies,     \* transactions that pass verify() once their coins are known
  TimeLocked,   \* transactions that may be non-final at the tip
  Relocked      \* transactions with relative locks, or that spend a coinbase

TxId == Tx \cup OtherId
Parents(t) == {Maker[c] : c \in Inputs[t]}
Outputs(t) == {c \in Coin : Maker[c] = t}
TxsOf(b) == ToSet(BlockTxs[b])

\* An id is a hash of all the ids it spends, so nothing spends its own output, nor
\* do any spend each other's in a circle; what a block creates and spends is what
\* its transactions do.
ASSUME TxAssumption ==
  /\ Tx \cap OtherId = {}
  /\ Maker \in [Coin -> TxId]
  /\ Inputs \in [Tx -> (SUBSET Coin) \ {{}}]
  /\ IsFiniteSet(Tx) /\ IsFiniteSet(Coin)
  /\ \A t \in Tx : t \notin Parents(t)
  /\ \A S \in SUBSET Tx : S # {} => \E t \in S : Parents(t) \cap S = {}
  /\ BlockTxs \in [Block -> Seq(Tx)]
  /\ \A b \in Block :
       /\ Spends[b] = UNION {Inputs[t] : t \in TxsOf(b)}
       /\ \A t \in TxsOf(b) : Outputs(t) \subseteq Creates[b]
       /\ \A c \in Creates[b] : Maker[c] \in TxsOf(b) \cup OtherId
       /\ \A i, j \in 1..Len(BlockTxs[b]) :
            BlockTxs[b][j] \in Parents(BlockTxs[b][i]) => j < i
  /\ {Standard, Verifies, TimeLocked, Relocked} \subseteq SUBSET Tx
=============================================================================
