-------------------------------- MODULE TxDB --------------------------------
(***************************************************************************)
(* The transaction database of one wallet, lib/wallet/txdb.js, with the    *)
(* maps of lib/wallet/walletdb.js that say what concerns the wallet.       *)
(* Each action is one batch, written at once or not at all.                *)
(*                                                                         *)
(* The wallet has one account.  Of a coin's height only whether it is -1   *)
(* is kept.  Secondary indexes that repeat a record (m, M, T, P, H, C, u)  *)
(* are left out, and so are coinbases, which have no inputs to keep.       *)
(***************************************************************************)
EXTENDS Transactions, TLC

CONSTANTS
  Mine,         \* coins paid to the wallet's addresses
  Value,        \* coin -> coin.value
  NoTx, Absent, Pending

ASSUME TxDBAssumption ==
  /\ Mine \subseteq Coin
  /\ Value \in [Coin -> Nat \ {0}]
  /\ NoTx \notin Tx
  /\ {Absent, Pending} \cap Block = {} /\ Absent # Pending

VARIABLES
  txs,          \* t and p: transaction -> Absent, Pending, or its block
  credits,      \* c: coins, spent in the mempool or not
  flagged,      \* those whose credit.spent is set
  mined,        \* those whose coin.height is not -1
  undo,         \* d: <<transaction, input>>, the undo coins
  undoMined,    \* those whose coin.height is not -1
  spent,        \* s: coin -> the transaction that spends it
  watch,        \* o: the outpoints that concern the wallet
  blocks,       \* b of the wallet: height -> its transactions, in block order
  mapped,       \* b of the walletdb: heights that concern the wallet
  balance       \* R: tx, coin, unconfirmed, confirmed

coinVars == <<credits, flagged, mined, undo, undoMined, spent, watch>>
txdb == <<txs, coinVars, blocks, mapped, balance>>

TxDBTypeOK ==
  /\ txs \in [Tx -> {Absent, Pending} \cup Block]
  /\ flagged \subseteq credits /\ mined \subseteq credits /\ credits \subseteq Mine
  /\ undoMined \subseteq undo /\ undo \subseteq Tx \X Mine
  /\ spent \in [Coin -> Tx \cup {NoTx}]
  /\ watch \subseteq Coin
  /\ blocks \in [Heights -> Seq(Tx)]
  /\ mapped \subseteq Heights
  /\ balance \in [tx : Int, coin : Int, unconfirmed : Int, confirmed : Int]

TxDBInit ==
  /\ txs = [t \in Tx |-> Absent]
  /\ credits = {} /\ flagged = {} /\ mined = {}
  /\ undo = {} /\ undoMined = {}
  /\ spent = [c \in Coin |-> NoTx]
  /\ watch = {}
  /\ blocks = [h \in Heights |-> <<>>] /\ mapped = {}
  /\ balance = [tx |-> 0, coin |-> 0, unconfirmed |-> 0, confirmed |-> 0]

----------------------------------------------------------------------------
\* What the batches are made of.

Sum(coins) == SumFunctionOnSet(Value, coins)

\* Outputs with a path.
Ours(t) == Outputs(t) \cap Mine

\* getSpentCredits: the inputs that have an undo coin.
Undone(t) == {c \in Inputs[t] : <<t, c>> \in undo}
Undos(t, coins) == {t} \X coins

\* Mutant of Balanced: confirmed coins that are spent stay confirmed.
BalancedKept(n, in, out, confIn, confOut) ==
  balance' = [tx |-> balance.tx + n,
              coin |-> balance.coin + Cardinality(in) - Cardinality(out),
              unconfirmed |-> balance.unconfirmed + Sum(in) - Sum(out),
              confirmed |-> balance.confirmed + Sum(confIn)]

\* BalanceDelta: transactions, coins in and out, confirmed coins in and out.
Balanced(n, in, out, confIn, confOut) ==
  balance' = [tx |-> balance.tx + n,
              coin |-> balance.coin + Cardinality(in) - Cardinality(out),
              unconfirmed |-> balance.unconfirmed + Sum(in) - Sum(out),
              confirmed |-> balance.confirmed + Sum(confIn) - Sum(confOut)]

\* addBlockMap and addBlock.
AddedTo(b, t) ==
  /\ blocks' = [blocks EXCEPT ![Height[b]] = Append(@, t)]
  /\ mapped' = mapped \cup {Height[b]}

\* Undo coins of the spenders of these coins, as updateSpentCoin finds them.
SpentCoins(coins) == {<<spent[c], c>> : c \in coins} \cap undo

----------------------------------------------------------------------------
\* insert: a transaction that is not there, mined in b or pending (NoBlock).

Insert(t, b) ==
  LET known == Inputs[t] \cap credits
      conf == b # NoBlock
  IN IF known \cup Ours(t) = {} THEN UNCHANGED txdb
     ELSE
     /\ txs' = [txs EXCEPT ![t] = IF conf THEN b ELSE Pending]
     /\ credits' = (credits \ IF conf THEN known ELSE {}) \cup Ours(t)
     /\ flagged' = IF conf THEN flagged \ known ELSE flagged \cup known
     /\ mined' = IF conf THEN (mined \ known) \cup Ours(t) ELSE mined
     /\ undo' = undo \cup Undos(t, known)
     /\ undoMined' = undoMined \cup Undos(t, known \cap mined)
     /\ spent' = [c \in Coin |->
                    IF c \in known \/ (~conf /\ c \in Inputs[t]) THEN t ELSE spent[c]]
     /\ watch' = (IF conf THEN watch \ known ELSE watch \cup Inputs[t]) \cup Ours(t)
     /\ IF conf THEN AddedTo(b, t) ELSE UNCHANGED <<blocks, mapped>>
     /\ Balanced(1, Ours(t), known, IF conf THEN Ours(t) ELSE {},
                 IF conf THEN known ELSE {})

\* Mutant of Newly: an input is ours only if it was when t came.
NewlyNone(t) == {}

\* confirm: a pending transaction is mined in b.  An input that was not known
\* to be ours may be by now.
Newly(t) == (Inputs[t] \ Undone(t)) \cap credits

\* Its assertions: what it spends has a height.
ConfirmHolds(t) ==
  Undos(t, Undone(t)) \subseteq undoMined /\ Newly(t) \subseteq mined

Confirm(t, b) ==
  LET known == Undone(t) \cup Newly(t)
      fresh == Ours(t) \ credits
  IN /\ txs' = [txs EXCEPT ![t] = b]
     /\ credits' = (credits \ known) \cup Ours(t)
     /\ flagged' = flagged \ known
     /\ mined' = (mined \ known) \cup Ours(t)
     /\ undo' = undo \cup Undos(t, Newly(t))
     /\ undoMined' = undoMined \cup Undos(t, Newly(t))
                       \cup SpentCoins(Ours(t) \cap flagged)
     /\ spent' = [c \in Coin |->
                    IF c \in Newly(t) THEN t
                    ELSE IF c \in Inputs[t] \ known THEN NoTx ELSE spent[c]]
     /\ watch' = (watch \ Inputs[t]) \cup Ours(t)
     /\ AddedTo(b, t)
     /\ Balanced(0, fresh, Newly(t), Ours(t), known)

\* erase: every trace of a transaction, whose spenders are gone.
Erase(t) ==
  LET known == Undone(t)
      foreign == Inputs[t] \ known
      conf == txs[t] # Pending
      h == Height[txs[t]]
  IN /\ txs' = [txs EXCEPT ![t] = Absent]
     /\ credits' = (credits \cup known) \ Ours(t)
     /\ flagged' = flagged \ (known \cup Ours(t))
     /\ mined' = ((mined \ known) \cup {c \in known : <<t, c>> \in undoMined}) \ Ours(t)
     /\ undo' = undo \ Undos(t, known)
     /\ undoMined' = undoMined \ Undos(t, known)
     /\ spent' = [c \in Coin |->
                    IF c \in known \/ (~conf /\ c \in foreign) THEN NoTx ELSE spent[c]]
     /\ watch' = ((watch \ IF conf THEN {} ELSE foreign) \cup known) \ Ours(t)
     /\ IF conf THEN /\ blocks' = [blocks EXCEPT ![h] = RemoveFirst(@, t)]
                     /\ mapped' = mapped \ {h}
        ELSE UNCHANGED <<blocks, mapped>>
     /\ Balanced(-1, known, Ours(t), IF conf THEN known ELSE {},
                 IF conf THEN Ours(t) ELSE {})

\* disconnect: a mined transaction is pending again.  Its assertions: what it
\* spends has a height, and it is the last of its block.
DisconnectHolds(t) ==
  LET record == blocks[Height[txs[t]]]
  IN /\ Undos(t, Undone(t)) \subseteq undoMined
     /\ record # <<>> => Last(record) = t

Disconnect(t) ==
  LET known == Undone(t)
      h == Height[txs[t]]
      made == Ours(t) \cap credits
  IN /\ txs' = [txs EXCEPT ![t] = Pending]
     /\ credits' = credits \cup known
     /\ flagged' = flagged \cup known
     /\ mined' = (mined \cup known) \ made
     /\ undo' = undo
     /\ undoMined' = undoMined \cup SpentCoins((Ours(t) \ credits) \cup (made \cap flagged))
     /\ spent' = [c \in Coin |-> IF c \in Inputs[t] \ known THEN t ELSE spent[c]]
     /\ watch' = watch \cup Inputs[t] \cup made
     /\ blocks' = [blocks EXCEPT ![h] = IF @ = <<>> THEN @ ELSE Front(@)]
     /\ mapped' = mapped \ {h}
     /\ Balanced(0, {}, {}, known, made)

----------------------------------------------------------------------------
\* The batches that one call needs, in order.

\* removeRecursive on each of roots: spenders first, each transaction once.
Spenders(ts) == {spent[c] : c \in UNION {Outputs(t) : t \in ts}} \ {NoTx}

Doomed(roots) ==
  {x \in Tx : \A S \in SUBSET Tx : roots \subseteq S /\ Spenders(S) \subseteq S => x \in S}

Erasures(roots) ==
  CHOOSE s \in SetToSeqs(Doomed(roots)) :
    \A i, j \in 1..Len(s) : s[j] \in Parents(s[i]) => i < j

\* Mutant of Conflicts: only the spenders of coins of ours.
ConflictsOfOurs(t) == {spent[c] : c \in Inputs[t] \cap Mine} \ {NoTx, t}

\* removeConflicts: the transactions that spend an input of t.
Conflicts(t) == {spent[c] : c \in Inputs[t]} \ {NoTx, t}

\* getWalletsByTX.
Concerns(t) == Inputs[t] \cap watch # {} \/ Ours(t) # {}
=============================================================================
