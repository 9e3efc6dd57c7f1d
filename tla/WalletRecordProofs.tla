------------------------- MODULE WalletRecordProofs -------------------------
(***************************************************************************)
(* Proofs about what the wallet records. RecA says how its records agree   *)
(* among themselves: the mined ones are on one line, what is spent is      *)
(* there and is not mined above what spends it, rivals exclude each other, *)
(* the totals add up. RecB(T) says how they agree with the chain, for a    *)
(* trail T of the requests that wait: what is mined is in a block the      *)
(* wallet has, is about to have or is about to leave, and what such a      *)
(* block has for the wallet is recorded, is in a batch that waits, or is   *)
(* among what the job still has to look at. The invariant All adds them to *)
(* Inv1 and C(T) for as long as nothing tore the records, and the theorems *)
(* follow from it.                                                         *)
(***************************************************************************)
EXTENDS WalletProofs

----------------------------------------------------------------------------
\* What the records of the wallet say of each other.

\* The blocks of mined transactions are on one line.
LineInv == \A t, x \in Tx : Mined(t) /\ Mined(x) => txs[t] \in Anc[txs[x]] \/ txs[x] \in Anc[txs[t]]

\* A credit is a coin of ours that no mined transaction spends.
CreditInv ==
  \A c \in Coin : c \in credits <=>
    /\ c \in Mine /\ Maker[c] \in Tx /\ Exists(Maker[c])
    /\ \A y \in Tx : Mined(y) => <<y, c>> \notin undo

\* A credit is flagged when a pending transaction spends it.
FlagInv ==
  \A c \in Coin : c \in flagged <=> c \in credits /\ \E y \in Tx : IsPending(y) /\ <<y, c>> \in undo

\* A credit of a mined transaction has its height.
MinedInv == \A c \in credits : Mined(Maker[c]) => c \in mined

\* An undo coin is of a transaction that is there, and so is what made it.
UndoInv ==
  \A y \in Tx, c \in Mine : <<y, c>> \in undo =>
    /\ Exists(y) /\ c \in Inputs[y] /\ spent[c] = y
    /\ Maker[c] \in Tx /\ Exists(Maker[c])
    /\ Mined(Maker[c]) => <<y, c>> \in undoMined

\* The coins that a pending transaction spends are watched and name it.
PSpentInv == \A y \in Tx : IsPending(y) => \A c \in Inputs[y] : spent[c] = y /\ c \in watch

\* No two transactions of the wallet spend one coin.
RivalInv == \A t, x \in Tx : Exists(t) /\ Exists(x) /\ t # x => Inputs[t] \cap Inputs[x] = {}

WatchInv == credits \subseteq watch

\* What a mined transaction spends of ours is mined, if it is there or of the
\* same block.
KInv ==
  \A y \in Tx : Mined(y) => \A c \in Inputs[y] \cap Mine : Maker[c] \in Tx =>
    /\ Exists(Maker[c]) => Mined(Maker[c]) /\ <<y, c>> \in undo
    /\ Maker[c] \in TxsOf(txs[y]) => Mined(Maker[c])

\* A block record has what is spent before what spends it.
OrderInv ==
  \A h \in Heights : \A i, j \in 1..Len(blocks[h]) :
    \A c \in Inputs[blocks[h][i]] \cap Mine : Maker[c] = blocks[h][j] => j < i

Held == {t \in Tx : Exists(t)}
Sure == {c \in credits : Mined(Maker[c])}
Balance ==
  balance = [tx |-> Cardinality(Held), coin |-> Cardinality(credits \ flagged),
             unconfirmed |-> Sum(credits \ flagged), confirmed |-> Sum(Sure)]

RecA ==
  /\ LineInv /\ CreditInv /\ FlagInv /\ MinedInv /\ UndoInv /\ PSpentInv
  /\ RivalInv /\ WatchInv /\ KInv /\ OrderInv /\ Balance

\* No mined transaction spends what t makes for the wallet.
Unclaimed(t) == \A y \in Tx : Mined(y) => \A c \in Inputs[y] \cap Mine : Maker[c] # t

\* What t spends of ours is mined, if it is there or of the block b.
Fed(t, b) ==
  \A c \in Inputs[t] \cap Mine : Maker[c] \in Tx =>
    ((Exists(Maker[c]) \/ Maker[c] \in TxsOf(b)) => Mined(Maker[c]))

OnLine(b) == \A x \in Tx : Mined(x) => txs[x] \in Anc[b] \/ b \in Anc[txs[x]]

LEMMA RecAKept == ASSUME RecA, UNCHANGED txdb PROVE RecA'
<1>1. /\ txs' = txs /\ credits' = credits /\ flagged' = flagged /\ mined' = mined /\ undo' = undo
      /\ undoMined' = undoMined /\ spent' = spent /\ watch' = watch /\ blocks' = blocks
      /\ balance' = balance
  BY DEF txdb, coinVars
<1>2. LineInv' /\ CreditInv' /\ FlagInv' /\ MinedInv'
  BY <1>1 DEF RecA, LineInv, CreditInv, FlagInv, MinedInv, Mined, Exists, IsPending
<1>3. UndoInv' /\ PSpentInv' /\ RivalInv' /\ WatchInv'
  BY <1>1 DEF RecA, UndoInv, PSpentInv, RivalInv, WatchInv, Mined, Exists, IsPending
<1>4. KInv' /\ OrderInv'
  BY <1>1 DEF RecA, KInv, OrderInv, Mined, Exists
<1>5. Held' = Held /\ Sure' = Sure
  BY <1>1 DEF Held, Sure, Mined, Exists
<1>6. Balance'
  BY <1>1, <1>5 DEF RecA, Balance
<1> QED
  BY <1>2, <1>3, <1>4, <1>6 DEF RecA

LEMMA Swapped ==
  ASSUME NEW S \in SUBSET Coin, NEW out \in SUBSET S, NEW in \in SUBSET Coin,
         (S \ out) \cap in = {}
  PROVE  /\ Sum((S \ out) \cup in) = Sum(S) + Sum(in) - Sum(out)
         /\ Cardinality((S \ out) \cup in) = Cardinality(S) + Cardinality(in) - Cardinality(out)
<1> DEFINE R == S \ out
<1>1. R \in SUBSET Coin /\ R \cap in = {} /\ out \in SUBSET Coin
  OBVIOUS
<1>2. Sum(R) = Sum(S) - Sum(out) /\ Cardinality(R) = Cardinality(S) - Cardinality(out)
  BY SumMinus, CountMinus
<1> HIDE DEF R
<1>3. Sum(R \cup in) = Sum(R) + Sum(in) /\ Cardinality(R \cup in) = Cardinality(R) + Cardinality(in)
  BY <1>1, SumUnion, CountUnion
<1>4. /\ Sum(R) \in Nat /\ Sum(S) \in Nat /\ Sum(out) \in Nat /\ Sum(in) \in Nat
      /\ Cardinality(R) \in Nat /\ Cardinality(S) \in Nat
      /\ Cardinality(out) \in Nat /\ Cardinality(in) \in Nat
  BY <1>1, SumType, CoinsFinite
<1> QED
  BY <1>2, <1>3, <1>4 DEF R

\* A batch books what it changes.
LEMMA Booked ==
  ASSUME TxDBTypeOK, Balance, NEW n \in Int, NEW in \in SUBSET Coin, NEW out \in SUBSET (credits \ flagged),
         NEW confIn \in SUBSET Coin, NEW confOut \in SUBSET Sure,
         Balanced(n, in, out, confIn, confOut),
         Cardinality(Held') = Cardinality(Held) + n,
         credits' \ flagged' = ((credits \ flagged) \ out) \cup in,
         ((credits \ flagged) \ out) \cap in = {},
         Sure' = (Sure \ confOut) \cup confIn, (Sure \ confOut) \cap confIn = {}
  PROVE  Balance'
<1> DEFINE S == credits \ flagged
<1>1. S \in SUBSET Coin /\ Sure \in SUBSET Coin
  BY TxDBAssumption DEF TxDBTypeOK, Sure
<1>2. /\ Sum((S \ out) \cup in) = Sum(S) + Sum(in) - Sum(out)
      /\ Cardinality((S \ out) \cup in) = Cardinality(S) + Cardinality(in) - Cardinality(out)
  BY <1>1, Swapped
<1>3. Sum((Sure \ confOut) \cup confIn) = Sum(Sure) + Sum(confIn) - Sum(confOut)
  BY <1>1, Swapped
<1>4. /\ Sum(credits' \ flagged') = Sum(S) + Sum(in) - Sum(out)
      /\ Cardinality(credits' \ flagged') = Cardinality(S) + Cardinality(in) - Cardinality(out)
      /\ Sum(Sure') = Sum(Sure) + Sum(confIn) - Sum(confOut)
  BY <1>2, <1>3
<1>5. /\ balance.tx = Cardinality(Held) /\ balance.coin = Cardinality(S)
      /\ balance.unconfirmed = Sum(S) /\ balance.confirmed = Sum(Sure)
  BY DEF Balance
<1>6. balance' = [tx |-> balance.tx + n,
              coin |-> balance.coin + Cardinality(in) - Cardinality(out),
              unconfirmed |-> balance.unconfirmed + Sum(in) - Sum(out),
              confirmed |-> balance.confirmed + Sum(confIn) - Sum(confOut)]
  BY DEF Balanced
<1>7. balance' = [tx |-> Cardinality(Held'), coin |-> Cardinality(credits' \ flagged'),
             unconfirmed |-> Sum(credits' \ flagged'), confirmed |-> Sum(Sure')]
  <2> HIDE DEF S
  <2> QED
    BY <1>4, <1>5, <1>6
<1> QED
  BY <1>7 DEF Balance, Sum, Sure, Held, Mined, Exists

LEMMA OneState ==
  ASSUME TxDBTypeOK, NEW t \in Tx, NEW b \in {Absent, Pending} \cup Block,
         txs' = [txs EXCEPT ![t] = b]
  PROVE  /\ txs'[t] = b /\ \A x \in Tx \ {t} : txs'[x] = txs[x]
         /\ Mined(t)' <=> b \in Block
         /\ Exists(t)' <=> b # Absent
         /\ IsPending(t)' <=> b = Pending
         /\ \A x \in Tx \ {t} : /\ Mined(x)' <=> Mined(x)
                                /\ Exists(x)' <=> Exists(x)
                                /\ IsPending(x)' <=> IsPending(x)
         /\ Held' = (Held \ {t}) \cup (IF b # Absent THEN {t} ELSE {})
<1>1. txs'[t] = b /\ \A x \in Tx \ {t} : txs'[x] = txs[x]
  BY DEF TxDBTypeOK
<1> QED
  BY <1>1 DEF Mined, Exists, IsPending, Held

LEMMA InsertRec ==
  ASSUME Db, RecA, NEW t \in Tx, NEW b \in Block \cup {NoBlock}, txs[t] = Absent, Insert(t, b),
         \A c \in Inputs[t] : spent[c] = NoTx,
         \A x \in Tx : Mined(x) => Inputs[x] \cap Inputs[t] = {},
         Unclaimed(t), b # NoBlock => b \in Block /\ Fed(t, b) /\ OnLine(b)
  PROVE  RecA'
<1> DEFINE known == Inputs[t] \cap credits
           conf == b # NoBlock
<1>0. TxDBTypeOK /\ NoBlock \notin Block
  BY TreeAssumption DEF Db
<1>a. CASE known \cup Ours(t) = {}
  BY <1>a, RecAKept DEF Insert
<1>b. CASE known \cup Ours(t) # {}
  <2>1. /\ txs' = [txs EXCEPT ![t] = IF conf THEN b ELSE Pending]
        /\ credits' = (credits \ IF conf THEN known ELSE {}) \cup Ours(t)
        /\ flagged' = IF conf THEN flagged \ known ELSE flagged \cup known
        /\ mined' = IF conf THEN (mined \ known) \cup Ours(t) ELSE mined
        /\ undo' = undo \cup Undos(t, known)
        /\ undoMined' = undoMined \cup Undos(t, known \cap mined)
        /\ spent' = [c \in Coin |->
                    IF c \in known \/ (~conf /\ c \in Inputs[t]) THEN t ELSE spent[c]]
        /\ watch' = (IF conf THEN watch \ known ELSE watch \cup Inputs[t]) \cup Ours(t)
        /\ IF conf THEN AddedTo(b, t) ELSE UNCHANGED <<blocks, mapped>>
        /\ Balanced(1, Ours(t), known, IF conf THEN Ours(t) ELSE {}, IF conf THEN known ELSE {})
    BY <1>b DEF Insert
  <2>2. /\ txs'[t] = (IF conf THEN b ELSE Pending) /\ \A x \in Tx \ {t} : txs'[x] = txs[x]
        /\ Mined(t)' <=> conf
        /\ Exists(t)' /\ (IsPending(t)' <=> ~conf)
        /\ \A x \in Tx \ {t} : /\ Mined(x)' <=> Mined(x)
                               /\ Exists(x)' <=> Exists(x)
                               /\ IsPending(x)' <=> IsPending(x)
        /\ Held' = Held \cup {t}
        /\ ~Exists(t) /\ ~Mined(t) /\ ~IsPending(t)
    <3>1. PICK v \in {Absent, Pending} \cup Block : v = IF conf THEN b ELSE Pending
      OBVIOUS
    <3>2. /\ Absent # Pending /\ Absent \notin Block /\ Pending \notin Block
          /\ v # Absent /\ (v \in Block <=> conf) /\ (v = Pending <=> ~conf)
      BY <3>1, TxDBAssumption
    <3>3. txs' = [txs EXCEPT ![t] = v]
      BY <2>1, <3>1
    <3>4. /\ txs'[t] = v /\ \A x \in Tx \ {t} : txs'[x] = txs[x]
          /\ Mined(t)' <=> v \in Block
          /\ Exists(t)' <=> v # Absent
          /\ IsPending(t)' <=> v = Pending
          /\ \A x \in Tx \ {t} : /\ Mined(x)' <=> Mined(x)
                                 /\ Exists(x)' <=> Exists(x)
                                 /\ IsPending(x)' <=> IsPending(x)
          /\ Held' = (Held \ {t}) \cup (IF v # Absent THEN {t} ELSE {})
      BY <1>0, <3>3, OneState
    <3>5. ~Exists(t) /\ ~Mined(t) /\ ~IsPending(t)
      BY <3>2 DEF Exists, Mined, IsPending
    <3>6. Held' = Held \cup {t}
      BY <3>2, <3>4
    <3> QED
      BY <3>1, <3>2, <3>4, <3>5, <3>6
  <2>3. /\ Ours(t) \subseteq Coin /\ Ours(t) \subseteq Mine /\ Mine \subseteq Coin
        /\ Inputs[t] \subseteq Coin /\ credits \subseteq Coin /\ credits \subseteq Mine
        /\ known \subseteq Inputs[t] /\ known \subseteq credits /\ known \subseteq Coin
        /\ \A c \in Coin : c \in Ours(t) <=> c \in Mine /\ Maker[c] = t
        /\ flagged \subseteq credits /\ undo \subseteq Tx \X Mine
    BY <1>0, CoinSets DEF TxDBTypeOK
  <2>4. \A y \in Tx : Exists(y) => Mined(y) \/ IsPending(y)
    BY <1>0, States
  <2>5. \A y \in Tx, c \in Coin : <<y, c>> \in undo' <=> <<y, c>> \in undo \/ (y = t /\ c \in known)
    BY <2>1, <2>3 DEF Undos
  <2>6. \A c \in credits : Maker[c] \in Tx \ {t} /\ Exists(Maker[c])
    BY <2>2, <2>3 DEF RecA, CreditInv
  <2>7. \A y \in Tx, c \in Mine : <<y, c>> \in undo => y # t /\ Maker[c] # t /\ c \notin Inputs[t] /\ spent[c] = y
    <3>1. NoTx \notin Tx
      BY TxDBAssumption
    <3> QED
      BY <2>2, <3>1 DEF RecA, UndoInv
  <2>8. Ours(t) \cap Inputs[t] = {} /\ Ours(t) \cap credits = {}
    BY <2>3, <2>6, TxAssumption DEF Parents
  <2>9. \A x \in Tx : Exists(x) => Inputs[x] \cap Inputs[t] = {}
    <3>1. NoTx \notin Tx
      BY TxDBAssumption
    <3>2. \A x \in Tx : IsPending(x) => Inputs[x] \cap Inputs[t] = {}
      BY <3>1 DEF RecA, PSpentInv
    <3> QED
      BY <2>4, <3>2
  <2>10. known \cap flagged = {}
    BY <2>3, <2>7 DEF RecA, FlagInv
  <2> HIDE DEF known, conf
  <2>l. LineInv'
    <3>1. CASE conf
      <4>1. b \in Block /\ OnLine(b) /\ txs'[t] = b
        BY <2>2, <3>1 DEF conf
      <4>2. ASSUME NEW x \in Tx, NEW y \in Tx, Mined(x)', Mined(y)'
            PROVE  txs'[x] \in Anc[txs'[y]] \/ txs'[y] \in Anc[txs'[x]]
        <5>1. CASE x = t /\ y = t
          BY <4>1, <5>1, Lines
        <5>2. CASE x = t /\ y # t
          BY <2>2, <4>1, <4>2, <5>2 DEF OnLine
        <5>3. CASE x # t /\ y = t
          BY <2>2, <4>1, <4>2, <5>3 DEF OnLine
        <5>4. CASE x # t /\ y # t
          BY <2>2, <4>2, <5>4 DEF RecA, LineInv
        <5> QED
          BY <5>1, <5>2, <5>3, <5>4
      <4> QED
        BY <4>2 DEF LineInv, Mined
    <3>2. CASE ~conf
      <4>1. \A x \in Tx : Mined(x)' => x # t /\ Mined(x) /\ txs'[x] = txs[x]
        BY <2>2, <3>2
      <4> QED
        BY <4>1 DEF RecA, LineInv, Mined
    <3> QED
      BY <3>1, <3>2
  <2>c. CreditInv'
    <3> SUFFICES ASSUME NEW c \in Coin
                 PROVE  c \in credits' <=>
                          /\ c \in Mine /\ Maker[c] \in Tx /\ Exists(Maker[c])'
                          /\ \A y \in Tx : Mined(y)' => <<y, c>> \notin undo'
      BY DEF CreditInv, Exists, Mined
    <3>1. CASE c \in Ours(t)
      <4>1. c \in credits' /\ c \in Mine /\ Maker[c] = t
        BY <2>1, <2>3, <3>1
      <4>2. \A y \in Tx : <<y, c>> \notin undo'
        BY <2>3, <2>5, <2>7, <2>8, <4>1, <3>1
      <4> QED
        BY <2>2, <4>1, <4>2
    <3>2. CASE c \notin Ours(t) /\ c \in known
      <4>1. <<t, c>> \in undo'
        BY <2>5, <3>2
      <4>2. c \in Mine /\ Maker[c] \in Tx /\ Exists(Maker[c])'
        BY <2>2, <2>3, <2>6, <3>2
      <4>3. \A y \in Tx : <<y, c>> \in undo' => y = t
        BY <2>3, <2>5, <2>7, <3>2
      <4> QED
        BY <2>1, <2>2, <2>3, <4>1, <4>2, <4>3, <3>2
    <3>3. CASE c \notin Ours(t) /\ c \notin known
      <4>1. c \in credits' <=> c \in credits
        BY <2>1, <3>3
      <4>2. \A y \in Tx : <<y, c>> \in undo' <=> <<y, c>> \in undo
        BY <2>5, <3>3
      <4>3. c \in Mine => Maker[c] # t
        BY <2>3, <3>3
      <4>4. c \in Mine => \A y \in Tx : <<y, c>> \in undo => y # t
        BY <2>7
      <4>5. c \in Mine => ((\A y \in Tx : Mined(y)' => <<y, c>> \notin undo') <=>
                           (\A y \in Tx : Mined(y) => <<y, c>> \notin undo))
        BY <2>2, <4>2, <4>4
      <4>6. c \in Mine /\ Maker[c] \in Tx => (Exists(Maker[c])' <=> Exists(Maker[c]))
        BY <2>2, <4>3
      <4> QED
        BY <4>1, <4>5, <4>6 DEF RecA, CreditInv
    <3> QED
      BY <3>1, <3>2, <3>3
  <2>f. FlagInv'
    <3> SUFFICES ASSUME NEW c \in Coin
                 PROVE  c \in flagged' <=> c \in credits' /\ \E y \in Tx : IsPending(y)' /\ <<y, c>> \in undo'
      BY DEF FlagInv, IsPending
    <3>0. c \in flagged <=> c \in credits /\ \E y \in Tx : IsPending(y) /\ <<y, c>> \in undo
      BY DEF RecA, FlagInv
    <3>1. CASE c \in known
      <4>1. c \notin flagged /\ c \in credits /\ c \notin Ours(t)
        BY <2>3, <2>8, <2>10, <3>1
      <4>2. CASE conf
        <5>1. c \notin credits' /\ c \notin flagged'
          BY <2>1, <3>1, <4>1, <4>2
        <5> QED
          BY <5>1
      <4>3. CASE ~conf
        BY <2>1, <2>2, <2>5, <3>1, <4>1, <4>3
      <4> QED
        BY <4>2, <4>3
    <3>2. CASE c \notin known
      <4>1. c \in flagged' <=> c \in flagged
        BY <2>1, <3>2
      <4>2. c \in credits' <=> c \in credits \/ c \in Ours(t)
        BY <2>1, <3>2
      <4>3. \A y \in Tx : <<y, c>> \in undo' <=> <<y, c>> \in undo
        BY <2>5, <3>2
      <4>4. c \in Mine => \A y \in Tx : <<y, c>> \in undo => y # t /\ Maker[c] # t
        BY <2>7
      <4>5. c \in Ours(t) => c \in Mine /\ Maker[c] = t
        BY <2>3
      <4>6. c \in Mine => ((\E y \in Tx : IsPending(y)' /\ <<y, c>> \in undo') <=>
                            \E y \in Tx : IsPending(y) /\ <<y, c>> \in undo)
        BY <2>2, <4>3, <4>4
      <4>7. c \in credits' => c \in Mine
        BY <2>3, <4>2
      <4>8. c \in Ours(t) => \A y \in Tx : <<y, c>> \notin undo'
        BY <4>3, <4>4, <4>5
      <4> QED
        BY <2>3, <3>0, <4>1, <4>2, <4>6, <4>7, <4>8
    <3> QED
      BY <3>1, <3>2
  <2>m. MinedInv'
    <3> SUFFICES ASSUME NEW c \in credits', Mined(Maker[c])' PROVE c \in mined'
      BY DEF MinedInv, Mined
    <3>1. CASE c \in Ours(t)
      <4>1. Maker[c] = t
        BY <2>3, <3>1
      <4>2. conf
        BY <2>2, <4>1
      <4> QED
        BY <2>1, <3>1, <4>2
    <3>2. CASE c \notin Ours(t)
      <4>1. c \in credits /\ (conf => c \notin known)
        BY <2>1, <3>2
      <4>2. Mined(Maker[c])
        BY <2>2, <2>6, <4>1
      <4>3. c \in mined
        BY <4>1, <4>2 DEF RecA, MinedInv
      <4> QED
        BY <2>1, <4>1, <4>3
    <3> QED
      BY <3>1, <3>2
  <2>u. UndoInv'
    <3> SUFFICES ASSUME NEW y \in Tx, NEW c \in Mine, <<y, c>> \in undo'
                 PROVE  /\ Exists(y)' /\ c \in Inputs[y] /\ spent'[c] = y
                        /\ Maker[c] \in Tx /\ Exists(Maker[c])'
                        /\ Mined(Maker[c])' => <<y, c>> \in undoMined'
      BY DEF UndoInv, Mined, Exists
    <3>1. c \in Coin
      BY <2>3
    <3>2. CASE <<y, c>> \in undo
      <4>1. y # t /\ Maker[c] # t /\ c \notin Inputs[t] /\ c \notin known
        BY <2>3, <2>7, <3>2
      <4>2. /\ Exists(y) /\ c \in Inputs[y] /\ spent[c] = y
            /\ Maker[c] \in Tx /\ Exists(Maker[c])
            /\ Mined(Maker[c]) => <<y, c>> \in undoMined
        BY <3>2 DEF RecA, UndoInv
      <4>3. spent'[c] = y
        BY <2>1, <3>1, <4>1, <4>2
      <4> QED
        BY <2>1, <2>2, <4>1, <4>2, <4>3
    <3>3. CASE <<y, c>> \notin undo
      <4>1. y = t /\ c \in known
        BY <2>5, <3>1, <3>3
      <4>2. Maker[c] \in Tx \ {t} /\ Exists(Maker[c]) /\ c \in Inputs[t]
        BY <2>3, <2>6, <4>1
      <4>3. spent'[c] = t
        BY <2>1, <3>1, <4>1
      <4>4. Mined(Maker[c]) => c \in mined
        BY <2>3, <4>1 DEF RecA, MinedInv
      <4>5. Mined(Maker[c])' => <<t, c>> \in undoMined'
        BY <2>1, <2>2, <4>1, <4>2, <4>4 DEF Undos
      <4> QED
        BY <2>2, <4>1, <4>2, <4>3, <4>5
    <3> QED
      BY <3>2, <3>3
  <2>p. PSpentInv'
    <3> SUFFICES ASSUME NEW y \in Tx, IsPending(y)', NEW c \in Inputs[y]
                 PROVE  spent'[c] = y /\ c \in watch'
      BY DEF PSpentInv, IsPending
    <3>1. c \in Coin
      BY TxTypes
    <3>2. CASE y = t
      <4>1. ~conf
        BY <2>2, <3>2
      <4> QED
        BY <2>1, <3>1, <3>2, <4>1
    <3>3. CASE y # t
      <4>1. IsPending(y) /\ Exists(y)
        BY <2>2, <3>3, <1>0, States
      <4>2. spent[c] = y /\ c \in watch
        BY <4>1 DEF RecA, PSpentInv
      <4>3. c \notin Inputs[t] /\ c \notin known
        BY <2>3, <2>9, <4>1
      <4> QED
        BY <2>1, <3>1, <4>2, <4>3
    <3> QED
      BY <3>2, <3>3
  <2>r. RivalInv'
    <3> SUFFICES ASSUME NEW x \in Tx, NEW y \in Tx, Exists(x)', Exists(y)', x # y
                 PROVE  Inputs[x] \cap Inputs[y] = {}
      BY DEF RivalInv, Exists
    <3>1. CASE x = t
      BY <2>2, <2>9, <3>1
    <3>2. CASE y = t
      BY <2>2, <2>9, <3>2
    <3>3. CASE x # t /\ y # t
      BY <2>2, <3>3 DEF RecA, RivalInv
    <3> QED
      BY <3>1, <3>2, <3>3
  <2>w. WatchInv'
    <3>1. credits \subseteq watch
      BY DEF RecA, WatchInv
    <3>2. credits' \subseteq watch'
      BY <2>1, <3>1
    <3> QED
      BY <3>2 DEF WatchInv
  <2>k. KInv'
    <3> SUFFICES ASSUME NEW y \in Tx, Mined(y)', NEW c \in Inputs[y] \cap Mine, Maker[c] \in Tx
                 PROVE  /\ Exists(Maker[c])' => Mined(Maker[c])' /\ <<y, c>> \in undo'
                        /\ Maker[c] \in TxsOf(txs'[y]) => Mined(Maker[c])'
      BY DEF KInv, Mined, Exists
    <3>1. CASE y = t
      <4>1. conf /\ txs'[t] = b /\ Fed(t, b) /\ Maker[c] # t
        BY <2>2, <2>3, <2>8, <3>1 DEF conf
      <4>2. Exists(Maker[c]) \/ Maker[c] \in TxsOf(b) => Mined(Maker[c])
        BY <3>1, <4>1 DEF Fed
      <4>3. Exists(Maker[c]) => c \in credits
        <5>1. c \in Coin /\ c \in Inputs[t]
          BY <2>3, <3>1
        <5>2. \A z \in Tx : <<z, c>> \notin undo
          BY <2>7, <5>1
        <5> QED
          BY <5>1, <5>2 DEF RecA, CreditInv
      <4>4. Exists(Maker[c]) => <<t, c>> \in undo'
        BY <2>3, <2>5, <3>1, <4>3 DEF known
      <4> QED
        BY <2>2, <3>1, <4>1, <4>2, <4>4
    <3>2. CASE y # t
      <4>1. Mined(y) /\ txs'[y] = txs[y]
        BY <2>2, <3>2
      <4>2. Maker[c] # t
        BY <4>1 DEF Unclaimed
      <4>3. /\ Exists(Maker[c]) => Mined(Maker[c]) /\ <<y, c>> \in undo
            /\ Maker[c] \in TxsOf(txs[y]) => Mined(Maker[c])
        BY <4>1 DEF RecA, KInv
      <4> QED
        BY <2>1, <2>2, <4>1, <4>2, <4>3
    <3> QED
      BY <3>1, <3>2
  <2>o. OrderInv'
    <3>1. CASE ~conf
      <4>1. blocks' = blocks
        BY <2>1, <3>1
      <4> QED
        BY <4>1 DEF RecA, OrderInv
    <3>2. CASE conf
      <4>1. b \in Block /\ Height[b] \in Heights /\ blocks' = [blocks EXCEPT ![Height[b]] = Append(@, t)]
        BY <2>1, <3>2, HeightIn DEF AddedTo, conf
      <4> SUFFICES ASSUME NEW h \in Heights, NEW i \in 1..Len(blocks'[h]), NEW j \in 1..Len(blocks'[h]),
                          NEW c \in Inputs[blocks'[h][i]] \cap Mine, Maker[c] = blocks'[h][j]
                   PROVE  j < i
        BY DEF OrderInv
      <4>2. blocks \in [Heights -> Seq(Tx)]
        BY <1>0 DEF TxDBTypeOK
      <4>3. CASE h # Height[b]
        <5>1. blocks'[h] = blocks[h]
          BY <4>1, <4>2, <4>3
        <5> QED
          BY <5>1 DEF RecA, OrderInv
      <4>4. CASE h = Height[b]
        <5>1. blocks'[h] = Append(blocks[h], t) /\ blocks[h] \in Seq(Tx)
          BY <4>1, <4>2, <4>4
        <5> DEFINE r == blocks[h]
        <5> PICK n \in Nat : n = Len(r)
          BY <5>1
        <5>2. /\ Len(blocks'[h]) = n + 1 /\ blocks'[h][n + 1] = t
              /\ \A k \in 1..n : blocks'[h][k] = r[k] /\ r[k] \in Tx
          BY <5>1, Appended
        <5>3. CASE i = n + 1
          <6>1. j # n + 1
            <7>1. c \in Inputs[t] /\ c \in Mine
              BY <5>2, <5>3
            <7> QED
              BY <2>3, <2>8, <5>2, <5>3, <7>1
          <6> QED
            BY <5>2, <5>3, <6>1
        <5>4. CASE i # n + 1
          <6>1. i \in 1..n /\ blocks'[h][i] = r[i] /\ r[i] \in Tx
            BY <5>2, <5>4
          <6>2. Mined(r[i])
            BY <6>1 DEF Db, BlocksInv
          <6>3. j # n + 1
            BY <5>2, <6>1, <6>2 DEF Unclaimed
          <6>4. j \in 1..n /\ blocks'[h][j] = r[j]
            BY <5>2, <6>3
          <6> QED
            BY <6>1, <6>4 DEF RecA, OrderInv
        <5> QED
          BY <5>3, <5>4
      <4> QED
        BY <4>3, <4>4
    <3> QED
      BY <3>1, <3>2
  <2>b. Balance'
    <3>1. Cardinality(Held') = Cardinality(Held) + 1
      <4>1. Held \in SUBSET Tx /\ t \in Tx \ Held
        BY <2>2 DEF Held
      <4> QED
        BY <2>2, <4>1, TxFinite
    <3>2. Ours(t) \in SUBSET Coin /\ known \in SUBSET (credits \ flagged)
      BY <2>3, <2>10
    <3>3. credits' \ flagged' = ((credits \ flagged) \ known) \cup Ours(t)
      <4>1. Ours(t) \cap known = {} /\ Ours(t) \cap flagged = {}
        BY <2>3, <2>8
      <4>2. CASE conf
        BY <2>1, <4>1, <4>2
      <4>3. CASE ~conf
        BY <2>1, <4>1, <4>3
      <4> QED
        BY <4>2, <4>3
    <3>4. ((credits \ flagged) \ known) \cap Ours(t) = {}
      BY <2>8
    <3>5. Sure \subseteq credits /\ Sure \cap Ours(t) = {}
      BY <2>8 DEF Sure
    <3>6. Sure' = {c \in credits' : Mined(Maker[c])'}
      BY DEF Sure, Mined
    <3>7. \A c \in credits : Mined(Maker[c])' <=> Mined(Maker[c])
      BY <2>2, <2>6
    <3>8. \A c \in Ours(t) : Mined(Maker[c])' <=> conf
      BY <2>2, <2>3
    <3>9. CASE conf
      <4>1. known \subseteq Sure
        <5>1. Fed(t, b)
          BY <3>9 DEF conf
        <5>2. \A c \in known : c \in Inputs[t] /\ c \in Mine /\ Maker[c] \in Tx /\ Exists(Maker[c])
          BY <2>3, <2>6
        <5> QED
          BY <2>3, <5>1, <5>2 DEF Fed, Sure
      <4>2. Sure' = (Sure \ known) \cup Ours(t)
        <5>1. credits' = (credits \ known) \cup Ours(t)
          BY <2>1, <3>9
        <5> QED
          BY <3>6, <3>7, <3>8, <3>9, <5>1 DEF Sure
      <4>3. Balanced(1, Ours(t), known, Ours(t), known)
        BY <2>1, <3>9
      <4>4. (Sure \ known) \cap Ours(t) = {}
        BY <3>5
      <4>5. Balance
        BY DEF RecA
      <4> QED
        BY <1>0, <3>1, <3>2, <3>3, <3>4, <4>1, <4>2, <4>3, <4>4, <4>5, Booked
    <3>10. CASE ~conf
      <4>1. Sure' = (Sure \ {}) \cup {}
        <5>1. credits' = credits \cup Ours(t)
          BY <2>1, <3>10
        <5> QED
          BY <3>6, <3>7, <3>8, <3>10, <5>1 DEF Sure
      <4>2. Balanced(1, Ours(t), known, {}, {})
        BY <2>1, <3>10
      <4>3. Balance /\ (Sure \ {}) \cap {} = {} /\ {} \in SUBSET Sure /\ {} \in SUBSET Coin
        BY DEF RecA
      <4> QED
        BY <1>0, <3>1, <3>2, <3>3, <3>4, <4>1, <4>2, <4>3, Booked
    <3> QED
      BY <3>9, <3>10
  <2> QED
    BY <2>l, <2>c, <2>f, <2>m, <2>u, <2>p, <2>r, <2>w, <2>k, <2>o, <2>b DEF RecA
<1> QED
  BY <1>a, <1>b

LEMMA OrderAdded ==
  ASSUME Db, OrderInv, NEW t \in Tx, NEW b \in Block, AddedTo(b, t), Unclaimed(t), t \notin Parents(t)
  PROVE  OrderInv'
<1>1. b \in Block /\ Height[b] \in Heights /\ blocks' = [blocks EXCEPT ![Height[b]] = Append(@, t)]
  BY HeightIn DEF AddedTo
<1> SUFFICES ASSUME NEW h \in Heights, NEW i \in 1..Len(blocks'[h]), NEW j \in 1..Len(blocks'[h]),
                    NEW c \in Inputs[blocks'[h][i]] \cap Mine, Maker[c] = blocks'[h][j]
             PROVE  j < i
  BY DEF OrderInv
<1>2. blocks \in [Heights -> Seq(Tx)]
  BY DEF Db, TxDBTypeOK
<1>3. CASE h # Height[b]
  <2>1. blocks'[h] = blocks[h]
    BY <1>1, <1>2, <1>3
  <2> QED
    BY <2>1 DEF OrderInv
<1>4. CASE h = Height[b]
  <2>1. blocks'[h] = Append(blocks[h], t) /\ blocks[h] \in Seq(Tx)
    BY <1>1, <1>2, <1>4
  <2> DEFINE r == blocks[h]
  <2> PICK n \in Nat : n = Len(r)
    BY <2>1
  <2>2. /\ Len(blocks'[h]) = n + 1 /\ blocks'[h][n + 1] = t
        /\ \A k \in 1..n : blocks'[h][k] = r[k] /\ r[k] \in Tx
    BY <2>1, Appended
  <2>3. CASE i = n + 1
    <3>1. j # n + 1
      <4>1. c \in Inputs[t]
        BY <2>2, <2>3
      <4> QED
        BY <2>2, <2>3, <4>1 DEF Parents
    <3> QED
      BY <2>2, <2>3, <3>1
  <2>4. CASE i # n + 1
    <3>1. i \in 1..n /\ blocks'[h][i] = r[i] /\ r[i] \in Tx
      BY <2>2, <2>4
    <3>2. Mined(r[i])
      BY <3>1 DEF Db, BlocksInv
    <3>3. j # n + 1
      BY <2>2, <3>1, <3>2 DEF Unclaimed
    <3>4. j \in 1..n /\ blocks'[h][j] = r[j]
      BY <2>2, <3>3
    <3> QED
      BY <3>1, <3>4 DEF OrderInv
  <2> QED
    BY <2>3, <2>4
<1> QED
  BY <1>3, <1>4

\* A pending transaction is mined: what it spends is, and its spenders are not.
LEMMA ConfirmRec ==
  ASSUME Db, RecA, NEW t \in Tx, NEW b \in Block, txs[t] = Pending, Confirm(t, b),
         Unclaimed(t), Fed(t, b), OnLine(b)
  PROVE  RecA' /\ ConfirmHolds(t)
<1> DEFINE known == Undone(t) \cup Newly(t)
           fresh == Ours(t) \ credits
<1>0. TxDBTypeOK /\ Absent # Pending /\ Absent \notin Block /\ Pending \notin Block /\ NoTx \notin Tx
  BY TxDBAssumption DEF Db
<1>1. /\ txs' = [txs EXCEPT ![t] = b]
      /\ credits' = (credits \ known) \cup Ours(t)
      /\ flagged' = flagged \ known
      /\ mined' = (mined \ known) \cup Ours(t)
      /\ undo' = undo \cup Undos(t, Newly(t))
      /\ undoMined' = undoMined \cup Undos(t, Newly(t)) \cup SpentCoins(Ours(t) \cap flagged)
      /\ spent' = [c \in Coin |->
                     IF c \in Newly(t) THEN t
                     ELSE IF c \in Inputs[t] \ known THEN NoTx ELSE spent[c]]
      /\ watch' = (watch \ Inputs[t]) \cup Ours(t)
      /\ AddedTo(b, t)
      /\ Balanced(0, fresh, Newly(t), Ours(t), known)
  BY DEF Confirm
<1>2. /\ txs'[t] = b /\ \A x \in Tx \ {t} : txs'[x] = txs[x]
      /\ Mined(t)' /\ Exists(t)' /\ ~IsPending(t)'
      /\ \A x \in Tx \ {t} : /\ Mined(x)' <=> Mined(x)
                             /\ Exists(x)' <=> Exists(x)
                             /\ IsPending(x)' <=> IsPending(x)
      /\ Held' = Held
      /\ Exists(t) /\ ~Mined(t) /\ IsPending(t)
  <2>1. Exists(t) /\ ~Mined(t) /\ IsPending(t)
    BY <1>0 DEF Exists, Mined, IsPending
  <2>2. b \in {Absent, Pending} \cup Block /\ b # Absent /\ b # Pending
    BY <1>0
  <2>3. /\ txs'[t] = b /\ \A x \in Tx \ {t} : txs'[x] = txs[x]
        /\ Mined(t)' <=> b \in Block
        /\ Exists(t)' <=> b # Absent
        /\ IsPending(t)' <=> b = Pending
        /\ \A x \in Tx \ {t} : /\ Mined(x)' <=> Mined(x)
                               /\ Exists(x)' <=> Exists(x)
                               /\ IsPending(x)' <=> IsPending(x)
        /\ Held' = (Held \ {t}) \cup (IF b # Absent THEN {t} ELSE {})
    BY <1>0, <1>1, <2>2, OneState
  <2>4. Held' = Held
    BY <2>1, <2>2, <2>3 DEF Held
  <2> QED
    BY <2>1, <2>2, <2>3, <2>4
<1>3. /\ Ours(t) \subseteq Coin /\ Ours(t) \subseteq Mine /\ Mine \subseteq Coin
      /\ Inputs[t] \subseteq Coin /\ credits \subseteq Coin /\ credits \subseteq Mine
      /\ Undone(t) \subseteq Inputs[t] /\ Newly(t) \subseteq Inputs[t] \cap credits
      /\ \A c \in Coin : c \in Ours(t) <=> c \in Mine /\ Maker[c] = t
      /\ flagged \subseteq credits /\ undo \subseteq Tx \X Mine
      /\ \A c \in Inputs[t] : c \in Undone(t) <=> <<t, c>> \in undo
      /\ \A c \in Inputs[t] : c \in Newly(t) <=> <<t, c>> \notin undo /\ c \in credits
  BY <1>0, CoinSets DEF TxDBTypeOK, Undone, Newly
<1>4. /\ \A y \in Tx : Exists(y) <=> Mined(y) \/ IsPending(y)
      /\ \A y \in Tx : ~(Mined(y) /\ IsPending(y))
  BY <1>0, States
<1>5. \A c \in Inputs[t] : spent[c] = t /\ c \in watch
  BY <1>2 DEF RecA, PSpentInv
<1>6. \A y \in Tx, c \in Mine : <<y, c>> \in undo =>
        /\ Exists(y) /\ c \in Inputs[y] /\ spent[c] = y /\ Maker[c] \in Tx /\ Exists(Maker[c])
        /\ (c \in Inputs[t] => y = t) /\ (y = t => c \in Inputs[t])
  BY <1>5 DEF RecA, UndoInv
<1>7. \A y \in Tx, c \in Mine : <<y, c>> \in undo /\ Maker[c] = t => IsPending(y)
  BY <1>4, <1>6 DEF Unclaimed
<1>8. Ours(t) \subseteq credits
  BY <1>2, <1>3, <1>4, <1>7 DEF RecA, CreditInv
<1>9. known = Inputs[t] \cap credits
  <2>1. \A c \in Undone(t) : c \in credits
    <3> SUFFICES ASSUME NEW c \in Undone(t) PROVE c \in credits
      OBVIOUS
    <3>1. <<t, c>> \in undo /\ c \in Mine /\ c \in Coin
      BY <1>3
    <3>2. \A y \in Tx : <<y, c>> \in undo => y = t
      BY <1>3, <1>6, <3>1
    <3> QED
      BY <1>2, <1>6, <3>1, <3>2 DEF RecA, CreditInv
  <2> QED
    BY <1>3, <2>1
<1>10. \A c \in known : Maker[c] \in Tx \ {t} /\ Mined(Maker[c]) /\ c \in mined
  <2> SUFFICES ASSUME NEW c \in known PROVE Maker[c] \in Tx \ {t} /\ Mined(Maker[c]) /\ c \in mined
    OBVIOUS
  <2>1. c \in Inputs[t] /\ c \in Mine /\ c \in credits
    BY <1>3, <1>9
  <2>2. Maker[c] \in Tx /\ Exists(Maker[c])
    BY <1>3, <2>1 DEF RecA, CreditInv
  <2>3. Mined(Maker[c])
    BY <2>1, <2>2 DEF Fed
  <2> QED
    BY <1>2, <2>1, <2>2, <2>3 DEF RecA, MinedInv
<1>11. \A c \in Ours(t) : c \notin Inputs[t]
  BY <1>3, TxAssumption DEF Parents
<1>12. /\ Undone(t) \subseteq flagged /\ Newly(t) \cap flagged = {} /\ Undone(t) \cap Newly(t) = {}
  <2>1. Undone(t) \subseteq credits
    BY <1>9
  <2>2. Undone(t) \subseteq flagged
    BY <1>2, <1>3, <2>1 DEF RecA, FlagInv
  <2>3. \A c \in Newly(t) : c \notin flagged
    BY <1>3, <1>6 DEF RecA, FlagInv
  <2> QED
    BY <1>3, <2>2, <2>3
<1>13. \A y \in Tx, c \in Coin : <<y, c>> \in undo' <=> <<y, c>> \in undo \/ (y = t /\ c \in Newly(t))
  BY <1>1, <1>3 DEF Undos
<1>14. ConfirmHolds(t)
  <2>1. Newly(t) \subseteq mined
    BY <1>10
  <2>2. \A c \in Undone(t) : <<t, c>> \in undoMined
    BY <1>3, <1>10 DEF RecA, UndoInv
  <2> QED
    BY <2>1, <2>2 DEF ConfirmHolds, Undos
<1>15. credits' = credits \ known
  BY <1>1, <1>8, <1>9, <1>11
<1> HIDE DEF known, fresh
<1>l. LineInv'
  <2> SUFFICES ASSUME NEW x \in Tx, NEW y \in Tx, Mined(x)', Mined(y)'
               PROVE  txs'[x] \in Anc[txs'[y]] \/ txs'[y] \in Anc[txs'[x]]
    BY DEF LineInv, Mined
  <2>1. CASE x = t /\ y = t
    BY <1>2, <2>1, Lines
  <2>2. CASE x = t /\ y # t
    BY <1>2, <2>2 DEF OnLine
  <2>3. CASE x # t /\ y = t
    BY <1>2, <2>3 DEF OnLine
  <2>4. CASE x # t /\ y # t
    BY <1>2, <2>4 DEF RecA, LineInv
  <2> QED
    BY <2>1, <2>2, <2>3, <2>4
<1>c. CreditInv'
  <2> SUFFICES ASSUME NEW c \in Coin
               PROVE  c \in credits' <=>
                        /\ c \in Mine /\ Maker[c] \in Tx /\ Exists(Maker[c])'
                        /\ \A y \in Tx : Mined(y)' => <<y, c>> \notin undo'
    BY DEF CreditInv, Exists, Mined
  <2>0. c \in credits <=> /\ c \in Mine /\ Maker[c] \in Tx /\ Exists(Maker[c])
                          /\ \A y \in Tx : Mined(y) => <<y, c>> \notin undo
    BY DEF RecA, CreditInv
  <2>1. CASE c \in known
    <3>1. <<t, c>> \in undo'
      BY <1>3, <1>13, <2>1 DEF known
    <3> QED
      BY <1>2, <1>15, <2>1, <3>1
  <2>2. CASE c \notin known
    <3>1. c \in Mine => \A y \in Tx : <<y, c>> \in undo' <=> <<y, c>> \in undo
      BY <1>13, <2>2 DEF known
    <3>2. c \in Mine => <<t, c>> \notin undo
      BY <1>3, <1>6, <2>2 DEF known
    <3>3. Maker[c] \in Tx => (Exists(Maker[c])' <=> Exists(Maker[c]))
      BY <1>2
    <3> QED
      BY <1>2, <1>15, <2>0, <2>2, <3>1, <3>2, <3>3
  <2> QED
    BY <2>1, <2>2
<1>f. FlagInv'
  <2> SUFFICES ASSUME NEW c \in Coin
               PROVE  c \in flagged' <=> c \in credits' /\ \E y \in Tx : IsPending(y)' /\ <<y, c>> \in undo'
    BY DEF FlagInv, IsPending
  <2>0. c \in flagged <=> c \in credits /\ \E y \in Tx : IsPending(y) /\ <<y, c>> \in undo
    BY DEF RecA, FlagInv
  <2>1. CASE c \in known
    BY <1>1, <1>15, <2>1
  <2>2. CASE c \notin known
    <3>1. c \in credits => \A y \in Tx : <<y, c>> \in undo' <=> <<y, c>> \in undo
      BY <1>13, <2>2 DEF known
    <3>2. c \in credits => <<t, c>> \notin undo
      BY <1>3, <1>6, <2>2 DEF known
    <3> QED
      BY <1>1, <1>2, <1>15, <2>0, <2>2, <3>1, <3>2
  <2> QED
    BY <2>1, <2>2
<1>m. MinedInv'
  <2> SUFFICES ASSUME NEW c \in credits', Mined(Maker[c])' PROVE c \in mined'
    BY DEF MinedInv, Mined
  <2>1. c \in credits /\ c \notin known
    BY <1>15
  <2>2. CASE c \in Ours(t)
    BY <1>1, <2>2
  <2>3. CASE c \notin Ours(t)
    <3>1. Maker[c] \in Tx /\ Maker[c] # t
      BY <1>3, <2>1, <2>3 DEF RecA, CreditInv
    <3>2. c \in mined
      BY <1>2, <2>1, <3>1 DEF RecA, MinedInv
    <3> QED
      BY <1>1, <2>1, <3>2
  <2> QED
    BY <2>2, <2>3
<1>u. UndoInv'
  <2> SUFFICES ASSUME NEW y \in Tx, NEW c \in Mine, <<y, c>> \in undo'
               PROVE  /\ Exists(y)' /\ c \in Inputs[y] /\ spent'[c] = y
                      /\ Maker[c] \in Tx /\ Exists(Maker[c])'
                      /\ Mined(Maker[c])' => <<y, c>> \in undoMined'
    BY DEF UndoInv, Mined, Exists
  <2>0. c \in Coin
    BY <1>3
  <2>1. CASE <<y, c>> \in undo
    <3>1. /\ Exists(y) /\ c \in Inputs[y] /\ spent[c] = y /\ Maker[c] \in Tx /\ Exists(Maker[c])
          /\ (c \in Inputs[t] => y = t) /\ (y = t => c \in Inputs[t])
      BY <1>6, <2>1
    <3>2. Mined(Maker[c]) => <<y, c>> \in undoMined
      BY <2>1 DEF RecA, UndoInv
    <3>3. spent'[c] = y
      <4>1. c \notin Newly(t)
        BY <1>3, <2>1, <3>1
      <4>2. c \notin Inputs[t] \ known
        BY <1>3, <2>1, <3>1 DEF known
      <4> QED
        BY <1>1, <2>0, <3>1, <4>1, <4>2
    <3>4. Maker[c] = t => <<y, c>> \in undoMined'
      <4> SUFFICES ASSUME Maker[c] = t PROVE <<y, c>> \in undoMined'
        OBVIOUS
      <4>1. IsPending(y) /\ c \in Ours(t)
        BY <1>3, <1>7, <2>0, <2>1
      <4>2. c \in flagged
        BY <1>8, <2>0, <2>1, <4>1 DEF RecA, FlagInv
      <4>3. <<y, c>> \in SpentCoins(Ours(t) \cap flagged)
        BY <2>1, <3>1, <4>1, <4>2 DEF SpentCoins
      <4> QED
        BY <1>1, <4>3
    <3>5. Mined(Maker[c])' => <<y, c>> \in undoMined'
      BY <1>1, <1>2, <3>1, <3>2, <3>4
    <3>6. Exists(y)' /\ Exists(Maker[c])'
      BY <1>2, <3>1
    <3> QED
      BY <3>1, <3>3, <3>5, <3>6
  <2>2. CASE <<y, c>> \notin undo
    <3>1. y = t /\ c \in Newly(t) /\ c \in known
      BY <1>13, <2>0, <2>2 DEF known
    <3>2. Maker[c] \in Tx \ {t} /\ Mined(Maker[c]) /\ c \in Inputs[t]
      BY <1>3, <1>10, <3>1
    <3>3. spent'[c] = t
      BY <1>1, <2>0, <3>1
    <3>4. <<t, c>> \in undoMined'
      BY <1>1, <3>1 DEF Undos
    <3> QED
      BY <1>2, <1>4, <3>1, <3>2, <3>3, <3>4
  <2> QED
    BY <2>1, <2>2
<1>p. PSpentInv'
  <2> SUFFICES ASSUME NEW y \in Tx, IsPending(y)', NEW c \in Inputs[y]
               PROVE  spent'[c] = y /\ c \in watch'
    BY DEF PSpentInv, IsPending
  <2>1. c \in Coin /\ y # t /\ IsPending(y)
    BY <1>2, TxTypes
  <2>2. spent[c] = y /\ c \in watch
    BY <2>1 DEF RecA, PSpentInv
  <2>3. c \notin Inputs[t]
    BY <1>5, <2>1, <2>2
  <2> QED
    BY <1>1, <1>3, <2>1, <2>2, <2>3
<1>r. RivalInv'
  <2>1. \A x \in Tx : Exists(x)' <=> Exists(x)
    BY <1>2
  <2> QED
    BY <2>1 DEF RecA, RivalInv, Exists
<1>w. WatchInv'
  <2>1. credits \subseteq watch
    BY DEF RecA, WatchInv
  <2>2. credits' \subseteq watch'
    BY <1>1, <1>9, <1>15, <2>1
  <2> QED
    BY <2>2 DEF WatchInv
<1>k. KInv'
  <2> SUFFICES ASSUME NEW y \in Tx, Mined(y)', NEW c \in Inputs[y] \cap Mine, Maker[c] \in Tx
               PROVE  /\ Exists(Maker[c])' => Mined(Maker[c])' /\ <<y, c>> \in undo'
                      /\ Maker[c] \in TxsOf(txs'[y]) => Mined(Maker[c])'
    BY DEF KInv, Mined, Exists
  <2>1. CASE y = t
    <3>1. txs'[y] = b /\ Maker[c] # t
      BY <1>2, <1>3, <1>11, <2>1
    <3>2. Exists(Maker[c]) \/ Maker[c] \in TxsOf(b) => Mined(Maker[c])
      BY <2>1 DEF Fed
    <3>3. Exists(Maker[c]) => c \in credits
      <4>1. c \in Coin /\ c \in Inputs[t]
        BY <1>3, <2>1
      <4>2. \A z \in Tx : Mined(z) => <<z, c>> \notin undo
        BY <1>2, <1>6, <4>1
      <4> QED
        BY <4>1, <4>2 DEF RecA, CreditInv
    <3>4. Exists(Maker[c]) => <<t, c>> \in undo'
      BY <1>3, <1>13, <2>1, <3>3
    <3> QED
      BY <1>2, <2>1, <3>1, <3>2, <3>4
  <2>2. CASE y # t
    <3>1. Mined(y) /\ txs'[y] = txs[y]
      BY <1>2, <2>2
    <3>2. Maker[c] # t
      BY <3>1 DEF Unclaimed
    <3>3. /\ Exists(Maker[c]) => Mined(Maker[c]) /\ <<y, c>> \in undo
          /\ Maker[c] \in TxsOf(txs[y]) => Mined(Maker[c])
      BY <3>1 DEF RecA, KInv
    <3> QED
      BY <1>1, <1>2, <3>1, <3>2, <3>3
  <2> QED
    BY <2>1, <2>2
<1>o. OrderInv'
  <2>1. t \notin Parents(t) /\ OrderInv /\ AddedTo(b, t)
    BY <1>1, TxAssumption DEF RecA
  <2> QED
    BY <2>1, OrderAdded
<1>b. Balance'
  <2>1. Cardinality(Held') = Cardinality(Held) + 0
    <3>1. Cardinality(Held) \in Nat
      BY TxFinite DEF Held
    <3> QED
      BY <1>2, <3>1
  <2>2. fresh = {}
    BY <1>8 DEF fresh
  <2>3. Newly(t) \in SUBSET (credits \ flagged) /\ Ours(t) \in SUBSET Coin
    BY <1>3, <1>12
  <2>4. credits' \ flagged' = ((credits \ flagged) \ Newly(t)) \cup {}
    BY <1>1, <1>12, <1>15 DEF known
  <2>5. known \subseteq Sure
    BY <1>9, <1>10 DEF Sure
  <2>6. Sure' = {c \in credits' : Mined(Maker[c])'}
    BY DEF Sure, Mined
  <2>7. \A c \in credits : Mined(Maker[c])' <=> (Mined(Maker[c]) \/ c \in Ours(t))
    <3>1. \A c \in credits : Maker[c] \in Tx /\ c \in Coin
      BY <1>3 DEF RecA, CreditInv
    <3> QED
      BY <1>2, <1>3, <3>1
  <2>8. Sure' = (Sure \ known) \cup Ours(t)
    <3>1. Ours(t) \cap known = {}
      BY <1>9, <1>11
    <3> QED
      BY <1>8, <1>15, <2>6, <2>7, <3>1 DEF Sure
  <2>9. (Sure \ known) \cap Ours(t) = {}
    BY <1>2, <1>3 DEF Sure
  <2>10. Balanced(0, {}, Newly(t), Ours(t), known)
    BY <1>1, <2>2
  <2>11. Balance /\ ((credits \ flagged) \ Newly(t)) \cap {} = {} /\ {} \in SUBSET Coin
    BY DEF RecA
  <2> QED
    BY <1>0, <2>1, <2>3, <2>4, <2>5, <2>8, <2>9, <2>10, <2>11, Booked
<1> QED
  BY <1>14, <1>l, <1>c, <1>f, <1>m, <1>u, <1>p, <1>r, <1>w, <1>k, <1>o, <1>b DEF RecA

\* A pending transaction without spenders leaves.
LEMMA EraseRec ==
  ASSUME Db, RecA, NEW t \in Tx, txs[t] = Pending, Newly(t) = {}, Erase(t),
         \A c \in Outputs(t) : spent[c] = NoTx
  PROVE  RecA' /\ blocks' = blocks /\ mapped' = mapped
<1> DEFINE known == Undone(t)
           foreign == Inputs[t] \ known
<1>0. TxDBTypeOK /\ Absent # Pending /\ Absent \notin Block /\ Pending \notin Block /\ NoTx \notin Tx
  BY TxDBAssumption DEF Db
<1>1. /\ txs' = [txs EXCEPT ![t] = Absent]
      /\ credits' = (credits \cup known) \ Ours(t)
      /\ flagged' = flagged \ (known \cup Ours(t))
      /\ mined' = ((mined \ known) \cup {c \in known : <<t, c>> \in undoMined}) \ Ours(t)
      /\ undo' = undo \ Undos(t, known)
      /\ undoMined' = undoMined \ Undos(t, known)
      /\ spent' = [c \in Coin |-> IF c \in known \/ c \in foreign THEN NoTx ELSE spent[c]]
      /\ watch' = ((watch \ foreign) \cup known) \ Ours(t)
      /\ blocks' = blocks /\ mapped' = mapped
      /\ Balanced(-1, known, Ours(t), {}, {})
  BY DEF Erase
<1>2. /\ \A x \in Tx \ {t} : txs'[x] = txs[x]
      /\ ~Mined(t)' /\ ~Exists(t)' /\ ~IsPending(t)'
      /\ \A x \in Tx \ {t} : /\ Mined(x)' <=> Mined(x)
                             /\ Exists(x)' <=> Exists(x)
                             /\ IsPending(x)' <=> IsPending(x)
      /\ Held' = Held \ {t}
      /\ Exists(t) /\ ~Mined(t) /\ IsPending(t)
  <2>1. Exists(t) /\ ~Mined(t) /\ IsPending(t)
    BY <1>0 DEF Exists, Mined, IsPending
  <2>2. Absent \in {Absent, Pending} \cup Block
    OBVIOUS
  <2>3. /\ txs'[t] = Absent /\ \A x \in Tx \ {t} : txs'[x] = txs[x]
        /\ Mined(t)' <=> Absent \in Block
        /\ Exists(t)' <=> Absent # Absent
        /\ IsPending(t)' <=> Absent = Pending
        /\ \A x \in Tx \ {t} : /\ Mined(x)' <=> Mined(x)
                               /\ Exists(x)' <=> Exists(x)
                               /\ IsPending(x)' <=> IsPending(x)
        /\ Held' = (Held \ {t}) \cup (IF Absent # Absent THEN {t} ELSE {})
    BY <1>0, <1>1, <2>2, OneState
  <2> QED
    BY <1>0, <2>1, <2>3
<1>3. /\ Ours(t) \subseteq Coin /\ Ours(t) \subseteq Mine /\ Mine \subseteq Coin
      /\ Inputs[t] \subseteq Coin /\ credits \subseteq Coin /\ credits \subseteq Mine
      /\ known \subseteq Inputs[t]
      /\ \A c \in Coin : c \in Ours(t) <=> c \in Mine /\ Maker[c] = t
      /\ \A c \in Ours(t) : spent[c] = NoTx
      /\ flagged \subseteq credits /\ undo \subseteq Tx \X Mine
      /\ \A c \in Inputs[t] : c \in known <=> <<t, c>> \in undo
      /\ \A c \in Inputs[t] \cap credits : c \in known
  BY <1>0, CoinSets DEF TxDBTypeOK, Undone, Newly, Ours
<1>5. \A c \in Inputs[t] : spent[c] = t /\ c \in watch
  BY <1>2 DEF RecA, PSpentInv
<1>6. \A y \in Tx, c \in Mine : <<y, c>> \in undo =>
        /\ Exists(y) /\ c \in Inputs[y] /\ spent[c] = y /\ Maker[c] \in Tx \ {t} /\ Exists(Maker[c])
        /\ c \notin Ours(t) /\ (c \in Inputs[t] <=> y = t)
  BY <1>0, <1>3, <1>5 DEF RecA, UndoInv
<1>8. /\ Ours(t) \subseteq credits /\ Ours(t) \cap flagged = {}
  <2>1. Ours(t) \subseteq credits
    BY <1>2, <1>3, <1>6 DEF RecA, CreditInv
  <2>2. \A c \in Ours(t) : c \notin flagged
    BY <1>3, <1>6 DEF RecA, FlagInv
  <2> QED
    BY <2>1, <2>2
<1>9. known \subseteq flagged
  <2> SUFFICES ASSUME NEW c \in known PROVE c \in flagged
    OBVIOUS
  <2>1. <<t, c>> \in undo /\ c \in Mine /\ c \in Coin
    BY <1>3
  <2>2. \A y \in Tx : <<y, c>> \in undo => y = t
    BY <1>3, <1>6, <2>1
  <2>3. c \in credits
    BY <1>2, <1>6, <2>1, <2>2 DEF RecA, CreditInv
  <2> QED
    BY <1>2, <2>1, <2>3 DEF RecA, FlagInv
<1>10. credits' = credits \ Ours(t) /\ known \cap Ours(t) = {}
  BY <1>1, <1>3, <1>6, <1>9
<1>13. \A y \in Tx, c \in Mine : <<y, c>> \in undo' <=> <<y, c>> \in undo /\ y # t
  BY <1>1, <1>3, <1>6 DEF Undos
<1> HIDE DEF known, foreign
<1>l. LineInv'
  BY <1>2 DEF RecA, LineInv, Mined
<1>c. CreditInv'
  <2> SUFFICES ASSUME NEW c \in Coin
               PROVE  c \in credits' <=>
                        /\ c \in Mine /\ Maker[c] \in Tx /\ Exists(Maker[c])'
                        /\ \A y \in Tx : Mined(y)' => <<y, c>> \notin undo'
    BY DEF CreditInv, Exists, Mined
  <2>0. c \in credits <=> /\ c \in Mine /\ Maker[c] \in Tx /\ Exists(Maker[c])
                          /\ \A y \in Tx : Mined(y) => <<y, c>> \notin undo
    BY DEF RecA, CreditInv
  <2>1. c \in Mine => ((\A y \in Tx : Mined(y)' => <<y, c>> \notin undo') <=>
                         \A y \in Tx : Mined(y) => <<y, c>> \notin undo)
    BY <1>2, <1>13
  <2>2. c \in Mine /\ Maker[c] \in Tx => (Exists(Maker[c])' <=> Exists(Maker[c]) /\ c \notin Ours(t))
    BY <1>2, <1>3
  <2> QED
    BY <1>10, <2>0, <2>1, <2>2
<1>f. FlagInv'
  <2> SUFFICES ASSUME NEW c \in Coin
               PROVE  c \in flagged' <=> c \in credits' /\ \E y \in Tx : IsPending(y)' /\ <<y, c>> \in undo'
    BY DEF FlagInv, IsPending
  <2>0. c \in flagged <=> c \in credits /\ \E y \in Tx : IsPending(y) /\ <<y, c>> \in undo
    BY DEF RecA, FlagInv
  <2>1. CASE c \in known
    <3>1. c \in Mine /\ c \in Inputs[t]
      BY <1>3, <1>9, <2>1
    <3>2. \A y \in Tx : <<y, c>> \notin undo'
      BY <1>6, <1>13, <3>1
    <3> QED
      BY <1>1, <2>1, <3>2
  <2>2. CASE c \notin known
    <3>1. c \in Mine => <<t, c>> \notin undo
      BY <1>3, <1>6, <2>2
    <3>2. c \in Mine => ((\E y \in Tx : IsPending(y)' /\ <<y, c>> \in undo') <=>
                          \E y \in Tx : IsPending(y) /\ <<y, c>> \in undo)
      BY <1>2, <1>13, <3>1
    <3>3. c \in flagged' <=> c \in flagged /\ c \notin Ours(t)
      BY <1>1, <2>2
    <3>4. c \in credits => c \in Mine
      BY <1>3
    <3> QED
      BY <1>10, <2>0, <3>2, <3>3, <3>4
  <2> QED
    BY <2>1, <2>2
<1>m. MinedInv'
  <2> SUFFICES ASSUME NEW c \in credits', Mined(Maker[c])' PROVE c \in mined'
    BY DEF MinedInv, Mined
  <2>1. c \in credits /\ c \notin Ours(t) /\ c \in Mine /\ c \in Coin
    BY <1>3, <1>10
  <2>2. Maker[c] \in Tx \ {t}
    BY <1>3, <2>1 DEF RecA, CreditInv
  <2>3. Mined(Maker[c]) /\ c \in mined
    BY <1>2, <2>1, <2>2 DEF RecA, MinedInv
  <2>4. c \in known => <<t, c>> \in undoMined
    BY <1>3, <2>1, <2>3 DEF RecA, UndoInv
  <2> QED
    BY <1>1, <2>1, <2>3, <2>4
<1>u. UndoInv'
  <2> SUFFICES ASSUME NEW y \in Tx, NEW c \in Mine, <<y, c>> \in undo'
               PROVE  /\ Exists(y)' /\ c \in Inputs[y] /\ spent'[c] = y
                      /\ Maker[c] \in Tx /\ Exists(Maker[c])'
                      /\ Mined(Maker[c])' => <<y, c>> \in undoMined'
    BY DEF UndoInv, Mined, Exists
  <2>1. <<y, c>> \in undo /\ y # t /\ c \in Coin
    BY <1>3, <1>13
  <2>2. /\ Exists(y) /\ c \in Inputs[y] /\ spent[c] = y /\ Maker[c] \in Tx \ {t} /\ Exists(Maker[c])
        /\ c \notin Inputs[t]
    BY <1>6, <2>1
  <2>3. Mined(Maker[c]) => <<y, c>> \in undoMined
    BY <2>1 DEF RecA, UndoInv
  <2>4. spent'[c] = y
    BY <1>1, <1>3, <2>1, <2>2 DEF foreign
  <2>5. <<y, c>> \in undoMined => <<y, c>> \in undoMined'
    BY <1>1, <2>1 DEF Undos
  <2> QED
    BY <1>2, <2>1, <2>2, <2>3, <2>4, <2>5
<1>p. PSpentInv'
  <2> SUFFICES ASSUME NEW y \in Tx, IsPending(y)', NEW c \in Inputs[y]
               PROVE  spent'[c] = y /\ c \in watch'
    BY DEF PSpentInv, IsPending
  <2>1. c \in Coin /\ y # t /\ IsPending(y)
    BY <1>2, TxTypes
  <2>2. spent[c] = y /\ c \in watch
    BY <2>1 DEF RecA, PSpentInv
  <2>3. c \notin Inputs[t] /\ c \notin Ours(t)
    BY <1>0, <1>3, <1>5, <2>1, <2>2
  <2> QED
    BY <1>1, <1>3, <2>1, <2>2, <2>3 DEF foreign
<1>r. RivalInv'
  <2>1. \A x \in Tx : Exists(x)' => Exists(x)
    BY <1>2
  <2> QED
    BY <2>1 DEF RecA, RivalInv, Exists
<1>w. WatchInv'
  <2>1. credits \subseteq watch
    BY DEF RecA, WatchInv
  <2>2. credits' \subseteq watch'
    BY <1>1, <1>3, <1>10, <2>1 DEF foreign
  <2> QED
    BY <2>2 DEF WatchInv
<1>k. KInv'
  <2> SUFFICES ASSUME NEW y \in Tx, Mined(y)', NEW c \in Inputs[y] \cap Mine, Maker[c] \in Tx
               PROVE  /\ Exists(Maker[c])' => Mined(Maker[c])' /\ <<y, c>> \in undo'
                      /\ Maker[c] \in TxsOf(txs'[y]) => Mined(Maker[c])'
    BY DEF KInv, Mined, Exists
  <2>1. y # t /\ Mined(y) /\ txs'[y] = txs[y]
    BY <1>2
  <2>2. /\ Exists(Maker[c]) => Mined(Maker[c]) /\ <<y, c>> \in undo
        /\ Maker[c] \in TxsOf(txs[y]) => Mined(Maker[c])
    BY <2>1 DEF RecA, KInv
  <2>3. Mined(Maker[c]) => Maker[c] # t
    BY <1>2
  <2> QED
    BY <1>2, <1>13, <2>1, <2>2, <2>3
<1>o. OrderInv'
  <2>1. blocks' = blocks
    BY <1>1
  <2> QED
    BY <2>1 DEF RecA, OrderInv
<1>b. Balance'
  <2>1. Cardinality(Held') = Cardinality(Held) + -1
    <3>1. Held \in SUBSET Tx /\ t \in Held
      BY <1>2 DEF Held
    <3>2. Cardinality(Held \ {t}) = Cardinality(Held) - 1 /\ Cardinality(Held) \in Nat
      BY <3>1, TxFinite
    <3> QED
      BY <1>2, <3>2
  <2>2. Ours(t) \in SUBSET (credits \ flagged) /\ known \in SUBSET Coin
    BY <1>3, <1>8
  <2>3. credits' \ flagged' = ((credits \ flagged) \ Ours(t)) \cup known
    BY <1>1, <1>3, <1>9, <1>10
  <2>4. ((credits \ flagged) \ Ours(t)) \cap known = {}
    BY <1>9
  <2>5. Sure' = {c \in credits' : Mined(Maker[c])'}
    BY DEF Sure, Mined
  <2>6. \A c \in credits : Mined(Maker[c])' <=> Mined(Maker[c])
    <3>1. \A c \in credits : Maker[c] \in Tx
      BY <1>3 DEF RecA, CreditInv
    <3> QED
      BY <1>2, <3>1
  <2>7. \A c \in Ours(t) : ~Mined(Maker[c])
    BY <1>2, <1>3
  <2>8. Sure' = (Sure \ {}) \cup {}
    BY <1>10, <2>5, <2>6, <2>7 DEF Sure
  <2>9. Balanced(-1, known, Ours(t), {}, {})
    BY <1>1
  <2>10. Balance /\ (Sure \ {}) \cap {} = {} /\ {} \in SUBSET Coin /\ {} \in SUBSET Sure /\ -1 \in Int
    BY DEF RecA
  <2> QED
    BY <1>0, <2>1, <2>2, <2>3, <2>4, <2>8, <2>9, <2>10, Booked
<1> QED
  BY <1>1, <1>l, <1>c, <1>f, <1>m, <1>u, <1>p, <1>r, <1>w, <1>k, <1>o, <1>b DEF RecA

\* A mined transaction that no mined one spends is pending again.
LEMMA DisconnectRec ==
  ASSUME Db, RecA, NEW t \in Tx, Mined(t), Disconnect(t), Unclaimed(t)
  PROVE  RecA' /\ Undos(t, Undone(t)) \subseteq undoMined
<1> DEFINE known == Undone(t)
           h == Height[txs[t]]
           made == Ours(t) \cap credits
<1>0. TxDBTypeOK /\ Absent # Pending /\ Absent \notin Block /\ Pending \notin Block /\ NoTx \notin Tx
  BY TxDBAssumption DEF Db
<1>1. /\ txs' = [txs EXCEPT ![t] = Pending]
      /\ credits' = credits \cup known
      /\ flagged' = flagged \cup known
      /\ mined' = (mined \cup known) \ made
      /\ undo' = undo
      /\ undoMined' = undoMined \cup SpentCoins((Ours(t) \ credits) \cup (made \cap flagged))
      /\ spent' = [c \in Coin |-> IF c \in Inputs[t] \ known THEN t ELSE spent[c]]
      /\ watch' = watch \cup Inputs[t] \cup made
      /\ blocks' = [blocks EXCEPT ![h] = IF @ = <<>> THEN @ ELSE Front(@)]
      /\ Balanced(0, {}, {}, known, made)
  BY DEF Disconnect
<1>2. /\ \A x \in Tx \ {t} : txs'[x] = txs[x]
      /\ ~Mined(t)' /\ Exists(t)' /\ IsPending(t)'
      /\ \A x \in Tx \ {t} : /\ Mined(x)' <=> Mined(x)
                             /\ Exists(x)' <=> Exists(x)
                             /\ IsPending(x)' <=> IsPending(x)
      /\ Held' = Held
      /\ Exists(t) /\ ~IsPending(t)
  <2>1. Exists(t) /\ ~IsPending(t)
    BY <1>0 DEF Exists, Mined, IsPending
  <2>2. Pending \in {Absent, Pending} \cup Block
    OBVIOUS
  <2>3. /\ txs'[t] = Pending /\ \A x \in Tx \ {t} : txs'[x] = txs[x]
        /\ Mined(t)' <=> Pending \in Block
        /\ Exists(t)' <=> Pending # Absent
        /\ IsPending(t)' <=> Pending = Pending
        /\ \A x \in Tx \ {t} : /\ Mined(x)' <=> Mined(x)
                               /\ Exists(x)' <=> Exists(x)
                               /\ IsPending(x)' <=> IsPending(x)
        /\ Held' = (Held \ {t}) \cup (IF Pending # Absent THEN {t} ELSE {})
    BY <1>0, <1>1, <2>2, OneState
  <2>4. Held' = Held
    BY <1>0, <2>1, <2>3 DEF Held
  <2> QED
    BY <1>0, <2>1, <2>3, <2>4
<1>3. /\ Ours(t) \subseteq Coin /\ Ours(t) \subseteq Mine /\ Mine \subseteq Coin
      /\ Inputs[t] \subseteq Coin /\ credits \subseteq Coin /\ credits \subseteq Mine
      /\ known \subseteq Inputs[t] /\ known \subseteq Mine
      /\ \A c \in Coin : c \in Ours(t) <=> c \in Mine /\ Maker[c] = t
      /\ flagged \subseteq credits /\ undo \subseteq Tx \X Mine
      /\ \A c \in Inputs[t] : c \in known <=> <<t, c>> \in undo
  BY <1>0, CoinSets DEF TxDBTypeOK, Undone
<1>5. \A y \in Tx : Exists(y) /\ y # t => Inputs[y] \cap Inputs[t] = {}
  BY <1>2 DEF RecA, RivalInv
<1>6. \A y \in Tx, c \in Mine : <<y, c>> \in undo =>
        /\ Exists(y) /\ c \in Inputs[y] /\ spent[c] = y /\ Maker[c] \in Tx /\ Exists(Maker[c])
        /\ (c \in Inputs[t] <=> y = t)
        /\ Mined(Maker[c]) => <<y, c>> \in undoMined
  BY <1>5 DEF RecA, UndoInv
<1>8. Ours(t) \subseteq credits
  BY <1>2, <1>3, <1>6 DEF RecA, CreditInv, Unclaimed
<1>9. \A c \in known : /\ Maker[c] \in Tx \ {t} /\ Mined(Maker[c]) /\ c \notin credits
                       /\ <<t, c>> \in undoMined /\ c \notin Ours(t)
  <2> SUFFICES ASSUME NEW c \in known
               PROVE  /\ Maker[c] \in Tx \ {t} /\ Mined(Maker[c]) /\ c \notin credits
                      /\ <<t, c>> \in undoMined /\ c \notin Ours(t)
    OBVIOUS
  <2>1. c \in Inputs[t] /\ c \in Mine /\ <<t, c>> \in undo /\ c \in Coin
    BY <1>3
  <2>2. Maker[c] \in Tx /\ Mined(Maker[c])
    BY <1>6, <2>1 DEF RecA, KInv
  <2>3. Maker[c] # t
    BY <2>1, TxAssumption DEF Parents
  <2>4. c \notin credits
    BY <2>1 DEF RecA, CreditInv
  <2> QED
    BY <1>3, <1>6, <2>1, <2>2, <2>3, <2>4
<1>10. made = Ours(t)
  BY <1>8
<1> HIDE DEF known, made, h
<1>l. LineInv'
  BY <1>2 DEF RecA, LineInv, Mined
<1>c. CreditInv'
  <2> SUFFICES ASSUME NEW c \in Coin
               PROVE  c \in credits' <=>
                        /\ c \in Mine /\ Maker[c] \in Tx /\ Exists(Maker[c])'
                        /\ \A y \in Tx : Mined(y)' => <<y, c>> \notin undo'
    BY DEF CreditInv, Exists, Mined
  <2>0. c \in credits <=> /\ c \in Mine /\ Maker[c] \in Tx /\ Exists(Maker[c])
                          /\ \A y \in Tx : Mined(y) => <<y, c>> \notin undo
    BY DEF RecA, CreditInv
  <2>1. Maker[c] \in Tx => (Exists(Maker[c])' <=> Exists(Maker[c]))
    BY <1>2
  <2>2. CASE c \in known
    <3>1. \A y \in Tx : <<y, c>> \in undo' => y = t
      BY <1>1, <1>3, <1>6, <2>2
    <3>2. c \in Mine /\ Maker[c] \in Tx /\ Exists(Maker[c])'
      BY <1>3, <1>6, <2>1, <2>2
    <3> QED
      BY <1>1, <1>2, <2>2, <3>1, <3>2
  <2>3. CASE c \notin known
    <3>1. c \in Mine => <<t, c>> \notin undo
      BY <1>3, <1>6, <2>3
    <3>2. c \in Mine => ((\A y \in Tx : Mined(y)' => <<y, c>> \notin undo') <=>
                         \A y \in Tx : Mined(y) => <<y, c>> \notin undo)
      BY <1>1, <1>2, <3>1
    <3> QED
      BY <1>1, <2>0, <2>1, <2>3, <3>2
  <2> QED
    BY <2>2, <2>3
<1>f. FlagInv'
  <2> SUFFICES ASSUME NEW c \in Coin
               PROVE  c \in flagged' <=> c \in credits' /\ \E y \in Tx : IsPending(y)' /\ <<y, c>> \in undo'
    BY DEF FlagInv, IsPending
  <2>0. c \in flagged <=> c \in credits /\ \E y \in Tx : IsPending(y) /\ <<y, c>> \in undo
    BY DEF RecA, FlagInv
  <2>1. CASE c \in known
    <3>1. <<t, c>> \in undo'
      BY <1>1, <1>3, <2>1
    <3> QED
      BY <1>1, <1>2, <2>1, <3>1
  <2>2. CASE c \notin known
    <3>1. c \in Mine => <<t, c>> \notin undo
      BY <1>3, <1>6, <2>2
    <3>2. c \in Mine => ((\E y \in Tx : IsPending(y)' /\ <<y, c>> \in undo') <=>
                          \E y \in Tx : IsPending(y) /\ <<y, c>> \in undo)
      BY <1>1, <1>2, <3>1
    <3> QED
      BY <1>1, <1>3, <2>0, <2>2, <3>2
  <2> QED
    BY <2>1, <2>2
<1>m. MinedInv'
  <2> SUFFICES ASSUME NEW c \in credits', Mined(Maker[c])' PROVE c \in mined'
    BY DEF MinedInv, Mined
  <2>1. CASE c \in known
    BY <1>1, <1>9, <1>10, <2>1
  <2>2. CASE c \notin known
    <3>1. c \in credits /\ c \in Coin /\ c \in Mine
      BY <1>1, <1>3, <2>2
    <3>2. Maker[c] \in Tx
      BY <3>1 DEF RecA, CreditInv
    <3>3. Maker[c] # t /\ Mined(Maker[c])
      BY <1>2, <3>2
    <3>4. c \notin Ours(t)
      BY <1>3, <3>1, <3>3
    <3> QED
      BY <1>1, <1>10, <3>1, <3>3, <3>4 DEF RecA, MinedInv
  <2> QED
    BY <2>1, <2>2
<1>u. UndoInv'
  <2> SUFFICES ASSUME NEW y \in Tx, NEW c \in Mine, <<y, c>> \in undo'
               PROVE  /\ Exists(y)' /\ c \in Inputs[y] /\ spent'[c] = y
                      /\ Maker[c] \in Tx /\ Exists(Maker[c])'
                      /\ Mined(Maker[c])' => <<y, c>> \in undoMined'
    BY DEF UndoInv, Mined, Exists
  <2>1. <<y, c>> \in undo /\ c \in Coin
    BY <1>1, <1>3
  <2>2. /\ Exists(y) /\ c \in Inputs[y] /\ spent[c] = y /\ Maker[c] \in Tx /\ Exists(Maker[c])
        /\ (c \in Inputs[t] <=> y = t)
        /\ Mined(Maker[c]) => <<y, c>> \in undoMined
    BY <1>6, <2>1
  <2>3. spent'[c] = y
    BY <1>1, <2>1, <2>2
  <2>4. Mined(Maker[c])' => <<y, c>> \in undoMined'
    BY <1>1, <1>2, <2>2
  <2> QED
    BY <1>2, <2>2, <2>3, <2>4
<1>p. PSpentInv'
  <2> SUFFICES ASSUME NEW y \in Tx, IsPending(y)', NEW c \in Inputs[y]
               PROVE  spent'[c] = y /\ c \in watch'
    BY DEF PSpentInv, IsPending
  <2>1. c \in Coin
    BY TxTypes
  <2>2. CASE y = t
    <3>1. c \in known => spent[c] = t
      BY <1>3, <1>6
    <3> QED
      BY <1>1, <2>1, <2>2, <3>1
  <2>3. CASE y # t
    <3>1. IsPending(y) /\ Exists(y)
      BY <1>0, <1>2, <2>3, States
    <3>2. spent[c] = y /\ c \in watch
      BY <3>1 DEF RecA, PSpentInv
    <3>3. c \notin Inputs[t]
      BY <1>5, <2>3, <3>1
    <3> QED
      BY <1>1, <2>1, <3>2, <3>3
  <2> QED
    BY <2>2, <2>3
<1>r. RivalInv'
  <2>1. \A x \in Tx : Exists(x)' => Exists(x)
    BY <1>2
  <2> QED
    BY <2>1 DEF RecA, RivalInv, Exists
<1>w. WatchInv'
  <2>1. credits \subseteq watch
    BY DEF RecA, WatchInv
  <2>2. credits' \subseteq watch'
    BY <1>1, <1>3, <2>1
  <2> QED
    BY <2>2 DEF WatchInv
<1>k. KInv'
  <2> SUFFICES ASSUME NEW y \in Tx, Mined(y)', NEW c \in Inputs[y] \cap Mine, Maker[c] \in Tx
               PROVE  /\ Exists(Maker[c])' => Mined(Maker[c])' /\ <<y, c>> \in undo'
                      /\ Maker[c] \in TxsOf(txs'[y]) => Mined(Maker[c])'
    BY DEF KInv, Mined, Exists
  <2>1. y # t /\ Mined(y) /\ txs'[y] = txs[y]
    BY <1>2
  <2>2. /\ Exists(Maker[c]) => Mined(Maker[c]) /\ <<y, c>> \in undo
        /\ Maker[c] \in TxsOf(txs[y]) => Mined(Maker[c])
    BY <2>1 DEF RecA, KInv
  <2>3. Maker[c] # t
    BY <2>1 DEF Unclaimed
  <2> QED
    BY <1>1, <1>2, <2>1, <2>2, <2>3
<1>o. OrderInv'
  <2> SUFFICES ASSUME NEW n \in Heights, NEW i \in 1..Len(blocks'[n]), NEW j \in 1..Len(blocks'[n]),
                      NEW c \in Inputs[blocks'[n][i]] \cap Mine, Maker[c] = blocks'[n][j]
               PROVE  j < i
    BY DEF OrderInv
  <2>1. blocks \in [Heights -> Seq(Tx)] /\ OrderInv
    BY <1>0 DEF TxDBTypeOK, RecA
  <2>2. CASE blocks'[n] = blocks[n]
    BY <2>1, <2>2 DEF OrderInv
  <2>3. CASE blocks'[n] # blocks[n]
    <3>1. blocks[n] # <<>> /\ blocks'[n] = Front(blocks[n])
      BY <1>1, <2>1, <2>3
    <3>2. blocks[n] \in Seq(Tx)
      BY <2>1
    <3>3. /\ Len(blocks'[n]) = Len(blocks[n]) - 1 /\ Len(blocks[n]) \in Nat \ {0}
          /\ \A k \in 1..(Len(blocks[n]) - 1) : blocks'[n][k] = blocks[n][k]
      BY <3>1, <3>2, Fronts
    <3>4. /\ i \in 1..Len(blocks[n]) /\ j \in 1..Len(blocks[n])
          /\ blocks'[n][i] = blocks[n][i] /\ blocks'[n][j] = blocks[n][j]
      BY <3>3
    <3> QED
      BY <2>1, <3>4 DEF OrderInv
  <2> QED
    BY <2>2, <2>3
<1>b. Balance'
  <2>1. Cardinality(Held') = Cardinality(Held) + 0
    <3>1. Cardinality(Held) \in Nat
      BY TxFinite DEF Held
    <3> QED
      BY <1>2, <3>1
  <2>2. credits' \ flagged' = ((credits \ flagged) \ {}) \cup {}
    BY <1>1, <1>9
  <2>3. Sure' = {c \in credits' : Mined(Maker[c])'}
    BY DEF Sure, Mined
  <2>4. \A c \in credits : Mined(Maker[c])' <=> (Mined(Maker[c]) /\ c \notin Ours(t))
    <3>1. \A c \in credits : Maker[c] \in Tx /\ c \in Coin /\ c \in Mine
      BY <1>3 DEF RecA, CreditInv
    <3> QED
      BY <1>2, <1>3, <3>1
  <2>5. \A c \in known : Mined(Maker[c])'
    BY <1>2, <1>9
  <2>6. Sure' = (Sure \ made) \cup known
    BY <1>1, <1>10, <2>3, <2>4, <2>5 DEF Sure
  <2>7. made \subseteq Sure
    BY <1>3, <1>8, <1>10 DEF Sure
  <2>8. (Sure \ made) \cap known = {} /\ known \in SUBSET Coin
    BY <1>3, <1>9 DEF Sure
  <2>9. Balanced(0, {}, {}, known, made)
    BY <1>1
  <2>10. /\ Balance /\ ((credits \ flagged) \ {}) \cap {} = {} /\ {} \in SUBSET Coin
         /\ {} \in SUBSET (credits \ flagged)
    BY DEF RecA
  <2> QED
    BY <1>0, <2>1, <2>2, <2>6, <2>7, <2>8, <2>9, <2>10, Booked
<1>v. Undos(t, Undone(t)) \subseteq undoMined
  BY <1>9 DEF Undos, known
<1> QED
  BY <1>l, <1>c, <1>f, <1>m, <1>u, <1>p, <1>r, <1>w, <1>k, <1>o, <1>b, <1>v DEF RecA

----------------------------------------------------------------------------
\* The records and the chain, for the trail T of the requests.

\* The wallet has or makes a coin that t is about.
Matters(t) == Ours(t) \cup Known(t) # {}

\* A batch for t waits.
InWork(t) == \E i \in 1..Len(work) : work[i][1] \in {"insert", "confirm"} /\ work[i][2] = t

\* A reset is on its way that takes the wallet's block away.
ResetDue == \E i \in 1..Len(queue) : queue[i].kind = "reset" /\ W \notin Anc[queue[i].of]

\* The wallet's block may be recorded in part: it is added again, or goes.
Hollow ==
  \/ Kind = "sync" /\ run.stage \in {"start", "wait"}
  \/ run.stage \in {"scan", "adding"} /\ run.block = W
  \/ ResetDue
\* What the wallet has of a block is not to be relied on.
Open(a) == IF run.stage = "back" THEN a \notin Anc[run.block] ELSE a = W /\ Hollow

\* What is mined is in its block: one that the wallet has, or the next.
BelongInv ==
  \A t \in Tx : Mined(t) =>
    /\ t \in TxsOf(txs[t]) /\ FullyValid(txs[t])
    /\ txs[t] \in Anc[W] \/ Parent[txs[t]] = W

\* The wallet has restarted and has not yet found what it has with the chain.
Unsynced ==
  \/ Kind = "sync" /\ run.stage \in {"start", "back"}
  \/ Kind = "sync" /\ run.stage = "wait" /\ Outstanding

\* What is mined is on the line of the tip before the first request, or is of
\* the block that request brings.
MKnownInv(T) ==
  Unsynced \/
  \A t \in Tx : Mined(t) =>
    txs[t] \in Anc[T[1]] \/ (run.stage = "adding" /\ Kind = "connect" /\ txs[t] = run.block)

\* What of the wallet's block concerns the wallet is mined, once something above is.
AheadInv ==
  run.stage = "back" \/ (run.stage = "adding" /\ run.block \notin {NoBlock, W}) \/
  \A t \in Tx : Mined(t) /\ Height[txs[t]] > height =>
    \A x \in TxsOf(W) : Ours(x) # {} => Mined(x)

\* A block that the wallet has leaves none of its transactions pending, unless
\* it is being added again or taken back.
PendInv == \A t \in Tx : IsPending(t) => \A a \in Anc[W] : t \in TxsOf(a) => Open(a)

\* Unless a scan was cut short, what concerns the wallet in its blocks is mined.
CompleteInv ==
  cut \/ \A a \in Anc[W] \ Anc[Start] : \A t \in TxsOf(a) : Open(a) \/ (Matters(t) => Mined(t))

\* Nothing is left to do for a transaction of the block that is added.
Served(t) ==
  /\ ~IsPending(t)
  /\ Matters(t) => Mined(t)
  /\ \A x \in Rivals(t) : ~IsPending(x)

\* The transactions of the block that the job has looked at.
PrefixInv ==
  run.stage = "adding" /\ run.block # NoBlock =>
    \A i \in 1..Done : InWork(BlockTxs[run.block][i]) \/ Served(BlockTxs[run.block][i])

\* A block that the wallet has rules out no pending transaction.
NoRivalInv == \A t \in Tx : IsPending(t) => \A a \in Anc[W] : Rivals(t) \cap TxsOf(a) = {}

\* Going back leaves nothing mined above.
LeftInv ==
  run.stage = "back" =>
    \A t \in Tx : Mined(t) =>
      \/ Height[txs[t]] <= Height[run.block] \/ Height[txs[t]] \in run.left
      \/ Undoes(Height[txs[t]])

\* A height with transactions is among those that a reset finds.
MappedInv == \A h \in Heights : blocks[h] # <<>> => h \in mapped \/ Undoes(h)

\* Blocks are taken back from the top.
TopInv ==
  run.stage = "back" =>
    \A h \in Heights : Undoes(h) => \A t \in Tx : Mined(t) => Height[txs[t]] <= h

RecB(T) ==
  /\ BelongInv /\ MKnownInv(T) /\ AheadInv /\ PendInv /\ CompleteInv /\ PrefixInv
  /\ NoRivalInv /\ LeftInv /\ MappedInv /\ TopInv

Inv2(T) == Inv1 /\ C(T) /\ RecA /\ RecB(T)

LEMMA MinedIs ==
  ASSUME Inv1, NEW t \in Tx, Mined(t)
  PROVE  /\ txs[t] \in Block /\ Height[txs[t]] \in Nat /\ Height[txs[t]] \in Heights
         /\ blocks[Height[txs[t]]] # <<>>
<1>1. txs[t] \in Block
  BY DEF Mined
<1>2. Height[txs[t]] \in Nat /\ Height[txs[t]] \in Heights
  BY <1>1, HeightIn
<1>3. \E i \in 1..Len(blocks[Height[txs[t]]]) : blocks[Height[txs[t]]][i] = t
  BY DEF Inv1, RecordInv
<1>4. blocks[Height[txs[t]]] # <<>>
  BY <1>3
<1> QED
  BY <1>1, <1>2, <1>4

\* A scan goes over the chain that the wallet is on.
LEMMA OnScan ==
  ASSUME Inv1, NEW T, C(T), locker = "scan"
  PROVE  ~Outstanding /\ W \in Main /\ \A i \in 1..Len(T) : tip \in Anc[T[i]] /\ W \in Anc[T[i]]
<1>1. ~Outstanding
  BY DEF Inv1, QueueInv
<1>2. W \in Main /\ TrailInv(T)
  BY DEF C, JobInv
<1>3. \A i \in 1..Len(T) : tip \in Anc[T[i]]
  BY <1>1, <1>2, QuietTrail
<1>4. T \in Seq(Block) /\ tip \in Block
  BY <1>2, WIs DEF TrailInv
<1>5. \A i \in 1..Len(T) : T[i] \in Block
  BY <1>4
<1> QED
  BY <1>1, <1>2, <1>3, <1>5, Lines DEF Main

LEMMA NoResetDue ==
  ASSUME Inv1, NEW T, C(T), locker = "scan" \/ Kind \in Events
  PROVE  ~ResetDue
<1> SUFFICES ASSUME NEW i \in 1..Len(queue), queue[i].kind = "reset", W \notin Anc[queue[i].of] PROVE FALSE
  BY DEF ResetDue
<1>0. TrailInv(T) /\ Len(queue) \in Nat /\ queue \in Seq(Request)
  BY WIs DEF C
<1>1. Step(queue[i], T[i], T[i + 1]) /\ i + 1 \in 1..Len(T)
  BY <1>0 DEF TrailInv
<1>2. T[i + 1] = queue[i].of
  BY <1>1 DEF Step
<1>3. CASE locker = "scan"
  BY <1>1, <1>2, <1>3, OnScan
<1>4. CASE Kind \in Events
  <2>1. queue # <<>>
    BY <1>4 DEF Kind, Events
  <2>2. queue[1].kind \in Events /\ 1 \in 1..Len(queue)
    BY <1>4, <2>1, FirstIs1
  <2>3. i # 1
    BY <2>2 DEF Events
  <2>4. 1 < i
    BY <2>3
  <2>5. queue[i].kind \in {"tx", "rescan"}
    BY <2>2, <2>4 DEF Inv1, QueueInv
  <2> QED
    BY <2>5
<1> QED
  BY <1>3, <1>4

\* When the chain has left the wallet's block and no event waits, a reset does.
LEMMA ResetAhead ==
  ASSUME Inv1, NEW T, C(T), ~Outstanding, W \in Anc[T[1]], W \notin Main
  PROVE  ResetDue
<1> SUFFICES ASSUME ~ResetDue PROVE FALSE
  OBVIOUS
<1> DEFINE S == {i \in 1..Len(T) : W \in Anc[T[i]]}
<1>1. /\ T \in Seq(Block) /\ Len(T) = Len(queue) + 1 /\ Len(queue) \in Nat /\ tip \in Block
      /\ T[Len(T)] = tip /\ 1 \in 1..Len(T) /\ TrailInv(T)
  BY WIs, TrailEnds DEF C
<1>2. S \in SUBSET Nat /\ 1 \in S /\ Len(T) \in Nat /\ \A x \in S : x <= Len(T)
  BY <1>1
<1>3. PICK m \in S : \A x \in S : x <= m
  <2> HIDE DEF S
  <2> QED
    BY <1>2, Bounded
<1>4. m # Len(T)
  BY <1>1, <1>3 DEF Main
<1>5. m \in 1..Len(queue) /\ m + 1 \in 1..Len(T) /\ m + 1 \notin S
  BY <1>1, <1>3, <1>4
<1>6. W \in Anc[T[m]] /\ W \notin Anc[T[m + 1]]
  BY <1>3, <1>5
<1>7. Step(queue[m], T[m], T[m + 1])
  BY <1>1, <1>5 DEF TrailInv
<1>8. queue[m].kind \in {"reset", "rescan", "sync", "tx"}
  <2>1. queue[m] \in Request
    BY <1>5, WIs
  <2>2. queue[m].kind \notin {"connect", "disconnect"}
    BY <1>5 DEF Outstanding
  <2> QED
    BY <2>1, <2>2 DEF Request
<1>9. queue[m].kind = "reset" /\ T[m + 1] = queue[m].of
  BY <1>6, <1>7, <1>8 DEF Step
<1> QED
  BY <1>5, <1>6, <1>9 DEF ResetDue

\* A batch of a revert is of one height.
LEMMA UndoesWork ==
  ASSUME Inv1, NEW h \in Heights, Undoes(h)
  PROVE  /\ work # <<>> /\ work[1][1] = "disconnect"
         /\ \A i \in 1..Len(work) : Mined(work[i][2]) /\ Height[txs[work[i][2]]] = h
         /\ Len(work) = Len(blocks[h]) /\ Len(work) \in Nat \ {0}
         /\ \A i \in 1..Len(work) : work[i] = <<"disconnect", blocks[h][Len(work) + 1 - i]>>
<1>1. TxDBTypeOK /\ work \in Seq(Batches) /\ work # <<>> /\ BlocksInv
  BY Inv1Is DEF Undoes, Rest1, Db
<1>2. /\ work = Undoing(h) /\ Len(work) = Len(blocks[h])
      /\ \A i \in 1..Len(blocks[h]) : work[i] = <<"disconnect", blocks[h][Len(blocks[h]) + 1 - i]>>
  BY <1>1, UndoingIs DEF Undoes
<1>3. Len(work) \in Nat \ {0}
  BY <1>1, Tails
<1>4. \A i \in 1..Len(work) : work[i][2] = blocks[h][Len(work) + 1 - i] /\ Len(work) + 1 - i \in 1..Len(blocks[h])
  BY <1>2, <1>3
<1>5. \A i \in 1..Len(work) : Mined(work[i][2]) /\ Height[txs[work[i][2]]] = h
  <2>1. \A k \in 1..Len(blocks[h]) : Mined(blocks[h][k]) /\ Height[txs[blocks[h][k]]] = h
    BY <1>1 DEF BlocksInv
  <2> TAKE i \in 1..Len(work)
  <2>2. PICK k \in 1..Len(blocks[h]) : work[i][2] = blocks[h][k]
    BY <1>4
  <2> QED
    BY <2>1, <2>2
<1>6. work[1][1] = "disconnect"
  BY <1>2, <1>3
<1> QED
  BY <1>1, <1>2, <1>3, <1>5, <1>6

LEMMA UndoesOnce ==
  ASSUME Inv1, NEW h \in Heights, NEW n \in Heights, Undoes(h), Undoes(n)
  PROVE  h = n
<1>1. Height[txs[work[1][2]]] = h /\ Height[txs[work[1][2]]] = n
  <2>1. 1 \in 1..Len(work)
    BY UndoesWork
  <2> QED
    BY <2>1, UndoesWork
<1> QED
  BY <1>1

LEMMA NoUndo ==
  ASSUME Inv1, work = <<>> \/ work[1][1] # "disconnect"
  PROVE  \A h \in Heights : ~Undoes(h)
BY UndoesWork

\* The blocks that matter while a transaction is added are on one line.
LEMMA OneLine ==
  ASSUME NEW T, Inv2(T), run.stage = "adding"
  PROVE  \E L \in Block :
           /\ FullyValid(L) /\ W \in Anc[L]
           /\ \A x \in Tx : Mined(x) => txs[x] \in Anc[L]
           /\ run.block # NoBlock => run.block \in Anc[L]
           /\ Kind = "tx" => L = T[1]
<1>0. Inv1 /\ C(T) /\ MKnownInv(T) /\ AddingInv /\ JobInv /\ queue # <<>>
  BY DEF Inv2, RecB, C, Inv1, StageInv
<1>1. /\ T[1] \in Block /\ T[2] \in Block /\ Step(Head(queue), T[1], T[2])
      /\ FullyValid(T[1]) /\ FullyValid(T[2])
  <2>1. TrailInv(T) /\ ValidInv(T)
    BY <1>0 DEF C
  <2> QED
    BY <1>0, <2>1, HeadStep
<1>2. Kind = Head(queue).kind /\ Kind \in {"tx", "connect", "rescan", "sync"}
  BY <1>0 DEF AddingInv, Kind
<1>3. \A x \in Tx : Mined(x) => txs[x] \in Anc[T[1]] \/ (Kind = "connect" /\ txs[x] = run.block)
  BY <1>0 DEF MKnownInv, Unsynced
<1>4. CASE Kind = "tx"
  <2>1. W \in Anc[T[1]] /\ run.block = NoBlock
    BY <1>0, <1>4, OnTheWay DEF AddingInv
  <2> QED
    BY <1>1, <1>3, <1>4, <2>1
<1>5. CASE Kind = "connect"
  <2>1. Head(queue).of = run.block /\ run.block \in Block
    BY <1>0, <1>5 DEF AddingInv, InBlock
  <2>2. run.block = T[2] /\ T[1] = Parent[T[2]] /\ T[2] # Genesis
    BY <1>1, <1>2, <1>5, <2>1 DEF Step
  <2>3. Anc[T[2]] = Anc[T[1]] \cup {T[2]}
    BY <1>1, <2>2, Parents1
  <2>4. W \in Anc[T[1]]
    BY <1>0, <1>5, OnTheWay
  <2>5. /\ W \in Anc[T[2]] /\ run.block \in Anc[T[2]]
        /\ \A x \in Tx : Mined(x) => txs[x] \in Anc[T[2]]
    BY <1>3, <2>2, <2>3, <2>4
  <2> QED
    BY <1>1, <1>5, <2>5
<1>6. CASE Kind \in {"rescan", "sync"}
  <2>1. locker = "scan" /\ run.block \in Main
    BY <1>0, <1>6 DEF AddingInv, JobInv
  <2>2. W \in Anc[T[1]] /\ tip \in Anc[T[1]]
    BY <1>0, <2>1, OnScan, TrailEnds
  <2>3. run.block \in Anc[T[1]]
    BY <1>1, <2>1, <2>2, Lines DEF Main
  <2> QED
    BY <1>1, <1>3, <1>6, <2>2, <2>3
<1> QED
  BY <1>2, <1>4, <1>5, <1>6

\* In a block that extends the wallet's nothing is open.
LEMMA NotOpen ==
  ASSUME NEW T, Inv2(T), run.stage = "adding", Kind # "tx", run.block # W
  PROVE  \A a : ~Open(a)
<1>1. Inv1 /\ C(T) /\ AddingInv
  BY DEF Inv2, Inv1, StageInv
<1>2. Kind = "connect" \/ locker = "scan"
  BY <1>1 DEF AddingInv
<1>3. ~ResetDue
  BY <1>1, <1>2, NoResetDue DEF Events
<1> QED
  BY <1>3 DEF Open, Hollow

----------------------------------------------------------------------------
\* The steps that leave the records alone.

LEMMA SameRecords ==
  ASSUME UNCHANGED txdb
  PROVE  /\ txs' = txs /\ blocks' = blocks /\ mapped' = mapped
         /\ \A t \in Tx : /\ Mined(t)' <=> Mined(t)
                          /\ IsPending(t)' <=> IsPending(t)
                          /\ Exists(t)' <=> Exists(t)
                          /\ Matters(t)' <=> Matters(t)
                          /\ Served(t)' <=> Served(t)
<1>1. txs' = txs /\ blocks' = blocks /\ mapped' = mapped
  BY DEF txdb, coinVars
<1>2. \A t \in Tx : /\ Mined(t)' <=> Mined(t)
                    /\ IsPending(t)' <=> IsPending(t)
                    /\ Exists(t)' <=> Exists(t)
  BY <1>1 DEF Mined, IsPending, Exists
<1>3. \A t \in Tx : Known(t)' = Known(t)
  BY <1>1 DEF Known, Exists
<1>4. \A t \in Tx : Matters(t)' <=> Matters(t)
  BY <1>3 DEF Matters
<1>5. \A t \in Tx : Served(t)' <=> Served(t)
  BY <1>1, <1>2, <1>4 DEF Served, IsPending
<1> QED
  BY <1>1, <1>2, <1>4, <1>5

LEMMA Still ==
  ASSUME Inv1, NEW T, NEW U, RecB(T), UNCHANGED <<txdb, height, hashes>>, cut => cut',
         cut' \/ \A a \in Anc[W] : Open(a) => Open(a)',
         \A a \in Anc[W] : \A t \in Tx : IsPending(t) /\ t \in TxsOf(a) => (Open(a) => Open(a)'),
         MKnownInv(U)', AheadInv', PrefixInv', LeftInv', TopInv', MappedInv'
  PROVE  RecB(U)'
<1>1. W' = W
  BY DEF W
<1>2. /\ \A t \in Tx : /\ Mined(t)' <=> Mined(t)
                       /\ IsPending(t)' <=> IsPending(t)
                       /\ Matters(t)' <=> Matters(t)
      /\ txs' = txs
  BY SameRecords
<1>3. BelongInv' /\ NoRivalInv'
  BY <1>1, <1>2 DEF RecB, BelongInv, NoRivalInv, Mined, IsPending
<1>4. PendInv'
  BY <1>1, <1>2 DEF RecB, PendInv, IsPending
<1>5. CompleteInv'
  <2> SUFFICES ASSUME ~cut', NEW a \in Anc[W'] \ Anc[Start], NEW t \in TxsOf(a)
               PROVE  Open(a)' \/ (Matters(t)' => Mined(t)')
    BY DEF CompleteInv, Mined
  <2>1. Open(a) \/ (Matters(t) => Mined(t))
    BY <1>1 DEF RecB, CompleteInv
  <2>2. t \in Tx
    <3>1. W \in Block /\ Anc[W] \subseteq Block
      BY WIs, Lines
    <3> QED
      BY <1>1, <3>1, TxTypes
  <2> QED
    BY <1>1, <1>2, <2>1, <2>2
<1> QED
  BY <1>3, <1>4, <1>5 DEF RecB

LEMMA StillMapped ==
  ASSUME Inv1, MappedInv, UNCHANGED txdb, work = <<>> \/ work' = work
  PROVE  MappedInv'
<1>1. txs' = txs /\ blocks' = blocks /\ mapped' = mapped
  BY SameRecords
<1>2. CASE work = <<>>
  BY <1>1, <1>2 DEF MappedInv, Undoes
<1>3. CASE work' = work
  <2>1. \A h \in Heights : Undoes(h)' <=> Undoes(h)
    BY <1>1, <1>3 DEF Undoes, Undoing
  <2> QED
    BY <1>1, <2>1 DEF MappedInv
<1> QED
  BY <1>2, <1>3

LEMMA Idle == ASSUME run'.stage \notin {"adding", "back"} PROVE PrefixInv' /\ LeftInv' /\ TopInv'
BY DEF PrefixInv, LeftInv, TopInv

\* What is mined is on the way to the chain's tip, but while the wallet comes back.
LEMMA MinedKnown ==
  ASSUME NEW T, RecB(T), ~Unsynced, run.stage # "adding" \/ Kind # "connect"
  PROVE  \A t \in Tx : Mined(t) => txs[t] \in Anc[T[1]]
BY DEF RecB, MKnownInv

LEMMA RecBSame ==
  ASSUME Inv1, NEW T, RecB(T), UNCHANGED <<txdb, height, hashes, queue, run, work, cut>>
  PROVE  RecB(T)'
<1>1. /\ W' = W /\ Kind' = Kind /\ (Outstanding' <=> Outstanding) /\ (Unsynced' <=> Unsynced)
      /\ (ResetDue' <=> ResetDue) /\ (Hollow' <=> Hollow) /\ \A a : Open(a)' <=> Open(a)
  BY DEF W, Kind, Outstanding, Unsynced, ResetDue, Hollow, Open
<1>2. /\ txs' = txs /\ blocks' = blocks
      /\ \A t \in Tx : (Mined(t)' <=> Mined(t)) /\ (Served(t)' <=> Served(t))
  BY SameRecords
<1>3. MKnownInv(T)'
  BY <1>1, <1>2 DEF RecB, MKnownInv, Mined
<1>4. AheadInv'
  BY <1>1, <1>2 DEF RecB, AheadInv, Mined
<1>5. PrefixInv'
  <2> SUFFICES ASSUME run.stage = "adding" /\ run.block # NoBlock, NEW i \in 1..Done
               PROVE  InWork(BlockTxs[run.block][i])' \/ Served(BlockTxs[run.block][i])'
    BY DEF PrefixInv, Done
  <2>1. InWork(BlockTxs[run.block][i]) \/ Served(BlockTxs[run.block][i])
    BY DEF RecB, PrefixInv
  <2>2. run.block \in Block /\ i \in 1..Len(BlockTxs[run.block])
    <3>1. run.block \in Block /\ Len(BlockTxs[run.block]) \in Nat
      BY WIs, TxTypes
    <3>2. Len(run.rest) \in Nat
      <4>1. run.rest \in Seq(Tx)
        BY DEF Inv1, TypeOK
      <4> QED
        BY <4>1
    <3> QED
      BY <3>1, <3>2 DEF Done
  <2>3. BlockTxs[run.block][i] \in Tx
    BY <2>2, TxTypes
  <2> QED
    BY <1>2, <2>1, <2>3 DEF InWork
<1>6. LeftInv' /\ TopInv'
  <2>1. \A h \in Heights : Undoes(h)' <=> Undoes(h)
    BY <1>2 DEF Undoes, Undoing
  <2>2. \A t \in Tx : Mined(t) => Height[txs[t]] \in Heights
    BY MinedIs
  <2> QED
    BY <1>2, <2>1, <2>2 DEF RecB, LeftInv, TopInv, Mined
<1>7. MappedInv'
  BY StillMapped DEF RecB
<1> QED
  BY <1>1, <1>3, <1>4, <1>5, <1>6, <1>7, Still

\* Another request.
LEMMA RecBAppended ==
  ASSUME Inv1, NEW T, TrailInv(T), RecB(T), NEW r, WellAsked(r), r.kind # "sync",
         Outstanding => r.kind \in {"tx", "rescan"}, r.kind \in Events => locker = "event",
         queue' = Append(queue, r), UNCHANGED <<locker, height, hashes, txdb, run, work, cut>>,
         NEW U, U = Append(T, tip')
  PROVE  RecB(U)'
<1>0. queue \in Seq(Request) /\ QueueInv /\ T \in Seq(Block) /\ Len(T) = Len(queue) + 1
  BY DEF Inv1, TypeOK, TrailInv
<1>1. /\ Len(queue) \in Nat
      /\ Len(queue') = Len(queue) + 1
      /\ \A i \in 1..Len(queue) : queue'[i] = queue[i]
      /\ queue # <<>> => Head(queue') = Head(queue) /\ Kind' = Kind
      /\ queue = <<>> => Kind' = r.kind
      /\ (Outstanding' <=> Outstanding \/ r.kind \in Events)
  BY <1>0, QueueAppended
<1>2. W' = W /\ U[1] = T[1]
  BY <1>0, <1>1 DEF W
<1>3. Kind = "sync" => Kind' = "sync"
  BY <1>1 DEF Kind
<1>4. ResetDue => ResetDue'
  BY <1>1, <1>2 DEF ResetDue
<1>5. \A a : Open(a) => Open(a)'
  BY <1>2, <1>3, <1>4 DEF Open, Hollow
<1>6. run.stage # "start" => queue # <<>>
  BY DEF Inv1, StageInv
<1>7. /\ txs' = txs /\ blocks' = blocks
      /\ \A t \in Tx : (Mined(t)' <=> Mined(t)) /\ (Served(t)' <=> Served(t))
  BY SameRecords
<1>8. MKnownInv(U)'
  <2>1. Unsynced => Unsynced'
    BY <1>1, <1>3 DEF Unsynced
  <2>2. run.stage = "adding" /\ Kind = "connect" => Kind' = "connect"
    BY <1>1, <1>6
  <2> QED
    BY <1>2, <1>7, <2>1, <2>2 DEF RecB, MKnownInv, Mined
<1>9. AheadInv'
  BY <1>2, <1>7 DEF RecB, AheadInv, Mined
<1>10. PrefixInv'
  <2> SUFFICES ASSUME run.stage = "adding" /\ run.block # NoBlock, NEW i \in 1..Done
               PROVE  InWork(BlockTxs[run.block][i])' \/ Served(BlockTxs[run.block][i])'
    BY DEF PrefixInv, Done
  <2>1. InWork(BlockTxs[run.block][i]) \/ Served(BlockTxs[run.block][i])
    BY DEF RecB, PrefixInv
  <2>2. run.block \in Block /\ i \in 1..Len(BlockTxs[run.block])
    <3>1. run.block \in Block /\ Len(BlockTxs[run.block]) \in Nat
      BY WIs, TxTypes
    <3>2. Len(run.rest) \in Nat
      <4>1. run.rest \in Seq(Tx)
        BY DEF Inv1, TypeOK
      <4> QED
        BY <4>1
    <3> QED
      BY <3>1, <3>2 DEF Done
  <2>3. BlockTxs[run.block][i] \in Tx
    BY <2>2, TxTypes
  <2> QED
    BY <1>7, <2>1, <2>3 DEF InWork
<1>11. LeftInv' /\ TopInv'
  <2>1. \A h \in Heights : Undoes(h)' <=> Undoes(h)
    BY <1>7 DEF Undoes, Undoing
  <2>2. \A t \in Tx : Mined(t) => Height[txs[t]] \in Heights
    BY MinedIs
  <2> QED
    BY <1>7, <2>1, <2>2 DEF RecB, LeftInv, TopInv, Mined
<1>12. MappedInv'
  BY StillMapped DEF RecB
<1> QED
  BY <1>5, <1>8, <1>9, <1>10, <1>11, <1>12, Still

\* The first request is done, and the wallet stays where it is.
LEMMA RecBFinished ==
  ASSUME Inv1, NEW T, TrailInv(T), RecB(T), queue # <<>>, Finish, work = <<>> \/ work' = work,
         UNCHANGED <<height, hashes, txdb>>, cut => cut', run.stage # "back",
         cut' \/ (Hollow => ResetDue /\ (Head(queue).kind = "reset" => W \in Anc[Head(queue).of])),
         (\E t \in TxsOf(W) : IsPending(t)) =>
           (Hollow => ResetDue /\ (Head(queue).kind = "reset" => W \in Anc[Head(queue).of])),
         run.stage # "adding" \/ run.block \in {NoBlock, W},
         \A t \in Tx : Mined(t) => txs[t] \in Anc[T[2]]
  PROVE  RecB(Tail(T))'
<1>0. queue \in Seq(Request) /\ T \in Seq(Block) /\ Len(T) = Len(queue) + 1 /\ run' = NoJob
  BY DEF Inv1, TypeOK, TrailInv, Finish
<1>1. /\ queue' = Tail(queue) /\ Len(queue) \in Nat \ {0} /\ Head(queue) = queue[1]
      /\ Len(queue') = Len(queue) - 1
      /\ \A i \in 1..(Len(queue) - 1) : queue'[i] = queue[i + 1]
  BY <1>0, Tails DEF Finish
<1>2. W' = W /\ Tail(T)[1] = T[2] /\ run'.stage = "start"
  <2>1. T # <<>> /\ 1 \in 1..(Len(T) - 1)
    BY <1>0, <1>1
  <2>2. Tail(T)[1] = T[1 + 1]
    BY <1>0, <2>1, Tails
  <2> QED
    BY <1>0, <2>2, Jobs DEF W
<1>3. ASSUME ResetDue, Head(queue).kind = "reset" => W \in Anc[Head(queue).of] PROVE ResetDue'
  <2>1. PICK i \in 1..Len(queue) : queue[i].kind = "reset" /\ W \notin Anc[queue[i].of]
    BY <1>3 DEF ResetDue
  <2>2. i # 1
    BY <1>1, <1>3, <2>1
  <2>3. i - 1 \in 1..Len(queue') /\ queue'[i - 1] = queue[i]
    BY <1>1, <2>1, <2>2
  <2> QED
    BY <1>2, <2>1, <2>3 DEF ResetDue
<1>4. \A a : Open(a) => a = W /\ Hollow
  BY DEF Open
<1>5. ResetDue' => Open(W)'
  BY <1>2 DEF Open, Hollow
<1>6. /\ txs' = txs /\ \A t \in Tx : Mined(t)' <=> Mined(t)
  BY SameRecords
<1>7. MKnownInv(Tail(T))'
  BY <1>2, <1>6 DEF MKnownInv, Mined
<1>8. AheadInv'
  <2>1. \A t \in Tx : Mined(t) /\ Height[txs[t]] > height =>
          \A x \in TxsOf(W) : Ours(x) # {} => Mined(x)
    BY DEF RecB, AheadInv
  <2>2. TxsOf(W) \subseteq Tx
    BY WIs, TxTypes
  <2> QED
    BY <1>2, <1>6, <2>1, <2>2 DEF AheadInv, Mined
<1>9. PrefixInv' /\ LeftInv' /\ TopInv'
  BY <1>2, Idle
<1>10. MappedInv'
  BY StillMapped DEF RecB
<1>11. cut' \/ \A a \in Anc[W] : Open(a) => Open(a)'
  BY <1>2, <1>3, <1>4, <1>5
<1>12. \A a \in Anc[W] : \A t \in Tx : IsPending(t) /\ t \in TxsOf(a) => (Open(a) => Open(a)')
  BY <1>2, <1>3, <1>4, <1>5
<1> QED
  BY <1>7, <1>8, <1>9, <1>10, <1>11, <1>12, Still

LEMMA ParkedB ==
  ASSUME NEW T, Inv2(T), SetBest(goal') \/ Release
  PROVE  RecB(T)'
BY RecBSame DEF Inv2, SetBest, Release, sync

LEMMA AskedB ==
  ASSUME NEW T, Inv2(T), Move \/ AskRescan \/ (\E b \in Block : Reset(b)) \/ \E t \in Tx : Announce(t),
         NEW U, U = Append(T, tip')
  PROVE  RecB(U)'
<1>0. Inv1 /\ TrailInv(T) /\ RecB(T) /\ tip \in Block /\ goal \in Block
  BY WIs DEF Inv2, C
<1>1. UNCHANGED <<height, hashes, txdb, run, work, cut, locker>>
  BY DEF Move, AskRescan, Reset, Announce, sync, chain
<1>2. \E r : /\ WellAsked(r) /\ r.kind # "sync" /\ queue' = Append(queue, r)
             /\ Outstanding => r.kind \in {"tx", "rescan"}
             /\ r.kind \in Events => locker = "event"
  <2>1. CASE Move
    <3>1. CASE tip \in Anc[goal]
      <4>1. PICK b \in Anc[goal] : Parent[b] = tip /\ queue' = Append(queue, Req("connect", b))
        BY <2>1, <3>1 DEF Move
      <4>2. b \in Block /\ b # Genesis
        <5>1. b \in Block
          BY <1>0, Lines
        <5> QED
          BY <1>0, <4>1, <5>1, Child
      <4>3. WellAsked(Req("connect", b)) /\ Req("connect", b).kind = "connect"
        BY <4>2, ReqIs DEF WellAsked
      <4> QED
        BY <2>1, <4>1, <4>3 DEF Move
    <3>2. CASE tip \notin Anc[goal]
      <4>1. queue' = Append(queue, Req("disconnect", tip))
        BY <2>1, <3>2 DEF Move
      <4>2. tip # Genesis
        BY <1>0, <3>2, Lines
      <4>3. WellAsked(Req("disconnect", tip)) /\ Req("disconnect", tip).kind = "disconnect"
        BY <1>0, <4>2, ReqIs DEF WellAsked
      <4> QED
        BY <2>1, <4>1, <4>3 DEF Move
    <3> QED
      BY <3>1, <3>2
  <2>2. CASE AskRescan
    <3>1. queue' = Append(queue, Req("rescan", NoBlock))
      BY <2>2 DEF AskRescan
    <3>2. WellAsked(Req("rescan", NoBlock)) /\ Req("rescan", NoBlock).kind = "rescan"
      BY ReqIs DEF WellAsked, Events
    <3> QED
      BY <3>1, <3>2 DEF Events
  <2>3. CASE \E b \in Block : Reset(b)
    <3>1. PICK b \in Block : queue' = Append(queue, Req("reset", b)) /\ locker = "free"
      BY <2>3 DEF Reset
    <3>2. WellAsked(Req("reset", b)) /\ Req("reset", b).kind = "reset"
      BY ReqIs DEF WellAsked, Events
    <3>3. ~Outstanding
      BY <1>0, <3>1 DEF Inv1, QueueInv
    <3> QED
      BY <3>1, <3>2, <3>3 DEF Events
  <2>4. CASE \E t \in Tx : Announce(t)
    <3>1. PICK t \in Tx : queue' = Append(queue, Req("tx", t))
      BY <2>4 DEF Announce
    <3>2. WellAsked(Req("tx", t)) /\ Req("tx", t).kind = "tx"
      BY ReqIs DEF WellAsked, Events
    <3> QED
      BY <3>1, <3>2 DEF Events
  <2> QED
    BY <2>1, <2>2, <2>3, <2>4
<1> QED
  BY <1>0, <1>1, <1>2, RecBAppended

LEMMA CrashB ==
  ASSUME NEW T, Inv2(T), ~torn', Crash, NEW U
  PROVE  RecB(U)'
<1>0. Inv1 /\ C(T) /\ RecB(T)
  BY DEF Inv2
<1>1. /\ queue' = <<Req("sync", NoBlock)>> /\ run' = NoJob /\ work' = <<>>
      /\ UNCHANGED <<height, hashes, txdb, cut>>
      /\ ~\E h \in Heights \ mapped : blocks[h] # <<>>
      /\ run.stage = "back" => Head(queue).kind = "disconnect"
      /\ ~Unscanned
  BY DEF Crash, sync
<1>2. W' = W /\ Kind' = "sync" /\ run'.stage = "start"
  BY <1>1, Jobs, ReqIs DEF W, Kind
<1>3. \A a \in Anc[W] : Open(a) => Open(a)'
  <2> SUFFICES ASSUME NEW a \in Anc[W], Open(a) PROVE a = W
    BY <1>2 DEF Open, Hollow
  <2>1. CASE run.stage = "back"
    <3>1. queue # <<>> /\ Kind = "disconnect" /\ Kind = Head(queue).kind
      BY <1>0, <1>1, <2>1 DEF Inv1, StageInv, Kind
    <3>2. run.block = hashes[height - 1] /\ height - 1 \in 0..height /\ height \in Nat
      BY <1>0, <2>1, <3>1, WIs DEF Inv1, StageInv, BackInv
    <3>3. W # Genesis /\ run.block = Parent[W]
      BY <1>0, <3>2, Below DEF C
    <3>4. a \notin Anc[Parent[W]]
      BY <2>1, <3>3 DEF Open
    <3> QED
      BY <1>0, <3>3, <3>4, WIs, Parents1
  <2>2. CASE run.stage # "back"
    BY <2>2 DEF Open
  <2> QED
    BY <2>1, <2>2
<1>4. txs' = txs /\ blocks' = blocks /\ mapped' = mapped /\ \A t \in Tx : Mined(t)' <=> Mined(t)
  BY <1>1, SameRecords
<1>5. MKnownInv(U)'
  BY <1>2 DEF MKnownInv, Unsynced
<1>6. AheadInv'
  <2>1. \A t \in Tx : Mined(t) /\ Height[txs[t]] > height =>
          \A x \in TxsOf(W) : Ours(x) # {} => Mined(x)
    BY <1>1 DEF Unscanned, W
  <2>2. TxsOf(W) \subseteq Tx
    BY <1>0, WIs, TxTypes
  <2> QED
    BY <1>1, <1>2, <1>4, <2>1, <2>2 DEF AheadInv, Mined
<1>7. PrefixInv' /\ LeftInv' /\ TopInv'
  BY <1>2, Idle
<1>8. MappedInv'
  BY <1>1, <1>4 DEF MappedInv
<1> QED
  BY <1>0, <1>1, <1>3, <1>5, <1>6, <1>7, <1>8, Still

LEMMA AddTXB ==
  ASSUME NEW T, Inv2(T), AddTX
  PROVE  RecB(T)'
<1>0. Inv1 /\ C(T) /\ RecB(T)
  BY DEF Inv2
<1>1. /\ run.stage = "start" /\ work = <<>> /\ queue' = queue
      /\ UNCHANGED <<height, hashes, txdb, cut>>
  BY DEF AddTX, First, sync
<1>2. Kind = "tx" /\ run'.stage = "adding" /\ run'.block = NoBlock
  BY <1>0, AddTXInv1
<1>3. W' = W /\ Kind' = Kind /\ (ResetDue' <=> ResetDue)
  BY <1>1 DEF W, Kind, ResetDue
<1>4. \A a : Open(a) => Open(a)'
  BY <1>1, <1>2, <1>3 DEF Open, Hollow
<1>5. txs' = txs /\ \A t \in Tx : Mined(t)' <=> Mined(t)
  BY <1>1, SameRecords
<1>6. MKnownInv(T)'
  <2>1. \A t \in Tx : Mined(t) => txs[t] \in Anc[T[1]]
    BY <1>0, <1>1, <1>2, MinedKnown DEF Unsynced
  <2> QED
    BY <1>5, <2>1 DEF MKnownInv, Mined
<1>7. AheadInv'
  BY <1>0, <1>1, <1>3, <1>5 DEF RecB, AheadInv, Mined
<1>8. PrefixInv' /\ LeftInv' /\ TopInv'
  BY <1>2 DEF PrefixInv, LeftInv, TopInv
<1>9. MappedInv'
  BY <1>0, <1>1, StillMapped DEF RecB
<1> QED
  BY <1>0, <1>1, <1>4, <1>6, <1>7, <1>8, <1>9, Still

LEMMA AddedTXB ==
  ASSUME NEW T, Inv2(T), AddedTX
  PROVE  RecB(Tail(T))'
<1>0. Inv1 /\ C(T) /\ RecB(T)
  BY DEF Inv2
<1>1. /\ Finish /\ work = <<>> /\ run.stage = "adding" /\ queue # <<>> /\ Head(queue).kind = "tx"
      /\ UNCHANGED <<height, hashes, txdb, cut>>
  BY DEF AddedTX, First, sync
<1>2. Kind = "tx" /\ run.block = NoBlock
  BY <1>0, <1>1 DEF Kind, Inv1, StageInv, AddingInv
<1>3. T[2] = T[1] /\ TrailInv(T)
  BY <1>0, <1>1, HeadStep DEF C, Step
<1>4. \A t \in Tx : Mined(t) => txs[t] \in Anc[T[1]]
  BY <1>0, <1>1, <1>2, MinedKnown DEF Unsynced
<1>5. Hollow => ResetDue
  BY <1>0, <1>1, <1>2, WIs DEF Hollow
<1> QED
  BY <1>0, <1>1, <1>2, <1>3, <1>4, <1>5, RecBFinished

LEMMA AddBlockB ==
  ASSUME NEW T, Inv2(T), AddBlock
  PROVE  RecB(T)'
<1>0. Inv1 /\ C(T) /\ RecB(T)
  BY DEF Inv2
<1>1. /\ run.stage = "start" /\ work = <<>> /\ UNCHANGED <<height, hashes, txdb, cut>>
  BY DEF AddBlock, First, sync
<1>2. /\ Kind = "connect" /\ Kind' = Kind /\ queue' = queue /\ Head(queue).of \in Block
      /\ \/ Parent[Head(queue).of] = W /\ run' = Adding(Head(queue).of)
         \/ run' = Waiting
  BY <1>0, AddBlockC
<1>3. W' = W /\ W \in Block /\ (ResetDue' <=> ResetDue)
  BY <1>0, <1>1, <1>2, WIs DEF W, ResetDue
<1>4. \A a : Open(a) => Open(a)'
  <2>1. run'.stage \in {"adding", "wait"}
    BY <1>2, Jobs
  <2> QED
    BY <1>1, <1>2, <1>3, <2>1 DEF Open, Hollow
<1>5. txs' = txs /\ \A t \in Tx : Mined(t)' <=> Mined(t)
  BY <1>1, SameRecords
<1>6. MKnownInv(T)'
  <2>1. \A t \in Tx : Mined(t) => txs[t] \in Anc[T[1]]
    BY <1>0, <1>1, <1>2, MinedKnown DEF Unsynced
  <2> QED
    BY <1>5, <2>1 DEF MKnownInv, Mined
<1>7. CASE run' = Waiting
  <2>1. run'.stage = "wait"
    BY <1>7, Jobs
  <2>2. AheadInv'
    BY <1>0, <1>1, <1>3, <1>5 DEF RecB, AheadInv, Mined
  <2>3. PrefixInv' /\ LeftInv' /\ TopInv'
    BY <2>1, Idle
  <2>4. MappedInv'
    BY <1>0, <1>1, StillMapped DEF RecB
  <2> QED
    BY <1>0, <1>1, <1>4, <1>6, <2>2, <2>3, <2>4, Still
<1>8. CASE run' = Adding(Head(queue).of) /\ Parent[Head(queue).of] = W
  <2> DEFINE b == Head(queue).of
  <2>1. run'.stage = "adding" /\ run'.block = b /\ run'.rest = BlockTxs[b] /\ b \in Block
    BY <1>2, <1>8, Jobs
  <2>2. b # W /\ b # NoBlock
    BY <1>3, <1>8, <2>1, Child, TreeAssumption
  <2>3. AheadInv'
    BY <1>3, <2>1, <2>2 DEF AheadInv
  <2>4. Done' = 0
    <3>1. Len(BlockTxs[b]) \in Nat
      BY <2>1, TxTypes
    <3> QED
      BY <2>1, <3>1 DEF Done
  <2>5. PrefixInv' /\ LeftInv' /\ TopInv'
    BY <2>1, <2>4 DEF PrefixInv, LeftInv, TopInv
  <2>6. MappedInv'
    BY <1>0, <1>1, StillMapped DEF RecB
  <2> QED
    BY <1>0, <1>1, <1>4, <1>6, <2>3, <2>5, <2>6, Still
<1> QED
  BY <1>2, <1>7, <1>8

LEMMA ScanBlockB ==
  ASSUME NEW T, Inv2(T), ScanBlock
  PROVE  RecB(T)'
<1>0. Inv1 /\ C(T) /\ RecB(T)
  BY DEF Inv2
<1>1. /\ run.stage = "scan" /\ work = <<>> /\ UNCHANGED <<height, hashes, txdb, cut>>
  BY DEF ScanBlock, sync
<1>2. /\ Kind \in {"rescan", "sync"} /\ Kind' = Kind /\ queue' = queue
      /\ run' = Adding(run.block) /\ run.block \in Block
  BY <1>0, ScanBlockC
<1>3. W' = W /\ (ResetDue' <=> ResetDue)
  BY <1>1, <1>2 DEF W, ResetDue
<1>4. run'.stage = "adding" /\ run'.block = run.block /\ run'.rest = BlockTxs[run.block]
  BY <1>2, Jobs
<1>5. \A a : Open(a) => Open(a)'
  BY <1>1, <1>2, <1>3, <1>4 DEF Open, Hollow
<1>6. txs' = txs /\ \A t \in Tx : Mined(t)' <=> Mined(t)
  BY <1>1, SameRecords
<1>7. MKnownInv(T)'
  <2>1. \A t \in Tx : Mined(t) => txs[t] \in Anc[T[1]]
    BY <1>0, <1>1, MinedKnown DEF Unsynced
  <2> QED
    BY <1>6, <2>1 DEF MKnownInv, Mined
<1>8. AheadInv'
  BY <1>0, <1>1, <1>3, <1>4, <1>6 DEF RecB, AheadInv, Mined
<1>9. Done' = 0
  <2>1. Len(BlockTxs[run.block]) \in Nat
    BY <1>2, TxTypes
  <2> QED
    BY <1>4, <2>1 DEF Done
<1>10. PrefixInv' /\ LeftInv' /\ TopInv'
  BY <1>4, <1>9 DEF PrefixInv, LeftInv, TopInv
<1>11. MappedInv'
  BY <1>0, <1>1, StillMapped DEF RecB
<1> QED
  BY <1>0, <1>1, <1>5, <1>7, <1>8, <1>10, <1>11, Still

\* A scan begins, or ends at once.
LEMMA ScanStartB ==
  ASSUME NEW T, Inv2(T), ScanStart
  PROVE  \/ C(T)' /\ RecB(T)'
         \/ C(Tail(T))' /\ RecB(Tail(T))'
<1>0. Inv1 /\ C(T) /\ RecB(T) /\ TrailInv(T)
  BY DEF Inv2, C
<1>1. /\ run.stage = "wait" /\ work = <<>> /\ UNCHANGED <<height, hashes, txdb>>
      /\ \/ queue' = queue /\ cut' = cut /\ run' = Scanning(W)
         \/ W \notin Main /\ Finish /\ cut' = TRUE
  BY DEF ScanStart, sync, W
<1>2. /\ Kind \in {"rescan", "sync"} /\ W \in Anc[T[1]]
      /\ \/ C(T)' /\ queue' = queue /\ Kind' = Kind /\ run' = Scanning(W)
         \/ C(Tail(T))' /\ Finish /\ T[2] = T[1] /\ queue # <<>>
  BY <1>0, ScanStartC
<1>3. ~Outstanding
  BY <1>0, ScanStartInv1
<1>4. \A t \in Tx : Mined(t) => txs[t] \in Anc[T[1]]
  BY <1>0, <1>1, <1>3, MinedKnown DEF Unsynced
<1>5. W' = W /\ W \in Block
  BY <1>0, <1>1, WIs DEF W
<1>6. txs' = txs /\ \A t \in Tx : Mined(t)' <=> Mined(t)
  BY <1>1, SameRecords
<1>7. CASE queue' = queue /\ run' = Scanning(W)
  <2>1. run'.stage = "scan" /\ run'.block = W /\ Kind' = Kind
    BY <1>7, Jobs DEF Kind
  <2>2. \A a : Open(a) => Open(a)'
    BY <1>1, <1>5, <2>1 DEF Open, Hollow
  <2>3. MKnownInv(T)'
    BY <1>4, <1>6 DEF MKnownInv, Mined
  <2>4. AheadInv'
    BY <1>0, <1>1, <1>5, <1>6 DEF RecB, AheadInv, Mined
  <2>5. PrefixInv' /\ LeftInv' /\ TopInv'
    BY <2>1, Idle
  <2>6. MappedInv'
    BY <1>0, <1>1, StillMapped DEF RecB
  <2>7. C(T)'
    <3>1. queue # <<>>
      BY <1>0, <1>1 DEF Inv1, StageInv
    <3>2. queue' # Tail(queue)
      <4>1. queue \in Seq(Request)
        BY <1>0, WIs
      <4>2. Len(Tail(queue)) = Len(queue) - 1 /\ Len(queue) \in Nat
        BY <3>1, <4>1, Tails
      <4> QED
        BY <1>7, <4>2
    <3> QED
      BY <1>2, <3>2 DEF Finish
  <2>8. cut => cut'
    BY <1>1
  <2>9. RecB(T)'
    BY <1>0, <1>1, <2>2, <2>3, <2>4, <2>5, <2>6, <2>8, Still
  <2> QED
    BY <2>7, <2>9
<1>8. CASE W \notin Main /\ Finish /\ cut' = TRUE
  <2>1. queue # <<>> /\ Head(queue).kind # "reset"
    BY <1>2 DEF Kind
  <2>2. queue' # queue
    <3>1. queue \in Seq(Request)
      BY <1>0, WIs
    <3>2. Len(Tail(queue)) = Len(queue) - 1 /\ Len(queue) \in Nat
      BY <2>1, <3>1, Tails
    <3> QED
      BY <1>8, <3>2 DEF Finish
  <2>3. C(Tail(T))' /\ T[2] = T[1]
    BY <1>2, <2>2
  <2>4. ResetDue
    BY <1>0, <1>2, <1>3, <1>8, ResetAhead
  <2>5. RecB(Tail(T))'
    BY <1>0, <1>1, <1>4, <1>8, <2>1, <2>3, <2>4, RecBFinished
  <2> QED
    BY <2>3, <2>5
<1> QED
  BY <1>1, <1>7, <1>8

LEMMA LeaveB ==
  ASSUME NEW T, Inv2(T), ~torn', ScanEnd \/ Abort
  PROVE  RecB(Tail(T))'
<1>0. Inv1 /\ C(T) /\ RecB(T) /\ TrailInv(T)
  BY DEF Inv2, C
<1>1. run.stage = "scan" /\ UNCHANGED <<height, hashes, txdb>> /\ (cut => cut')
  BY DEF ScanEnd, Abort, sync
<1>2. /\ Finish /\ queue # <<>> /\ T[2] = T[1] /\ Kind \in {"rescan", "sync"} /\ W \in Main
      /\ Head(queue).kind # "reset"
  BY <1>0, LeaveC DEF Kind
<1>3. \A t \in Tx : Mined(t) => txs[t] \in Anc[T[1]]
  BY <1>0, <1>1, MinedKnown DEF Unsynced
<1>4. work' = work /\ run.stage # "back" /\ run.stage # "adding"
  BY <1>1 DEF ScanEnd, Abort
<1>5. W \in Block /\ W # NoBlock
  BY <1>0, WIs
<1>6. CASE ScanEnd
  <2>1. run.block = NoBlock
    BY <1>6 DEF ScanEnd
  <2>2. Hollow => ResetDue
    BY <1>1, <1>5, <2>1 DEF Hollow
  <2> QED
    BY <1>0, <1>1, <1>2, <1>3, <1>4, <2>2, RecBFinished
<1>7. CASE Abort
  <2>1. cut' /\ ~Behind
    BY <1>7 DEF Abort
  <2>2. ~\E t \in TxsOf(W) : IsPending(t)
    <3>1. height \in 0..height
      BY <1>0, WIs
    <3> QED
      BY <1>2, <2>1, <3>1 DEF Behind, W, IsPending
  <2> QED
    BY <1>0, <1>1, <1>2, <1>3, <1>4, <2>1, <2>2, RecBFinished
<1> QED
  BY <1>6, <1>7

\* A transaction of a block that the wallet passes over needs no batch.
LEMMA PassedOver ==
  ASSUME NEW T, Inv2(T), run.stage = "adding", run.block \in Block,
         NEW t \in TxsOf(run.block), t \in Tx, ~Concerns(t) \/ Mined(t)
  PROVE  Served(t)
<1>0. /\ Inv1 /\ RecA /\ RecB(T) /\ TypeOK /\ TxDBTypeOK
      /\ Inputs[t] \subseteq Coin /\ Inputs[t] # {}
  BY TxTypes DEF Inv2, Inv1, TypeOK
<1>1. \A x \in Tx : IsPending(x) => Exists(x) /\ ~Mined(x)
  BY <1>0, States
<1>2. CASE Mined(t)
  <2>1. Exists(t) /\ ~IsPending(t)
    BY <1>0, <1>2, States
  <2>2. \A x \in Rivals(t) : ~IsPending(x)
    BY <1>0, <1>1, <2>1 DEF RecA, RivalInv, Rivals
  <2> QED
    BY <1>2, <2>1, <2>2 DEF Served
<1>3. CASE ~Concerns(t)
  <2>1. Inputs[t] \cap watch = {} /\ Ours(t) = {}
    BY <1>3 DEF Concerns
  <2>2. \A x \in Tx : IsPending(x) => Inputs[x] \cap Inputs[t] = {}
    BY <1>0, <2>1 DEF RecA, PSpentInv
  <2>3. ~IsPending(t) /\ \A x \in Rivals(t) : ~IsPending(x)
    BY <1>0, <2>2 DEF Rivals
  <2>4. ASSUME Matters(t) PROVE Mined(t)
    <3>1. PICK c \in Inputs[t] \cap Mine : Maker[c] \in Tx /\ Exists(Maker[c])
      BY <2>1, <2>4 DEF Matters, Known
    <3>2. c \in Coin /\ c \notin credits
      BY <1>0, <2>1 DEF RecA, WatchInv
    <3>3. PICK y \in Tx : Mined(y) /\ <<y, c>> \in undo
      BY <1>0, <3>1, <3>2 DEF RecA, CreditInv
    <3>4. c \in Inputs[y] /\ y \in TxsOf(txs[y])
      BY <1>0, <3>1, <3>3 DEF RecA, RecB, UndoInv, BelongInv
    <3>5. PICK L \in Block : FullyValid(L) /\ txs[y] \in Anc[L] /\ run.block \in Anc[L]
      <4>1. run.block # NoBlock
        BY <1>0, WIs
      <4> QED
        BY <3>3, <4>1, OneLine
    <3>6. t = y
      BY <3>1, <3>4, <3>5, OneSpender
    <3> QED
      BY <3>3, <3>6
  <2> QED
    BY <2>3, <2>4 DEF Served
<1> QED
  BY <1>2, <1>3

LEMMA AddBlockTXB ==
  ASSUME NEW T, Inv2(T), AddBlockTX
  PROVE  RecB(T)'
<1>0. Inv1 /\ C(T) /\ RecB(T) /\ Db
  BY Inv1Is DEF Inv2
<1>1. /\ run.stage = "adding" /\ work = <<>> /\ queue' = queue
      /\ work' = Adds(Head(run.rest), run.block)
      /\ UNCHANGED <<height, hashes, txdb, cut>>
  BY DEF AddBlockTX, sync
<1>2. /\ Kind # "tx" /\ run.block \in Block /\ Head(run.rest) \in Tx
      /\ Done + 1 \in 1..Len(BlockTxs[run.block])
      /\ Head(run.rest) = BlockTxs[run.block][Done + 1] /\ Done' = Done + 1 /\ Done \in Nat
      /\ run'.stage = "adding" /\ run'.block = run.block
  BY <1>0, AddBlockTXInv1 DEF InBlock
<1>3. W' = W /\ Kind' = Kind /\ (ResetDue' <=> ResetDue)
  BY <1>1 DEF W, Kind, ResetDue
<1>4. \A a : Open(a) => Open(a)'
  BY <1>1, <1>2, <1>3 DEF Open, Hollow
<1>5. /\ txs' = txs
      /\ \A t \in Tx : (Mined(t)' <=> Mined(t)) /\ (Served(t)' <=> Served(t))
  BY <1>1, SameRecords
<1>6. MKnownInv(T)'
  <2>1. \A t \in Tx : Mined(t) =>
           txs[t] \in Anc[T[1]] \/ (Kind = "connect" /\ txs[t] = run.block)
    BY <1>0, <1>1 DEF RecB, MKnownInv, Unsynced
  <2> QED
    BY <1>2, <1>3, <1>5, <2>1 DEF MKnownInv, Mined
<1>7. AheadInv'
  BY <1>0, <1>1, <1>2, <1>3, <1>5 DEF RecB, AheadInv, Mined
<1>8. LeftInv' /\ TopInv'
  BY <1>2 DEF LeftInv, TopInv
<1>9. MappedInv'
  BY <1>0, <1>1, StillMapped DEF RecB
<1>10. PrefixInv'
  <2> SUFFICES ASSUME NEW i \in 1..(Done + 1), NEW t, t = BlockTxs[run.block][i]
               PROVE  InWork(t)' \/ Served(t)'
    BY <1>2 DEF PrefixInv
  <2>1. i \in 1..Len(BlockTxs[run.block])
    <3>1. Len(BlockTxs[run.block]) \in Nat
      BY <1>2, TxTypes
    <3> QED
      BY <1>2, <3>1
  <2>2. t \in Tx /\ t \in TxsOf(run.block)
    BY <1>2, <2>1, TxTypes
  <2>3. CASE i # Done + 1
    <3>1. i \in 1..Done
      BY <1>2, <2>3
    <3>2. run.block # NoBlock
      BY <1>0, <1>2, WIs
    <3>3. InWork(t) \/ Served(t)
      BY <1>0, <1>1, <3>1, <3>2 DEF RecB, PrefixInv
    <3>4. ~InWork(t)
      BY <1>1 DEF InWork
    <3> QED
      BY <1>5, <2>2, <3>3, <3>4
  <2>4. CASE i = Done + 1
    <3>1. work' = Adds(t, run.block)
      BY <1>1, <1>2, <2>4
    <3>2. run.block # NoBlock /\ run.block \in Block \cup {NoBlock}
      BY <1>0, <1>2, WIs
    <3>3. /\ work' \in Seq(Batches)
          /\ ~Concerns(t) \/ Mined(t) \/ Confirms(Adds(t, run.block), t) \/ Inserts(Adds(t, run.block), t)
      BY <1>0, <2>2, <3>1, <3>2, AddsIs
    <3>4. CASE ~Concerns(t) \/ Mined(t)
      <4>1. Served(t)
        BY <1>1, <1>2, <2>2, <3>4, PassedOver
      <4> QED
        BY <1>5, <2>2, <4>1
    <3>5. CASE Confirms(Adds(t, run.block), t)
      <4>1. Len(work') = 1 /\ work'[1] = <<"confirm", t>>
        BY <3>1, <3>5 DEF Confirms
      <4>2. InWork(t)'
        BY <4>1 DEF InWork
      <4> QED
        BY <4>2
    <3>6. CASE Inserts(Adds(t, run.block), t)
      <4>1. work' # <<>> /\ work'[Len(work')] = <<"insert", t>>
        BY <3>1, <3>6 DEF Inserts
      <4>2. Len(work') \in 1..Len(work')
        BY <3>3, <4>1, Tails
      <4>3. InWork(t)'
        BY <4>1, <4>2 DEF InWork
      <4> QED
        BY <4>3
    <3> QED
      BY <3>3, <3>4, <3>5, <3>6
  <2> QED
    BY <2>3, <2>4
<1> QED
  BY <1>0, <1>1, <1>4, <1>6, <1>7, <1>8, <1>9, <1>10, Still

LEMMA AddedBlockB ==
  ASSUME NEW T, Inv2(T), AddedBlock
  PROVE  \/ C(T)' /\ RecB(T)'
         \/ C(Tail(T))' /\ RecB(Tail(T))'
<1>0. Inv1 /\ C(T) /\ RecB(T) /\ TrailInv(T)
  BY DEF Inv2, C
<1>1. /\ run.stage = "adding" /\ run.block # NoBlock /\ run.rest = <<>> /\ work = <<>>
      /\ UNCHANGED <<txdb, cut>>
  BY DEF AddedBlock
<1>2. /\ W' = run.block /\ (run.block = W \/ Parent[run.block] = W) /\ run.block \in Block
      /\ \/ /\ locker = "scan" /\ C(T)' /\ queue' = queue /\ Kind' = Kind /\ Kind \in {"rescan", "sync"}
            /\ run' = Scanning(After(run.block)) /\ run.block \in Anc[T[1]]
         \/ /\ locker # "scan" /\ C(Tail(T))' /\ Kind = "connect" /\ Finish /\ run.block = T[2]
            /\ queue # <<>> /\ Parent[run.block] = T[1]
  BY <1>0, AddedBlockC
<1>3. height' = Height[run.block] /\ Kind # "tx"
  BY <1>0, AddedBlockInv1
<1>4. /\ txs' = txs
      /\ \A t \in Tx : /\ Mined(t)' <=> Mined(t)
                       /\ IsPending(t)' <=> IsPending(t)
                       /\ Matters(t)' <=> Matters(t)
  BY <1>1, SameRecords
<1>5. W \in Block /\ Anc[W] \subseteq Block /\ TxsOf(run.block) \subseteq Tx
  BY <1>0, <1>2, WIs, Lines, TxTypes
<1>6. run'.stage \in {"scan", "start"} /\ (run'.stage = "start" => locker # "scan")
  BY <1>2, Jobs DEF Finish
<1>7. \A a \in Anc[run.block] : a = run.block \/ a \in Anc[W]
  BY <1>2, <1>5, Child
<1>8. \A t \in TxsOf(run.block) : Served(t)
  <2> TAKE t \in TxsOf(run.block)
  <2>1. PICK i \in 1..Len(BlockTxs[run.block]) : t = BlockTxs[run.block][i]
    BY <1>2, TxTypes
  <2>2. Done = Len(BlockTxs[run.block])
    <3>1. Len(BlockTxs[run.block]) \in Nat
      BY <1>2, TxTypes
    <3> QED
      BY <1>1, <3>1 DEF Done
  <2>3. InWork(t) \/ Served(t)
    BY <1>0, <1>1, <2>1, <2>2 DEF RecB, PrefixInv
  <2>4. ~InWork(t)
    BY <1>1 DEF InWork
  <2> QED
    BY <2>3, <2>4
<1>9. \A a \in Anc[run.block] : a # run.block => ~Open(a)
  <2>1. CASE run.block = W
    BY <1>1, <2>1 DEF Open
  <2>2. CASE run.block # W
    BY <1>1, <1>3, <2>2, NotOpen
  <2> QED
    BY <2>1, <2>2
<1>10. BelongInv'
  <2> SUFFICES ASSUME NEW t \in Tx, Mined(t)
               PROVE  txs[t] \in Anc[run.block] \/ Parent[txs[t]] = run.block
    BY <1>0, <1>2, <1>4 DEF RecB, BelongInv, Mined
  <2>1. txs[t] \in Block /\ (txs[t] \in Anc[W] \/ Parent[txs[t]] = W)
    BY <1>0 DEF RecB, BelongInv, Mined
  <2>2. CASE run.block = W
    BY <2>1, <2>2
  <2>3. CASE Parent[run.block] = W /\ txs[t] \in Anc[W]
    BY <1>2, <1>5, <2>3, Child
  <2>4. CASE Parent[run.block] = W /\ Parent[txs[t]] = W
    <3>1. PICK L \in Block : txs[t] \in Anc[L] /\ run.block \in Anc[L]
      BY <1>1, OneLine
    <3>2. Height[txs[t]] = Height[run.block]
      BY <1>2, <1>5, <2>1, <2>4, Child
    <3>3. txs[t] = run.block
      BY <3>1, <3>2, Lines
    <3> QED
      BY <1>2, <3>3, Lines
  <2> QED
    BY <1>2, <2>1, <2>2, <2>3, <2>4
<1>11. AheadInv'
  <2>1. \A x \in TxsOf(run.block) : Ours(x) # {} => Mined(x)
    BY <1>8 DEF Served, Matters
  <2> QED
    BY <1>2, <1>4, <1>5, <2>1 DEF AheadInv, Mined
<1>12. PendInv'
  <2> SUFFICES ASSUME NEW t \in Tx, IsPending(t), NEW a \in Anc[run.block], t \in TxsOf(a) PROVE FALSE
    BY <1>2, <1>4 DEF PendInv, IsPending
  <2>1. a # run.block
    BY <1>8 DEF Served
  <2>2. a \in Anc[W] /\ ~Open(a)
    BY <1>7, <1>9, <2>1
  <2> QED
    BY <1>0, <2>2 DEF RecB, PendInv
<1>13. CompleteInv'
  <2> SUFFICES ASSUME ~cut, NEW a \in Anc[run.block] \ Anc[Start], NEW t \in TxsOf(a), Matters(t)'
               PROVE  Mined(t)'
    BY <1>1, <1>2 DEF CompleteInv, Mined
  <2>1. t \in Tx
    BY <1>2, Lines, TxTypes
  <2>2. Matters(t)
    BY <1>4, <2>1
  <2>3. Mined(t)
    <3>1. CASE a = run.block
      BY <1>8, <2>2, <3>1 DEF Served
    <3>2. CASE a # run.block
      BY <1>0, <1>7, <1>9, <2>2, <3>2 DEF RecB, CompleteInv
    <3> QED
      BY <3>1, <3>2
  <2> QED
    BY <1>4, <2>1, <2>3
<1>14. NoRivalInv'
  <2> SUFFICES ASSUME NEW t \in Tx, IsPending(t), NEW a \in Anc[run.block], NEW x \in Rivals(t) \cap TxsOf(a)
               PROVE  FALSE
    BY <1>2, <1>4 DEF NoRivalInv, IsPending
  <2>1. CASE a = run.block
    <3>1. Served(x) /\ t \in Rivals(x)
      BY <1>8, <2>1 DEF Rivals
    <3> QED
      BY <3>1 DEF Served
  <2>2. CASE a # run.block
    BY <1>0, <1>7, <2>2 DEF RecB, NoRivalInv
  <2> QED
    BY <2>1, <2>2
<1>15. PrefixInv' /\ LeftInv' /\ TopInv'
  BY <1>6, Idle
<1>16. MappedInv'
  BY <1>0, <1>1, StillMapped DEF RecB
<1>17. /\ T[1] \in Block
       /\ \A t \in Tx : Mined(t) => txs[t] \in Anc[T[1]] \/ (Kind = "connect" /\ txs[t] = run.block)
  BY <1>0, <1>1, TrailEnds DEF RecB, MKnownInv, Unsynced
<1>18. CASE locker = "scan"
  <2>1. MKnownInv(T)'
    BY <1>2, <1>4, <1>17, <1>18 DEF MKnownInv, Mined
  <2> QED
    BY <1>2, <1>10, <1>11, <1>12, <1>13, <1>14, <1>15, <1>16, <1>18, <2>1 DEF RecB
<1>19. CASE locker # "scan"
  <2>1. Tail(T)[1] = T[2]
    <3>1. T \in Seq(Block) /\ Len(T) = Len(queue) + 1 /\ queue \in Seq(Request) /\ queue # <<>>
      BY <1>0, <1>2, <1>19, WIs DEF TrailInv
    <3>2. T # <<>> /\ Len(queue) \in Nat \ {0}
      BY <3>1
    <3>3. 1 \in 1..(Len(T) - 1)
      BY <3>1, <3>2
    <3>4. Tail(T)[1] = T[1 + 1] /\ 1 + 1 = 2
      BY <3>1, <3>2, <3>3, Tails
    <3> QED
      BY <3>4
  <2>2. \A t \in Tx : Mined(t) => txs[t] \in Anc[T[2]]
    <3>1. Anc[run.block] = Anc[T[1]] \cup {run.block}
      BY <1>2, <1>17, <1>19, Child
    <3> QED
      BY <1>2, <1>17, <1>19, <3>1
  <2>3. MKnownInv(Tail(T))'
    BY <1>4, <2>1, <2>2 DEF MKnownInv, Mined
  <2> QED
    BY <1>2, <1>10, <1>11, <1>12, <1>13, <1>14, <1>15, <1>16, <1>19, <2>3 DEF RecB
<1> QED
  BY <1>18, <1>19

\* The wallet starts to go back.
LEMMA GoesBackB ==
  ASSUME NEW T, Inv2(T), run.stage = "start", work = <<>>,
         UNCHANGED <<height, hashes, txdb, queue, work, cut>>,
         NEW h \in 0..(height - 1), NEW above, Back(h, above),
         \A t \in Tx : Mined(t) /\ Height[txs[t]] > h => Height[txs[t]] \in above
  PROVE  RecB(T)'
<1>0. Inv1 /\ C(T) /\ RecB(T)
  BY DEF Inv2
<1>1. /\ run'.stage = "back" /\ run'.block = hashes[h] /\ run'.left = above \cap mapped
      /\ hashes[h] \in Block /\ Height[hashes[h]] = h
  BY <1>0, BackIs
<1>2. W' = W /\ Kind' = Kind /\ height \in Nat /\ Height[W] = height
  BY <1>0, WIs DEF W, Kind
<1>3. \A a : Open(a) => Open(a)'
  <2>1. W \notin Anc[hashes[h]]
    BY <1>1, <1>2, Lines
  <2> QED
    BY <1>1, <2>1 DEF Open
<1>4. /\ txs' = txs /\ \A t \in Tx : (Mined(t)' <=> Mined(t))
  BY SameRecords
<1>5. MKnownInv(T)'
  <2>1. CASE Kind = "sync"
    BY <1>1, <1>2, <2>1 DEF MKnownInv, Unsynced
  <2>2. CASE Kind # "sync"
    <3>1. \A t \in Tx : Mined(t) => txs[t] \in Anc[T[1]]
      BY <1>0, <2>2, MinedKnown DEF Unsynced
    <3> QED
      BY <1>4, <3>1 DEF MKnownInv, Mined
  <2> QED
    BY <2>1, <2>2
<1>6. AheadInv' /\ PrefixInv'
  BY <1>1 DEF AheadInv, PrefixInv
<1>7. \A n \in Heights : ~Undoes(n) /\ ~Undoes(n)'
  BY DEF Undoes
<1>8. TopInv'
  BY <1>7 DEF TopInv
<1>9. LeftInv'
  <2> SUFFICES ASSUME NEW t \in Tx, Mined(t), ~(Height[txs[t]] <= h)
               PROVE  Height[txs[t]] \in run'.left
    BY <1>1, <1>4 DEF LeftInv, Mined
  <2>1. Height[txs[t]] \in Heights /\ Height[txs[t]] \in Nat /\ blocks[Height[txs[t]]] # <<>>
    BY <1>0, MinedIs
  <2>2. Height[txs[t]] \in above
    BY <1>2, <2>1
  <2>3. Height[txs[t]] \in mapped
    BY <1>0, <1>7, <2>1 DEF RecB, MappedInv
  <2> QED
    BY <1>1, <2>2, <2>3
<1>10. MappedInv'
  BY <1>0, StillMapped DEF RecB
<1> QED
  BY <1>0, <1>3, <1>5, <1>6, <1>8, <1>9, <1>10, Still

\* All that is mined above h is above h.
LEMMA AllAbove ==
  ASSUME Inv1, NEW h
  PROVE  \A t \in Tx : Mined(t) /\ Height[txs[t]] > h => Height[txs[t]] \in Above(h)
BY MinedIs DEF Above

LEMMA RemoveBlockB ==
  ASSUME NEW T, Inv2(T), ~torn', RemoveBlock
  PROVE  \/ C(T)' /\ RecB(T)'
         \/ C(Tail(T))' /\ RecB(Tail(T))'
<1> DEFINE b == Head(queue).of
<1>0. Inv1 /\ C(T) /\ RecB(T) /\ TrailInv(T)
  BY DEF Inv2, C
<1>1. /\ run.stage = "start" /\ work = <<>> /\ UNCHANGED <<height, hashes, txdb, work, cut>>
      /\ Head(queue).kind = "disconnect"
      /\ Height[b] # height => torn' = (torn \/ Ahead(Parent[b]))
  BY DEF RemoveBlock, First, sync
<1>2. /\ Kind = "disconnect" /\ b = T[1] /\ T[2] = Parent[b] /\ b # Genesis /\ b \in Block
      /\ \/ /\ Height[b] # height /\ C(Tail(T))' /\ W \in Anc[T[2]] /\ Finish /\ queue # <<>>
         \/ /\ b = W /\ C(T)' /\ Back(height - 1, {height}) /\ queue' = queue /\ Kind' = Kind
            /\ height - 1 \in 0..(height - 1)
  BY <1>0, RemoveBlockC
<1>3. \A t \in Tx : Mined(t) => txs[t] \in Anc[b] /\ txs[t] \in Block
  BY <1>0, <1>1, <1>2, MinedKnown DEF Unsynced, Mined
<1>4. W \in Block /\ Height[W] = height /\ height \in Nat
  BY <1>0, WIs
<1> HIDE DEF b
<1>5. CASE Height[b] # height /\ C(Tail(T))' /\ W \in Anc[T[2]] /\ Finish /\ queue # <<>>
  <2>1. ~Ahead(Parent[b])
    BY <1>1, <1>5
  <2>2. /\ Anc[b] = Anc[Parent[b]] \cup {b} /\ b \notin Anc[Parent[b]] /\ Parent[b] \in Block
        /\ Height[b] = Height[Parent[b]] + 1
    BY <1>2, Parents1
  <2>3. Height[b] > height
    BY <1>2, <1>4, <1>5, <2>2, Lines
  <2>4. \A t \in Tx : Mined(t) => txs[t] \in Anc[T[2]]
    BY <1>2, <1>3, <2>1, <2>2, <2>3 DEF Ahead
  <2>5. Hollow => ResetDue
    BY <1>1, <1>2 DEF Hollow
  <2>6. RecB(Tail(T))'
    BY <1>0, <1>1, <1>5, <2>4, <2>5, RecBFinished
  <2> QED
    BY <1>5, <2>6
<1>6. CASE /\ b = W /\ C(T)' /\ Back(height - 1, {height}) /\ queue' = queue
           /\ height - 1 \in 0..(height - 1)
  <2>1. \A t \in Tx : Mined(t) /\ Height[txs[t]] > height - 1 => Height[txs[t]] \in {height}
    <3> TAKE t \in Tx
    <3> HAVE Mined(t) /\ Height[txs[t]] > height - 1
    <3>1. Height[txs[t]] <= height /\ Height[txs[t]] \in Nat
      BY <1>3, <1>4, <1>6, Lines
    <3> QED
      BY <1>4, <3>1
  <2>2. RecB(T)'
    BY <1>1, <1>6, <2>1, GoesBackB
  <2> QED
    BY <1>6, <2>2
<1> QED
  BY <1>2, <1>5, <1>6

LEMMA ResetChainB ==
  ASSUME NEW T, Inv2(T), ~torn', ResetChain
  PROVE  \/ C(T)' /\ RecB(T)'
         \/ C(Tail(T))' /\ RecB(Tail(T))'
<1> DEFINE b == Head(queue).of
<1>0. Inv1 /\ C(T) /\ RecB(T) /\ TrailInv(T)
  BY DEF Inv2, C
<1>1. /\ run.stage = "start" /\ work = <<>> /\ UNCHANGED <<height, hashes, txdb, work, cut>>
      /\ Head(queue).kind = "reset"
      /\ Height[b] < height \/ torn' = (torn \/ Ahead(b))
  BY DEF ResetChain, First, sync
<1>2. /\ Kind = "reset" /\ b = T[2] /\ b \in Anc[T[1]] /\ b \in Block /\ T[1] \in Block
      /\ W \in Anc[T[1]]
      /\ \/ /\ Height[b] >= height /\ C(Tail(T))' /\ W \in Anc[b] /\ Finish /\ queue # <<>>
         \/ /\ Height[b] < height /\ C(T)' /\ Back(Height[b], Above(Height[b])) /\ queue' = queue /\ Kind' = Kind
            /\ Height[b] \in 0..(height - 1)
  BY <1>0, ResetChainC
<1>3. \A t \in Tx : Mined(t) => txs[t] \in Anc[T[1]] /\ txs[t] \in Block
  BY <1>0, <1>1, <1>2, MinedKnown DEF Unsynced, Mined
<1>4. height \in Nat /\ Height[b] \in Nat
  BY <1>0, <1>2, WIs, HeightIn
<1>5. CASE Height[b] >= height /\ C(Tail(T))' /\ W \in Anc[b] /\ Finish /\ queue # <<>>
  <2>0. ~(Height[b] < height)
    BY <1>4, <1>5
  <2>1. ~Ahead(b)
    BY <1>1, <2>0, Zenon
  <2>2. \A t \in Tx : Mined(t) => txs[t] \in Anc[T[2]]
    <3> SUFFICES ASSUME NEW t \in Tx, Mined(t), txs[t] \notin Anc[b] PROVE FALSE
      BY <1>2
    <3>1. txs[t] \in Anc[T[1]] /\ txs[t] \in Block /\ Height[txs[t]] \in Nat
      BY <1>3, HeightIn
    <3>2. Height[txs[t]] <= Height[b]
      BY <1>4, <1>5, <2>1, <3>1 DEF Ahead
    <3> QED
      BY <1>2, <3>1, <3>2, Lines
  <2>3. Hollow => ResetDue
    BY <1>1, <1>2 DEF Hollow
  <2>4. RecB(Tail(T))'
    BY <1>0, <1>1, <1>5, <2>2, <2>3, RecBFinished
  <2> QED
    BY <1>5, <2>4
<1>6. CASE /\ C(T)' /\ Back(Height[b], Above(Height[b])) /\ queue' = queue
           /\ Height[b] \in 0..(height - 1)
  <2>1. \A t \in Tx : Mined(t) /\ Height[txs[t]] > Height[b] => Height[txs[t]] \in Above(Height[b])
    BY <1>0, AllAbove
  <2>2. RecB(T)'
    BY <1>1, <1>6, <2>1, GoesBackB
  <2> QED
    BY <1>6, <2>2
<1> QED
  BY <1>2, <1>5, <1>6

LEMMA ScanB ==
  ASSUME NEW T, Inv2(T), ~torn', Rescan \/ SyncNode
  PROVE  RecB(T)'
<1>0. Inv1 /\ C(T) /\ RecB(T) /\ TrailInv(T)
  BY DEF Inv2, C
<1>1. /\ run.stage = "start" /\ work = <<>> /\ UNCHANGED <<height, hashes, txdb, queue, work, cut>>
      /\ \E h \in 0..height : Scan(h)
  <2>1. SyncHeight \in 0..height
    BY <1>0, SyncHeightIs
  <2> QED
    BY <2>1 DEF Rescan, SyncNode, First, sync
<1>2. Kind \in {"rescan", "sync"} /\ (Kind = "rescan" => Rescan) /\ (Kind = "sync" => SyncNode)
  <2>1. Rescan => Kind = "rescan"
    BY DEF Rescan, First, Kind
  <2>2. SyncNode => Kind = "sync"
    BY DEF SyncNode, First, Kind
  <2> QED
    BY <2>1, <2>2
<1>3. height \in Nat /\ W \in Block /\ Height[W] = height /\ W' = W /\ Kind' = Kind
      /\ (ResetDue' <=> ResetDue) /\ (Outstanding' <=> Outstanding)
  BY <1>0, <1>1, WIs DEF W, Kind, ResetDue, Outstanding
<1>4. PICK h \in 0..height : Scan(h)
  BY <1>1
<1>5. CASE h # height
  <2>1. h \in 0..(height - 1) /\ Back(h, Above(h))
    BY <1>3, <1>4, <1>5 DEF Scan
  <2>2. \A t \in Tx : Mined(t) /\ Height[txs[t]] > h => Height[txs[t]] \in Above(h)
    BY <1>0, AllAbove
  <2> QED
    BY <1>1, <2>1, <2>2, GoesBackB
<1>6. CASE h = height
  <2>1. run' = Waiting /\ ~Ahead(tip)
    BY <1>4, <1>6 DEF Scan
  <2>2. run'.stage = "wait"
    BY <2>1, Jobs
  <2>3. \A a : Open(a) => Open(a)'
    BY <1>1, <1>3, <2>2 DEF Open, Hollow
  <2>4. /\ txs' = txs /\ \A t \in Tx : (Mined(t)' <=> Mined(t))
    BY <1>1, SameRecords
  <2>5. MKnownInv(T)'
    <3>1. CASE Kind = "rescan"
      <4>1. \A t \in Tx : Mined(t) => txs[t] \in Anc[T[1]]
        BY <1>0, <1>1, <3>1, MinedKnown DEF Unsynced
      <4> QED
        BY <2>4, <4>1 DEF MKnownInv, Mined
    <3>2. CASE Kind = "sync" /\ Outstanding
      BY <1>3, <2>2, <3>2 DEF MKnownInv, Unsynced
    <3>3. CASE Kind = "sync" /\ ~Outstanding
      <4>1. T[1] \in Block /\ tip \in Anc[T[1]] /\ W \in Anc[T[1]]
        BY <1>0, <1>2, <2>2, <3>3, SyncNodeC, TrailEnds
      <4>2. \A t \in Tx : Mined(t) => txs[t] \in Anc[T[1]]
        <5> SUFFICES ASSUME NEW t \in Tx, Mined(t), txs[t] \notin Anc[T[1]] PROVE FALSE
          OBVIOUS
        <5>1. txs[t] \in Block /\ Height[txs[t]] \in Nat
          BY <1>0, MinedIs
        <5>2. txs[t] \notin Anc[tip] /\ txs[t] \notin Anc[W]
          BY <4>1, Lines
        <5>3. Height[txs[t]] <= height
          BY <1>3, <2>1, <5>1, <5>2 DEF Ahead
        <5>4. Parent[txs[t]] = W
          BY <1>0, <5>2 DEF RecB, BelongInv
        <5>5. Height[txs[t]] = height + 1
          BY <1>3, <5>1, <5>4, Child
        <5> QED
          BY <1>3, <5>3, <5>5
      <4> QED
        BY <2>4, <4>2 DEF MKnownInv, Mined
    <3> QED
      BY <1>2, <3>1, <3>2, <3>3
  <2>6. AheadInv'
    BY <1>0, <1>1, <1>3, <2>4 DEF RecB, AheadInv, Mined
  <2>7. PrefixInv' /\ LeftInv' /\ TopInv'
    BY <2>2, Idle
  <2>8. MappedInv'
    BY <1>0, <1>1, StillMapped DEF RecB
  <2> QED
    BY <1>0, <1>1, <2>3, <2>5, <2>6, <2>7, <2>8, Still
<1> QED
  BY <1>5, <1>6

\* A height's batches name the height.
LEMMA UndoingOnce ==
  ASSUME Inv1, NEW h \in Heights, NEW n \in Heights, Undoing(h) = Undoing(n), Undoing(h) # <<>>
  PROVE  h = n
<1>1. TxDBTypeOK /\ BlocksInv
  BY DEF Inv1, TypeOK
<1>2. /\ Undoing(h) \in Seq(Batches) /\ Len(Undoing(h)) = Len(blocks[h])
      /\ \A i \in 1..Len(blocks[h]) : Undoing(h)[i] = <<"disconnect", blocks[h][Len(blocks[h]) + 1 - i]>>
  BY <1>1, UndoingIs
<1>3. /\ Len(Undoing(n)) = Len(blocks[n])
      /\ \A i \in 1..Len(blocks[n]) : Undoing(n)[i] = <<"disconnect", blocks[n][Len(blocks[n]) + 1 - i]>>
  BY <1>1, UndoingIs
<1>4. Len(blocks[h]) \in Nat \ {0} /\ Len(blocks[n]) = Len(blocks[h])
  BY <1>2, <1>3, Tails
<1>5. 1 \in 1..Len(blocks[h]) /\ Len(blocks[h]) \in 1..Len(blocks[h])
      /\ Len(blocks[h]) + 1 - 1 = Len(blocks[h])
  BY <1>4
<1>6. Undoing(h)[1] = <<"disconnect", blocks[h][Len(blocks[h])]>>
  BY <1>2, <1>5
<1>7. Undoing(n)[1] = <<"disconnect", blocks[n][Len(blocks[n])]>>
  BY <1>3, <1>4, <1>5
<1>8. blocks[h][Len(blocks[h])] = blocks[n][Len(blocks[n])]
  BY <1>6, <1>7
<1>9. /\ Height[txs[blocks[h][Len(blocks[h])]]] = h
      /\ Height[txs[blocks[n][Len(blocks[n])]]] = n
  BY <1>1, <1>4, <1>5 DEF BlocksInv
<1> QED
  BY <1>8, <1>9

LEMMA RevertBlockB ==
  ASSUME NEW T, Inv2(T), RevertBlock
  PROVE  RecB(T)'
<1>0. Inv1 /\ C(T) /\ RecB(T)
  BY DEF Inv2
<1>1. /\ work = <<>> /\ UNCHANGED <<height, hashes, txdb, queue, cut>>
  BY DEF RevertBlock, sync
<1>2. /\ run.stage = "back" /\ run'.stage = "back" /\ run'.block = run.block
      /\ \E h \in Heights : /\ h \in run.left /\ \A n \in run.left : n <= h
                            /\ h > Height[run.block] /\ work' = Undoing(h)
                            /\ run'.left = run.left \ {h}
  BY <1>0, RevertBlockInv1
<1>3. PICK h \in Heights : /\ h \in run.left /\ \A n \in run.left : n <= h
                           /\ h > Height[run.block] /\ work' = Undoing(h)
                           /\ run'.left = run.left \ {h}
  BY <1>2
<1>4. Kind' = Kind /\ W' = W /\ (Unsynced' <=> Unsynced)
  BY <1>1, <1>2 DEF Kind, W, Unsynced, Outstanding
<1>5. \A a : Open(a) => Open(a)'
  BY <1>2 DEF Open
<1>6. /\ txs' = txs /\ blocks' = blocks /\ \A t \in Tx : (Mined(t)' <=> Mined(t))
  BY <1>1, SameRecords
<1>7. MKnownInv(T)'
  BY <1>0, <1>2, <1>4, <1>6 DEF RecB, MKnownInv, Mined
<1>8. AheadInv' /\ PrefixInv'
  BY <1>2 DEF AheadInv, PrefixInv
<1>9. \A t \in Tx : Mined(t) =>
        /\ Height[txs[t]] \in Heights /\ Height[txs[t]] \in Nat /\ blocks[Height[txs[t]]] # <<>>
        /\ Height[txs[t]] <= Height[run.block] \/ Height[txs[t]] \in run.left
  BY <1>0, <1>1, <1>2, MinedIs, NoUndo DEF RecB, LeftInv
<1>10. LeftInv'
  <2> SUFFICES ASSUME NEW t \in Tx, Mined(t), Height[txs[t]] = h PROVE Undoes(Height[txs[t]])'
    BY <1>2, <1>3, <1>6, <1>9 DEF LeftInv, Mined
  <2>1. Len(Undoing(h)) = Len(blocks[h]) /\ blocks[h] # <<>> /\ blocks[h] \in Seq(Tx)
    BY <1>0, <1>9, UndoingIs DEF Inv1, TypeOK, TxDBTypeOK
  <2>2. Undoing(h) # <<>>
    BY <2>1
  <2> QED
    BY <1>3, <1>6, <2>2 DEF Undoes, Undoing
<1>11. TopInv'
  <2> SUFFICES ASSUME NEW k \in Heights, Undoes(k)', NEW t \in Tx, Mined(t)
               PROVE  Height[txs[t]] <= k
    BY <1>6 DEF TopInv, Mined
  <2>1. work' # <<>> /\ work' = Undoing(k)
    BY <1>6 DEF Undoes, Undoing
  <2>2. h = k
    BY <1>0, <1>3, <2>1, UndoingOnce
  <2>3. h \in Nat /\ Height[run.block] \in Nat
    <3>1. run.block \in Block
      BY <1>0, <1>2, WIs DEF Inv1, StageInv, BackInv
    <3> QED
      BY <3>1, HeightIn, HeightsNat
  <2> QED
    BY <1>3, <1>9, <2>2, <2>3
<1>12. MappedInv'
  BY <1>0, <1>1, StillMapped DEF RecB
<1> QED
  BY <1>0, <1>1, <1>5, <1>7, <1>8, <1>10, <1>11, <1>12, Still

LEMMA RemoveTXB ==
  ASSUME NEW T, Inv2(T), NEW x \in Tx, RemoveTX(x)
  PROVE  RecB(T)'
<1>0. Inv1 /\ C(T) /\ RecB(T)
  BY DEF Inv2
<1>1. work = <<>> /\ UNCHANGED <<height, hashes, txdb, queue, run, cut>>
  BY DEF RemoveTX, sync
<1>2. /\ W' = W /\ Kind' = Kind /\ (Unsynced' <=> Unsynced) /\ \A a : Open(a)' <=> Open(a)
  BY <1>1 DEF W, Kind, Outstanding, Unsynced, ResetDue, Hollow, Open
<1>3. /\ txs' = txs /\ blocks' = blocks
      /\ \A t \in Tx : (Mined(t)' <=> Mined(t)) /\ (Served(t)' <=> Served(t))
  BY <1>1, SameRecords
<1>4. MKnownInv(T)'
  BY <1>0, <1>1, <1>2, <1>3 DEF RecB, MKnownInv, Mined
<1>5. AheadInv'
  BY <1>0, <1>1, <1>2, <1>3 DEF RecB, AheadInv, Mined
<1>6. PrefixInv'
  <2> SUFFICES ASSUME run.stage = "adding" /\ run.block # NoBlock,
                      NEW i \in 1..Done, NEW t, t = BlockTxs[run.block][i]
               PROVE  Served(t)'
    BY <1>1 DEF PrefixInv, Done
  <2>1. InWork(t) \/ Served(t)
    BY <1>0 DEF RecB, PrefixInv
  <2>2. ~InWork(t)
    BY <1>1 DEF InWork
  <2>3. run.block \in Block /\ i \in 1..Len(BlockTxs[run.block])
    <3>1. run.block \in Block /\ Len(BlockTxs[run.block]) \in Nat
      BY <1>0, WIs, TxTypes
    <3>2. Len(run.rest) \in Nat
      <4>1. run.rest \in Seq(Tx)
        BY <1>0 DEF Inv1, TypeOK
      <4> QED
        BY <4>1
    <3> QED
      BY <3>1, <3>2 DEF Done
  <2>4. t \in Tx
    BY <2>3, TxTypes
  <2> QED
    BY <1>3, <2>1, <2>2, <2>4
<1>7. \A h \in Heights : ~Undoes(h) /\ ~Undoes(h)'
  <2>1. \A h \in Heights : ~Undoes(h)
    BY <1>1 DEF Undoes
  <2>2. ASSUME NEW h \in Heights, Undoes(h)' PROVE FALSE
    <3>1. work' # <<>> /\ work' = Undoing(h)
      BY <1>3, <2>2 DEF Undoes, Undoing
    <3>2. /\ Undoing(h) \in Seq(Batches) /\ Len(Undoing(h)) = Len(blocks[h])
          /\ \A i \in 1..Len(blocks[h]) :
               Undoing(h)[i] = <<"disconnect", blocks[h][Len(blocks[h]) + 1 - i]>>
      BY <1>0, UndoingIs DEF Inv1, TypeOK
    <3>3. 1 \in 1..Len(blocks[h]) /\ 1 \in 1..Len(work')
      BY <3>1, <3>2, Tails
    <3>4. work'[1][1] = "disconnect"
      BY <3>1, <3>2, <3>3
    <3>5. work'[1][1] = "erase"
      BY <1>0, <3>3, RemoveInv1 DEF Erases
    <3> QED
      BY <3>4, <3>5
  <2> QED
    BY <2>1, <2>2
<1>8. LeftInv' /\ TopInv'
  <2>1. \A t \in Tx : Mined(t) => Height[txs[t]] \in Heights
    BY <1>0, MinedIs
  <2> QED
    BY <1>0, <1>1, <1>3, <1>7, <2>1 DEF RecB, LeftInv, TopInv, Mined
<1>9. MappedInv'
  BY <1>0, <1>1, StillMapped DEF RecB
<1> QED
  BY <1>0, <1>1, <1>2, <1>4, <1>5, <1>6, <1>8, <1>9, Still

LEMMA WentBackB ==
  ASSUME NEW T, Inv2(T), WentBack
  PROVE  \/ C(T)' /\ RecB(T)'
         \/ C(Tail(T))' /\ RecB(Tail(T))'
<1>0. Inv1 /\ C(T) /\ RecB(T) /\ TrailInv(T)
  BY DEF Inv2, C
<1>1. /\ run.stage = "back" /\ run.left = {} /\ work = <<>> /\ UNCHANGED <<txdb, cut>>
  BY DEF WentBack
<1>2. /\ W' = run.block /\ run.block \in Anc[W] /\ run.block \in Block /\ run.block # W
      /\ Height[run.block] < height
      /\ \/ /\ Kind \in {"rescan", "sync"} /\ C(T)' /\ run' = Waiting /\ queue' = queue /\ Kind' = Kind
         \/ /\ Kind \in {"disconnect", "reset"} /\ C(Tail(T))' /\ Finish /\ run.block = T[2]
            /\ queue # <<>>
  BY <1>0, WentBackC
<1>3. height' = Height[run.block] /\ height \in Nat /\ W \in Block /\ Height[W] = height
  BY <1>0, WentBackInv1, WIs
<1>4. /\ txs' = txs
      /\ \A t \in Tx : /\ Mined(t)' <=> Mined(t)
                       /\ IsPending(t)' <=> IsPending(t)
                       /\ Matters(t)' <=> Matters(t)
  BY <1>1, SameRecords
<1>5. run'.stage \in {"wait", "start"}
  BY <1>2, Jobs DEF Finish
<1>6. Anc[run.block] \subseteq Anc[W] /\ \A a \in Anc[run.block] : ~Open(a)
  BY <1>1, <1>2, <1>3, Lines DEF Open
<1>7. \A t \in Tx : Mined(t) =>
        Height[txs[t]] <= Height[run.block] /\ txs[t] \in Anc[run.block] /\ txs[t] \in Block
  <2> TAKE t \in Tx
  <2> HAVE Mined(t)
  <2>1. txs[t] \in Block /\ Height[txs[t]] \in Heights /\ Height[txs[t]] \in Nat
        /\ Height[run.block] \in Nat
    BY <1>0, <1>2, MinedIs, HeightIn
  <2>2. Height[txs[t]] <= Height[run.block]
    BY <1>0, <1>1, <2>1, NoUndo DEF RecB, LeftInv
  <2>3. txs[t] \in Anc[W] \/ Parent[txs[t]] = W
    BY <1>0 DEF RecB, BelongInv
  <2>4. Parent[txs[t]] # W
    BY <1>2, <1>3, <2>1, <2>2, Child
  <2>5. txs[t] \in Anc[run.block]
    BY <1>2, <1>3, <2>2, <2>3, <2>4, Lines
  <2> QED
    BY <2>1, <2>2, <2>5
<1>8. BelongInv'
  BY <1>0, <1>2, <1>4, <1>7 DEF RecB, BelongInv, Mined
<1>9. AheadInv'
  <2>1. \A t \in Tx : Mined(t) => ~(Height[txs[t]] > height')
    BY <1>2, <1>3, <1>7, HeightIn
  <2> QED
    BY <1>4, <2>1 DEF AheadInv, Mined
<1>10. PendInv'
  BY <1>0, <1>2, <1>4, <1>6 DEF RecB, PendInv, IsPending
<1>11. CompleteInv'
  <2> SUFFICES ASSUME ~cut, NEW a \in Anc[run.block] \ Anc[Start], NEW t \in TxsOf(a), Matters(t)'
               PROVE  Mined(t)'
    BY <1>1, <1>2 DEF CompleteInv, Mined
  <2>1. t \in Tx
    BY <1>2, Lines, TxTypes
  <2> QED
    BY <1>0, <1>4, <1>6, <2>1 DEF RecB, CompleteInv
<1>12. NoRivalInv'
  BY <1>0, <1>2, <1>4, <1>6 DEF RecB, NoRivalInv, IsPending
<1>13. PrefixInv' /\ LeftInv' /\ TopInv'
  BY <1>5, Idle
<1>14. MappedInv'
  BY <1>0, <1>1, StillMapped DEF RecB
<1>15. CASE C(T)' /\ Kind \in {"rescan", "sync"} /\ run' = Waiting /\ queue' = queue /\ Kind' = Kind
  <2>1. run'.stage = "wait"
    BY <1>15, Jobs
  <2>2. MKnownInv(T)'
    <3>1. CASE Kind = "rescan"
      <4>1. \A t \in Tx : Mined(t) => txs[t] \in Anc[T[1]]
        BY <1>0, <1>1, <3>1, MinedKnown DEF Unsynced
      <4> QED
        BY <1>4, <4>1 DEF MKnownInv, Mined
    <3>2. CASE Kind = "sync" /\ Outstanding'
      BY <1>15, <2>1, <3>2 DEF MKnownInv, Unsynced
    <3>3. CASE Kind = "sync" /\ ~Outstanding'
      <4>1. run.block \in Anc[T[1]] /\ T[1] \in Block
        BY <1>0, <1>2, <1>15, <2>1, <3>3, TrailEnds DEF C, KnownInv, Lost, Stuck
      <4>2. \A t \in Tx : Mined(t) => txs[t] \in Anc[T[1]]
        BY <1>7, <4>1, Lines
      <4> QED
        BY <1>4, <4>2 DEF MKnownInv, Mined
    <3> QED
      BY <1>15, <3>1, <3>2, <3>3
  <2> QED
    BY <1>15, <2>2, <1>8, <1>9, <1>10, <1>11, <1>12, <1>13, <1>14 DEF RecB
<1>16. CASE C(Tail(T))' /\ run.block = T[2] /\ queue # <<>>
  <2>1. Tail(T)[1] = T[2]
    <3>1. T \in Seq(Block) /\ Len(T) = Len(queue) + 1 /\ queue \in Seq(Request) /\ queue # <<>>
      BY <1>0, <1>16, WIs DEF TrailInv
    <3>2. T # <<>> /\ Len(queue) \in Nat \ {0}
      BY <3>1
    <3>3. 1 \in 1..(Len(T) - 1)
      BY <3>1, <3>2
    <3>4. Tail(T)[1] = T[1 + 1] /\ 1 + 1 = 2
      BY <3>1, <3>2, <3>3, Tails
    <3> QED
      BY <3>4
  <2>2. MKnownInv(Tail(T))'
    BY <1>4, <1>7, <1>16, <2>1 DEF MKnownInv, Mined
  <2> QED
    BY <1>16, <2>2, <1>8, <1>9, <1>10, <1>11, <1>12, <1>13, <1>14 DEF RecB
<1> QED
  BY <1>2, <1>15, <1>16

\* What a transaction that is about to be recorded meets.
LEMMA Ready ==
  ASSUME NEW T, Inv2(T), run.stage = "adding", NEW t \in Tx, Current(t), ~Mined(t),
         Len(work) = 1, work[1][2] = t
  PROVE  /\ Unclaimed(t)
         /\ \A x \in Tx : Mined(x) => Inputs[x] \cap Inputs[t] = {}
         /\ run.block # NoBlock => /\ run.block \in Block /\ t \in TxsOf(run.block)
                                   /\ Fed(t, run.block) /\ OnLine(run.block)
         /\ run.block = NoBlock => W \in Anc[T[1]] /\ Clean(t, T[1]) /\ FullyValid(T[1]) /\ T[1] \in Block
<1>0. /\ Inv1 /\ C(T) /\ RecA /\ RecB(T) /\ TypeOK /\ TxDBTypeOK /\ AddingInv /\ JobInv
      /\ W \in Block /\ Height[W] = height /\ height \in Nat /\ FullyValid(W)
      /\ run.block \in Block \cup {NoBlock} /\ queue # <<>>
  BY WIs DEF Inv2, Inv1, TypeOK, StageInv, C, ValidInv
<1>1. PICK L \in Block :
        /\ FullyValid(L) /\ W \in Anc[L]
        /\ \A x \in Tx : Mined(x) => txs[x] \in Anc[L]
        /\ run.block # NoBlock => run.block \in Anc[L]
        /\ Kind = "tx" => L = T[1]
  BY OneLine
<1>2. \A x \in Tx : Mined(x) =>
        /\ txs[x] \in Block /\ x \in TxsOf(txs[x]) /\ FullyValid(txs[x])
        /\ txs[x] \in Anc[W] \/ Parent[txs[x]] = W
  BY <1>0 DEF RecB, BelongInv, Mined
<1>3. ASSUME NEW y \in Tx, Mined(y), NEW c \in Inputs[y], Maker[c] = t
      PROVE  \E e \in Anc[txs[y]] : t \in TxsOf(e) /\ e \in Anc[L]
  <2>1. \E e \in Anc[txs[y]] : Maker[c] \in TxsOf(e)
    BY <1>2, <1>3, MakerOnLine
  <2> QED
    BY <1>1, <1>3, <2>1, Lines
<1>4. CASE run.block = NoBlock
  <2>1. Kind = "tx" /\ Head(queue).of = t /\ Head(queue).kind = "tx"
    <3>1. Kind = "tx"
      BY <1>0, <1>4, WIs DEF AddingInv, InBlock
    <3> QED
      BY <1>0, <1>4, <3>1 DEF Current, Kind
  <2>2. L = T[1] /\ Clean(t, T[1])
    BY <1>0, <1>1, <2>1, HeadStep DEF C, Step
  <2>3. Unclaimed(t)
    <3> SUFFICES ASSUME NEW y \in Tx, Mined(y), NEW c \in Inputs[y] \cap Mine, Maker[c] = t PROVE FALSE
      BY DEF Unclaimed
    <3>1. PICK e \in Anc[L] : t \in TxsOf(e)
      BY <1>3
    <3> QED
      BY <2>2, <3>1 DEF Clean
  <2>4. ASSUME NEW x \in Tx, Mined(x) PROVE Inputs[x] \cap Inputs[t] = {}
    <3>1. x \in TxsOf(txs[x]) /\ txs[x] \in Anc[L] /\ x # t
      BY <1>0, <1>1, <1>2, <2>4
    <3> QED
      BY <2>2, <3>1 DEF Clean, Rivals
  <2> QED
    BY <1>1, <1>4, <2>2, <2>3, <2>4
<1>5. CASE run.block # NoBlock
  <2> DEFINE b == run.block
  <2>1. Kind # "tx" /\ InBlock /\ b \in Block /\ (b = W \/ Parent[b] = W) /\ b \in Anc[L]
    BY <1>0, <1>1, <1>5 DEF AddingInv, JobInv
  <2>2. Done \in Nat /\ Done \in 1..Len(BlockTxs[b]) /\ t = BlockTxs[b][Done]
    <3>1. Len(BlockTxs[b]) \in Nat
      BY <2>1, TxTypes
    <3>2. Len(run.rest) \in Nat
      <4>1. run.rest \in Seq(Tx)
        BY <1>0 DEF TypeOK
      <4> QED
        BY <4>1
    <3>3. Done > 0 /\ t = BlockTxs[b][Done]
      BY <1>5 DEF Current
    <3>4. Len(run.rest) <= Len(BlockTxs[b])
      BY <2>1 DEF InBlock
    <3>5. Done = Len(BlockTxs[b]) - Len(run.rest)
      BY DEF Done
    <3>6. \A p, q \in Nat : q <= p /\ p - q > 0 => p - q \in Nat /\ p - q \in 1..p
      OBVIOUS
    <3>7. Done \in Nat /\ Done \in 1..Len(BlockTxs[b])
      BY <3>1, <3>2, <3>3, <3>4, <3>5, <3>6
    <3> QED
      BY <3>3, <3>7
  <2>3. t \in TxsOf(b)
    BY <2>1, <2>2, TxTypes
  <2>4. OnLine(b)
    <3> SUFFICES ASSUME NEW x \in Tx, Mined(x) PROVE txs[x] \in Anc[b] \/ b \in Anc[txs[x]]
      BY DEF OnLine
    <3>1. txs[x] \in Anc[L] /\ b \in Anc[L] /\ txs[x] \in Block
      BY <1>1, <1>2, <2>1
    <3>2. Height[txs[x]] \in Nat /\ Height[b] \in Nat
      BY <2>1, <3>1, HeightIn
    <3>3. Height[txs[x]] <= Height[b] \/ Height[b] <= Height[txs[x]]
      BY <3>2
    <3> QED
      BY <3>1, <3>3, Lines
  <2>5. ASSUME NEW x \in Tx, Mined(x) PROVE Inputs[x] \cap Inputs[t] = {}
    BY <1>0, <1>1, <1>2, <2>1, <2>3, <2>5, OneSpender
  <2>6. Unclaimed(t)
    <3> SUFFICES ASSUME NEW y \in Tx, Mined(y), NEW c \in Inputs[y] \cap Mine, Maker[c] = t PROVE FALSE
      BY DEF Unclaimed
    <3>1. PICK e \in Anc[txs[y]] : t \in TxsOf(e) /\ e \in Anc[L]
      BY <1>3
    <3>2. e = b
      BY <1>1, <2>1, <2>3, <3>1, OneBlock
    <3>3. txs[y] # b
      BY <1>0, <2>3 DEF RecA, KInv
    <3>4. txs[y] \in Block /\ Height[b] < Height[txs[y]] /\ Height[b] \in Nat /\ Height[txs[y]] \in Nat
      <4>1. Height[b] \in Nat /\ Height[txs[y]] \in Nat /\ txs[y] \in Block
        BY <1>2, <2>1, HeightIn
      <4>2. Height[b] <= Height[txs[y]] /\ Height[b] # Height[txs[y]]
        BY <3>1, <3>2, <3>3, <4>1, Lines
      <4> QED
        BY <4>1, <4>2
    <3>5. CASE b = W
      <4>1. \A x \in TxsOf(W) : Ours(x) # {} => Mined(x)
        BY <1>0, <1>5, <3>4, <3>5 DEF RecB, AheadInv
      <4>2. c \in Ours(t)
        BY <1>0, CoinSets
      <4> QED
        BY <2>3, <3>5, <4>1, <4>2
    <3>6. CASE Parent[b] = W
      <4>1. Height[b] = height + 1
        BY <1>0, <2>1, <3>6, Child
      <4>2. Height[txs[y]] <= height + 1
        <5>1. CASE txs[y] \in Anc[W]
          <6>1. Height[txs[y]] <= height
            BY <1>0, <5>1, Lines
          <6> QED
            BY <1>0, <3>4, <6>1
        <5>2. CASE Parent[txs[y]] = W
          <6>1. Height[txs[y]] = height + 1
            BY <1>0, <3>4, <5>2, Child
          <6> QED
            BY <1>0, <6>1
        <5> QED
          BY <1>2, <5>1, <5>2
      <4> QED
        BY <1>0, <3>4, <4>1, <4>2
    <3> QED
      BY <2>1, <3>5, <3>6
  <2>7. Fed(t, b)
    <3> SUFFICES ASSUME NEW c \in Inputs[t] \cap Mine, Maker[c] \in Tx, Exists(Maker[c]) \/ Maker[c] \in TxsOf(b),
                        ~Mined(Maker[c])
                 PROVE  FALSE
      BY DEF Fed
    <3> DEFINE m == Maker[c]
    <3>0. m # t /\ c \in Ours(m)
      <4>1. m \in Parents(t)
        BY DEF Parents
      <4> QED
        BY <1>0, <4>1, CoinSets, TxAssumption
    <3>1. FullyValid(b)
      BY <1>1, <2>1, ValidBelow
    <3>2. PICK e \in Anc[b] : m \in TxsOf(e)
      BY <2>1, <2>3, <3>1, MakerOnLine
    <3>3. CASE m \in TxsOf(b)
      <4>1. PICK j \in 1..Len(BlockTxs[b]) : m = BlockTxs[b][j]
        BY <2>1, <3>3, TxTypes
      <4>2. j < Done
        BY <2>1, <2>2, <4>1, MakerBefore
      <4>3. j \in 1..Done
        BY <2>2, <4>2
      <4>4. InWork(m) \/ Served(m)
        BY <1>0, <1>5, <4>1, <4>3 DEF RecB, PrefixInv
      <4>5. ~InWork(m)
        BY <3>0 DEF InWork
      <4> QED
        BY <3>0, <4>4, <4>5 DEF Served, Matters
    <3>4. CASE m \notin TxsOf(b)
      <4>1. IsPending(m)
        BY <1>0, <3>4, States
      <4>2. e \in Anc[W] /\ e # b
        BY <1>0, <2>1, <3>2, <3>4, Child
      <4>3. Open(e)
        BY <1>0, <3>2, <4>1, <4>2 DEF RecB, PendInv
      <4>4. b = W => e = b
        BY <4>3 DEF Open
      <4> QED
        BY <2>1, <4>2, <4>3, <4>4, NotOpen
    <3> QED
      BY <3>3, <3>4
  <2> QED
    BY <1>5, <2>1, <2>3, <2>4, <2>5, <2>6, <2>7
<1> QED
  BY <1>4, <1>5

\* A transaction of the block is mined.
LEMMA MinedNowB ==
  ASSUME NEW T, Inv2(T), run.stage = "adding", NEW t \in Tx, Current(t), ~Mined(t),
         run.block # NoBlock, Len(work) = 1, work[1][2] = t, work[1][1] # "disconnect",
         work' = <<>>, UNCHANGED <<Unwritten, run>>,
         txs' = [txs EXCEPT ![t] = run.block], AddedTo(run.block, t),
         \A x \in Rivals(t) : ~IsPending(x)
  PROVE  RecB(T)'
<1> DEFINE b == run.block
<1>0. /\ Inv1 /\ C(T) /\ RecA /\ RecB(T) /\ TypeOK /\ TxDBTypeOK /\ AddingInv /\ JobInv
      /\ W \in Block /\ Height[W] = height /\ height \in Nat /\ FullyValid(W)
      /\ NoBlock \notin Block
  BY WIs DEF Inv2, Inv1, TypeOK, StageInv, C, ValidInv
<1>1. UNCHANGED <<height, hashes, queue, run, cut, tip, locker>>
  BY DEF Unwritten, sync, chain
<1>2. b \in Block /\ t \in TxsOf(b)
  BY Ready
<1>3. PICK L \in Block : FullyValid(L) /\ W \in Anc[L] /\ b \in Anc[L]
  BY OneLine
<1>4. FullyValid(b) /\ Kind # "tx" /\ InBlock /\ (b = W \/ Parent[b] = W)
  BY <1>0, <1>2, <1>3, ValidBelow DEF AddingInv, JobInv
<1>5. /\ W' = W /\ Kind' = Kind /\ (Outstanding' <=> Outstanding) /\ (Unsynced' <=> Unsynced)
      /\ (ResetDue' <=> ResetDue) /\ (Hollow' <=> Hollow) /\ \A a : Open(a)' <=> Open(a)
  BY <1>1 DEF W, Kind, Outstanding, Unsynced, ResetDue, Hollow, Open
<1>6. /\ txs'[t] = b /\ \A x \in Tx \ {t} : txs'[x] = txs[x]
      /\ Mined(t)' /\ Exists(t)' /\ ~IsPending(t)'
      /\ \A x \in Tx \ {t} : /\ Mined(x)' <=> Mined(x)
                             /\ Exists(x)' <=> Exists(x)
                             /\ IsPending(x)' <=> IsPending(x)
  BY <1>0, <1>2, OneState, States
<1>7. \A x \in Tx : (Mined(x) => Mined(x)' /\ x # t) /\ (IsPending(x)' => IsPending(x))
  BY <1>6
<1>8. ASSUME NEW x \in Tx, Matters(x)', ~Matters(x)
      PROVE  \E c \in Inputs[x] : Maker[c] = t
  <2>1. Ours(x) = {}
    BY <1>8 DEF Matters
  <2>2. PICK c \in Inputs[x] \cap Mine : Maker[c] \in Tx /\ Exists(Maker[c])'
    BY <1>8, <2>1 DEF Matters, Known, Exists
  <2>3. ~Exists(Maker[c])
    BY <1>8, <2>2 DEF Matters, Known
  <2> QED
    BY <1>6, <2>2, <2>3
<1>9. BelongInv'
  <2> SUFFICES ASSUME NEW x \in Tx, Mined(x)'
               PROVE  /\ x \in TxsOf(txs'[x]) /\ FullyValid(txs'[x])
                      /\ txs'[x] \in Anc[W] \/ Parent[txs'[x]] = W
    BY <1>5 DEF BelongInv, Mined
  <2>1. CASE x = t
    BY <1>0, <1>2, <1>4, <1>6, <2>1, Lines
  <2>2. CASE x # t
    BY <1>0, <1>6, <2>2 DEF RecB, BelongInv
  <2> QED
    BY <2>1, <2>2
<1>10. MKnownInv(T)'
  <2>1. \A x \in Tx : Mined(x) =>
          txs[x] \in Anc[T[1]] \/ (Kind = "connect" /\ txs[x] = b)
    BY <1>0 DEF RecB, MKnownInv, Unsynced
  <2>2. Kind = "connect" \/ b \in Anc[T[1]]
    <3> SUFFICES ASSUME Kind # "connect" PROVE b \in Anc[T[1]]
      OBVIOUS
    <3>1. Kind \in {"rescan", "sync"}
      BY <1>0, <1>4 DEF AddingInv
    <3>2. locker = "scan" /\ b \in Main
      BY <1>0, <3>1 DEF AddingInv, JobInv
    <3>3. tip \in Anc[T[1]] /\ T[1] \in Block
      BY <1>0, <3>2, OnScan, TrailEnds
    <3> QED
      BY <3>2, <3>3, Lines DEF Main
  <2>3. \A x \in Tx : Mined(x)' => txs'[x] \in Anc[T[1]] \/ (Kind = "connect" /\ txs'[x] = b)
    BY <1>6, <2>1, <2>2
  <2> QED
    BY <1>1, <1>5, <2>3 DEF MKnownInv, Mined
<1>11. AheadInv'
  <2>1. CASE b # W
    BY <1>1, <1>5, <2>1 DEF AheadInv
  <2>2. CASE b = W
    <3> SUFFICES ASSUME NEW x \in Tx, Mined(x)', Height[txs'[x]] > height,
                        NEW y \in TxsOf(W), Ours(y) # {}
                 PROVE  Mined(y)'
      BY <1>1, <1>5 DEF AheadInv, Mined
    <3>1. x # t
      BY <1>0, <1>6, <2>2
    <3>2. Mined(x) /\ Height[txs[x]] > height
      BY <1>6, <3>1
    <3>3. Mined(y) /\ y \in Tx
      BY <1>0, <2>2, <3>2, TxTypes DEF RecB, AheadInv
    <3> QED
      BY <1>7, <3>3
  <2> QED
    BY <2>1, <2>2
<1>12. PendInv'
  BY <1>0, <1>5, <1>7 DEF RecB, PendInv, IsPending
<1>13. CompleteInv'
  <2> SUFFICES ASSUME ~cut, NEW a \in Anc[W] \ Anc[Start], NEW x \in TxsOf(a), Matters(x)', ~Open(a)
               PROVE  Mined(x)'
    BY <1>1, <1>5 DEF CompleteInv, Mined
  <2>1. a \in Block /\ x \in Tx /\ FullyValid(a)
    BY <1>0, Lines, TxTypes, ValidBelow
  <2>2. CASE Matters(x)
    BY <1>0, <1>7, <2>1, <2>2 DEF RecB, CompleteInv
  <2>3. CASE ~Matters(x)
    <3>1. PICK c \in Inputs[x] : Maker[c] = t
      BY <1>8, <2>1, <2>3
    <3>2. PICK e \in Anc[a] : t \in TxsOf(e)
      BY <2>1, <3>1, MakerOnLine
    <3>3. e \in Anc[W] /\ e \in Anc[L]
      BY <1>0, <1>3, <3>2, Lines
    <3>4. e = b
      BY <1>2, <1>3, <3>2, <3>3, OneBlock
    <3>5. b = W
      BY <1>0, <1>2, <1>4, <3>3, <3>4, Child
    <3>6. a = W
      BY <1>0, <3>2, <3>4, <3>5, Lines
    <3>7. Open(W)
      BY <3>5 DEF Open, Hollow
    <3> QED
      BY <3>6, <3>7
  <2> QED
    BY <2>2, <2>3
<1>14. PrefixInv'
  <2> SUFFICES ASSUME NEW i \in 1..Done, NEW x, x = BlockTxs[b][i] PROVE Served(x)'
    BY <1>1 DEF PrefixInv, Done
  <2>1. Done \in Nat /\ Done \in 1..Len(BlockTxs[b]) /\ t = BlockTxs[b][Done]
    <3>1. Len(BlockTxs[b]) \in Nat
      BY <1>2, TxTypes
    <3>2. Len(run.rest) \in Nat
      <4>1. run.rest \in Seq(Tx)
        BY <1>0 DEF TypeOK
      <4> QED
        BY <4>1
    <3>3. Done > 0 /\ t = BlockTxs[b][Done]
      BY DEF Current
    <3>4. Len(run.rest) <= Len(BlockTxs[b])
      BY <1>4 DEF InBlock
    <3>5. Done = Len(BlockTxs[b]) - Len(run.rest)
      BY DEF Done
    <3>6. \A p, q \in Nat : q <= p /\ p - q > 0 => p - q \in Nat /\ p - q \in 1..p
      OBVIOUS
    <3>7. Done \in Nat /\ Done \in 1..Len(BlockTxs[b])
      BY <3>1, <3>2, <3>3, <3>4, <3>5, <3>6
    <3> QED
      BY <3>3, <3>7
  <2>2. i \in 1..Len(BlockTxs[b]) /\ i <= Done
    <3>1. Len(BlockTxs[b]) \in Nat
      BY <1>2, TxTypes
    <3> QED
      BY <2>1, <3>1
  <2>3. x \in Tx
    BY <1>2, <2>2, TxTypes
  <2>4. CASE x = t
    <3>1. \A y \in Rivals(t) : ~IsPending(y)'
      BY <1>7 DEF Rivals
    <3> QED
      BY <1>6, <2>4, <3>1 DEF Served, IsPending
  <2>5. CASE x # t
    <3>1. InWork(x) \/ Served(x)
      BY <1>0 DEF RecB, PrefixInv
    <3>2. ~InWork(x)
      BY <2>5 DEF InWork
    <3>3. Served(x)
      BY <3>1, <3>2
    <3>4. Matters(x)' => Matters(x)
      <4> SUFFICES ASSUME Matters(x)', ~Matters(x) PROVE FALSE
        OBVIOUS
      <4>1. PICK c \in Inputs[x] : Maker[c] = t
        BY <1>8, <2>3
      <4>2. Done < i
        BY <1>2, <2>1, <2>2, <4>1, MakerBefore
      <4> QED
        BY <2>1, <2>2, <4>2
    <3>5. \A y \in Rivals(x) : ~IsPending(y)'
      BY <1>7, <3>3 DEF Rivals, Served
    <3>6. ~IsPending(x)' /\ (Matters(x)' => Mined(x)')
      BY <1>7, <2>3, <3>3, <3>4 DEF Served
    <3> QED
      BY <3>5, <3>6 DEF Served, IsPending
  <2> QED
    BY <2>4, <2>5
<1>15. NoRivalInv'
  BY <1>0, <1>5, <1>7 DEF RecB, NoRivalInv, IsPending
<1>16. LeftInv' /\ TopInv'
  BY <1>1 DEF LeftInv, TopInv
<1>17. MappedInv'
  <2> SUFFICES ASSUME NEW h \in Heights, blocks'[h] # <<>> PROVE h \in mapped'
    BY DEF MappedInv
  <2>1. CASE h = Height[b]
    BY <2>1 DEF AddedTo
  <2>2. CASE h # Height[b]
    <3>1. blocks'[h] = blocks[h]
      BY <1>0, <2>2 DEF AddedTo, TxDBTypeOK
    <3>2. ~Undoes(h)
      BY <1>0, NoUndo
    <3> QED
      BY <1>0, <3>1, <3>2 DEF RecB, MappedInv, AddedTo
  <2> QED
    BY <2>1, <2>2
<1> QED
  BY <1>9, <1>10, <1>11, <1>12, <1>13, <1>14, <1>15, <1>16, <1>17 DEF RecB

LEMMA ConfirmB ==
  ASSUME NEW T, Inv2(T), WriteConfirm
  PROVE  RecA' /\ RecB(T)'
<1> DEFINE t == Head(work)[2]
<1>0. Inv1 /\ Db /\ RecA /\ TxDBTypeOK
  BY Inv1Is DEF Inv2, Db
<1>1. /\ work # <<>> /\ Head(work)[1] = "confirm" /\ Confirm(t, run.block)
      /\ UNCHANGED <<Unwritten, run>>
  BY DEF WriteConfirm, Batch
<1>2. /\ work' = <<>> /\ t \in Tx /\ run.stage = "adding" /\ Current(t) /\ IsPending(t)
      /\ run.block \in Block
  BY <1>0, ConfirmInv1 DEF WriteConfirm
<1>3. Len(work) = 1 /\ Head(work) = work[1]
  BY <1>0, <1>1, WorkHead, WorkTail DEF WriteConfirm, Batch
<1>4. ~Mined(t) /\ Exists(t) /\ txs[t] = Pending
  BY <1>0, <1>2, States DEF IsPending
<1>5. /\ Unclaimed(t) /\ Fed(t, run.block) /\ OnLine(run.block) /\ run.block # NoBlock
  <2>1. run.block # NoBlock
    BY <1>0, <1>2, WIs
  <2> QED
    BY <1>2, <1>3, <1>4, <2>1, Ready
<1>6. RecA'
  BY <1>0, <1>1, <1>2, <1>4, <1>5, ConfirmRec
<1>7. \A x \in Rivals(t) : ~IsPending(x)
  BY <1>0, <1>2, <1>4, States DEF RecA, RivalInv, Rivals
<1>8. txs' = [txs EXCEPT ![t] = run.block] /\ AddedTo(run.block, t)
  BY <1>1 DEF Confirm
<1>9. work[1][2] = t /\ work[1][1] # "disconnect"
  BY <1>1, <1>3
<1> HIDE DEF t
<1>10. RecB(T)'
  BY <1>1, <1>2, <1>3, <1>4, <1>5, <1>7, <1>8, <1>9, MinedNowB
<1> QED
  BY <1>6, <1>10

\* A batch that changes nothing: no coin of the transaction is the wallet's.
LEMMA NothingB ==
  ASSUME NEW T, Inv2(T), run.stage = "adding", NEW t \in Tx, txs[t] = Absent,
         Len(work) = 1, work[1][2] = t, work[1][1] # "disconnect",
         \A c \in Inputs[t] : spent[c] = NoTx,
         Inputs[t] \cap credits = {}, Ours(t) = {},
         work' = <<>>, UNCHANGED <<Unwritten, run, txdb>>
  PROVE  RecB(T)'
<1>0. Inv1 /\ C(T) /\ RecA /\ RecB(T) /\ TxDBTypeOK /\ TypeOK
  BY DEF Inv2, Inv1, TypeOK
<1>1. UNCHANGED <<height, hashes, queue, run, cut, tip, locker>>
  BY DEF Unwritten, sync, chain
<1>2. /\ W' = W /\ Kind' = Kind /\ (Unsynced' <=> Unsynced) /\ \A a : Open(a)' <=> Open(a)
  BY <1>1 DEF W, Kind, Outstanding, Unsynced, ResetDue, Hollow, Open
<1>3. /\ txs' = txs /\ blocks' = blocks /\ mapped' = mapped
      /\ \A x \in Tx : (Mined(x)' <=> Mined(x)) /\ (Served(x)' <=> Served(x))
  BY SameRecords
<1>4. MKnownInv(T)'
  BY <1>0, <1>1, <1>2, <1>3 DEF RecB, MKnownInv, Mined
<1>5. AheadInv'
  BY <1>0, <1>1, <1>2, <1>3 DEF RecB, AheadInv, Mined
<1>6. Served(t)
  <2>1. \A x \in Tx : IsPending(x) => Inputs[x] \cap Inputs[t] = {}
    BY <1>0, TxDBAssumption DEF RecA, PSpentInv
  <2>2. ~Matters(t)
    <3> SUFFICES ASSUME NEW c \in Inputs[t] \cap Mine, Maker[c] \in Tx, Exists(Maker[c]) PROVE FALSE
      BY DEF Matters, Known
    <3>1. c \in Coin /\ c \notin credits
      BY TxTypes
    <3>2. PICK y \in Tx : Mined(y) /\ <<y, c>> \in undo
      BY <1>0, <3>1 DEF RecA, CreditInv
    <3>3. spent[c] = y
      BY <1>0, <3>2 DEF RecA, UndoInv
    <3> QED
      BY <3>3, TxDBAssumption
  <2>3. ~IsPending(t)
    BY TxDBAssumption DEF IsPending
  <2> QED
    BY <2>1, <2>2, <2>3 DEF Served, Rivals
<1>7. PrefixInv'
  <2> SUFFICES ASSUME run.block # NoBlock, NEW i \in 1..Done, NEW x, x = BlockTxs[run.block][i]
               PROVE  Served(x)'
    BY <1>1 DEF PrefixInv, Done
  <2>1. InWork(x) \/ Served(x)
    BY <1>0 DEF RecB, PrefixInv
  <2>2. InWork(x) => x = t
    BY DEF InWork
  <2>3. Served(x)
    BY <1>6, <2>1, <2>2
  <2>4. run.block \in Block /\ i \in 1..Len(BlockTxs[run.block])
    <3>1. run.block \in Block /\ Len(BlockTxs[run.block]) \in Nat
      BY <1>0, WIs, TxTypes
    <3>2. Len(run.rest) \in Nat
      <4>1. run.rest \in Seq(Tx)
        BY <1>0 DEF TypeOK
      <4> QED
        BY <4>1
    <3> QED
      BY <3>1, <3>2 DEF Done
  <2>5. x \in Tx
    BY <2>4, TxTypes
  <2> QED
    BY <1>3, <2>3, <2>5
<1>8. LeftInv' /\ TopInv'
  BY <1>1 DEF LeftInv, TopInv
<1>9. MappedInv'
  <2>1. \A h \in Heights : ~Undoes(h)
    BY <1>0, NoUndo
  <2> QED
    BY <1>0, <1>3, <2>1 DEF RecB, MappedInv
<1>10. \A a : Open(a) => Open(a)'
  BY <1>2
<1> QED
  BY <1>0, <1>1, <1>4, <1>5, <1>7, <1>8, <1>9, <1>10, Still

\* A transaction that no block has is there.
LEMMA PendingNowB ==
  ASSUME NEW T, Inv2(T), run.stage = "adding", NEW t \in Tx, Current(t), txs[t] = Absent,
         run.block = NoBlock, Len(work) = 1, work[1][2] = t, work[1][1] # "disconnect",
         work' = <<>>, UNCHANGED <<Unwritten, run>>,
         txs' = [txs EXCEPT ![t] = Pending], UNCHANGED <<blocks, mapped>>
  PROVE  RecB(T)'
<1>0. /\ Inv1 /\ C(T) /\ RecA /\ RecB(T) /\ TypeOK /\ TxDBTypeOK
      /\ W \in Block /\ FullyValid(W)
  BY WIs DEF Inv2, Inv1, TypeOK, C, ValidInv
<1>1. UNCHANGED <<height, hashes, queue, run, cut, tip, locker>>
  BY DEF Unwritten, sync, chain
<1>2. ~Mined(t)
  BY <1>0, States
<1>3. W \in Anc[T[1]] /\ Clean(t, T[1]) /\ T[1] \in Block
  BY <1>2, Ready
<1>4. \A a \in Anc[W] : t \notin TxsOf(a) /\ Rivals(t) \cap TxsOf(a) = {}
  BY <1>3, Lines DEF Clean
<1>5. /\ W' = W /\ Kind' = Kind /\ (Unsynced' <=> Unsynced) /\ \A a : Open(a)' <=> Open(a)
  BY <1>1 DEF W, Kind, Outstanding, Unsynced, ResetDue, Hollow, Open
<1>6. /\ txs'[t] = Pending /\ \A x \in Tx \ {t} : txs'[x] = txs[x]
      /\ ~Mined(t)'
      /\ \A x \in Tx \ {t} : /\ Mined(x)' <=> Mined(x)
                             /\ Exists(x)' <=> Exists(x)
                             /\ IsPending(x)' <=> IsPending(x)
  BY <1>0, OneState, States
<1>7. \A x \in Tx : (Mined(x)' <=> Mined(x)) /\ (Mined(x) => txs'[x] = txs[x])
  BY <1>2, <1>6
<1>8. BelongInv' /\ MKnownInv(T)' /\ AheadInv'
  <2>1. BelongInv'
    BY <1>0, <1>5, <1>7 DEF RecB, BelongInv, Mined
  <2>2. MKnownInv(T)'
    BY <1>0, <1>1, <1>5, <1>7 DEF RecB, MKnownInv, Mined
  <2>3. AheadInv'
    <3>1. TxsOf(W) \subseteq Tx
      BY <1>0, TxTypes
    <3> QED
      BY <1>0, <1>1, <1>5, <1>7, <3>1 DEF RecB, AheadInv, Mined
  <2> QED
    BY <2>1, <2>2, <2>3
<1>9. PendInv'
  <2> SUFFICES ASSUME NEW x \in Tx, IsPending(x)', NEW a \in Anc[W], x \in TxsOf(a) PROVE Open(a)
    BY <1>5 DEF PendInv, IsPending
  <2>1. x # t
    BY <1>4
  <2> QED
    BY <1>0, <1>6, <2>1 DEF RecB, PendInv
<1>10. CompleteInv'
  <2> SUFFICES ASSUME ~cut, NEW a \in Anc[W] \ Anc[Start], NEW x \in TxsOf(a), Matters(x)', ~Open(a)
               PROVE  Mined(x)'
    BY <1>1, <1>5 DEF CompleteInv, Mined
  <2>1. a \in Block /\ x \in Tx /\ FullyValid(a)
    BY <1>0, Lines, TxTypes, ValidBelow
  <2>2. CASE Matters(x)
    BY <1>0, <1>7, <2>1, <2>2 DEF RecB, CompleteInv
  <2>3. CASE ~Matters(x)
    <3>1. PICK c \in Inputs[x] \cap Mine : Maker[c] \in Tx /\ Exists(Maker[c])'
      BY <2>3 DEF Matters, Known, Exists
    <3>2. ~Exists(Maker[c])
      BY <2>3, <3>1 DEF Matters, Known
    <3>3. Maker[c] = t
      BY <1>6, <3>1, <3>2
    <3>4. PICK e \in Anc[a] : t \in TxsOf(e)
      BY <2>1, <3>1, <3>3, MakerOnLine
    <3>5. e \in Anc[W]
      BY <1>0, <3>4, Lines
    <3> QED
      BY <1>4, <3>4, <3>5
  <2> QED
    BY <2>2, <2>3
<1>11. NoRivalInv'
  <2> SUFFICES ASSUME NEW x \in Tx, IsPending(x)', NEW a \in Anc[W] PROVE Rivals(x) \cap TxsOf(a) = {}
    BY <1>5 DEF NoRivalInv, IsPending
  <2>1. CASE x = t
    BY <1>4, <2>1
  <2>2. CASE x # t
    BY <1>0, <1>6, <2>2 DEF RecB, NoRivalInv
  <2> QED
    BY <2>1, <2>2
<1>12. PrefixInv' /\ LeftInv' /\ TopInv'
  BY <1>1 DEF PrefixInv, LeftInv, TopInv
<1>13. MappedInv'
  <2>1. \A h \in Heights : ~Undoes(h)
    BY <1>0, NoUndo
  <2> QED
    BY <1>0, <2>1 DEF RecB, MappedInv
<1> QED
  BY <1>8, <1>9, <1>10, <1>11, <1>12, <1>13 DEF RecB

LEMMA InsertB ==
  ASSUME NEW T, Inv2(T), WriteInsert
  PROVE  RecA' /\ RecB(T)'
<1> DEFINE t == Head(work)[2]
           b == run.block
<1>0. Inv1 /\ Db /\ RecA /\ TxDBTypeOK
  BY Inv1Is DEF Inv2, Db
<1>1. /\ work # <<>> /\ Head(work)[1] = "insert" /\ Insert(t, b)
      /\ UNCHANGED <<Unwritten, run>>
  BY DEF WriteInsert, Batch
<1>2. /\ work' = <<>> /\ t \in Tx /\ run.stage = "adding" /\ Current(t) /\ txs[t] = Absent
      /\ \A c \in Inputs[t] : spent[c] = NoTx
      /\ b \in Block \cup {NoBlock}
  BY <1>0, InsertInv1
<1>3. Len(work) = 1 /\ Head(work) = work[1]
  BY <1>0, <1>1, WorkHead, WorkTail DEF WriteInsert, Batch
<1>4. ~Mined(t)
  BY <1>0, <1>2, States
<1>5. work[1][2] = t /\ work[1][1] # "disconnect"
  BY <1>1, <1>3
<1>6. /\ Unclaimed(t)
      /\ \A x \in Tx : Mined(x) => Inputs[x] \cap Inputs[t] = {}
      /\ b # NoBlock => b \in Block /\ Fed(t, b) /\ OnLine(b)
  BY <1>2, <1>3, <1>4, <1>5, Ready
<1>7. RecA'
  BY <1>0, <1>1, <1>2, <1>6, InsertRec
<1>8. \A x \in Rivals(t) : ~IsPending(x)
  BY <1>0, <1>2, TxDBAssumption DEF RecA, PSpentInv, Rivals
<1>9. \/ Inputs[t] \cap credits = {} /\ Ours(t) = {} /\ UNCHANGED txdb
      \/ b # NoBlock /\ txs' = [txs EXCEPT ![t] = b] /\ AddedTo(b, t)
      \/ b = NoBlock /\ txs' = [txs EXCEPT ![t] = Pending] /\ UNCHANGED <<blocks, mapped>>
  BY <1>1 DEF Insert
<1> HIDE DEF t
<1>10. CASE Inputs[t] \cap credits = {} /\ Ours(t) = {} /\ UNCHANGED txdb
  BY <1>1, <1>2, <1>3, <1>5, <1>7, <1>10, NothingB
<1>11. CASE b # NoBlock /\ txs' = [txs EXCEPT ![t] = b] /\ AddedTo(b, t)
  BY <1>1, <1>2, <1>3, <1>4, <1>5, <1>7, <1>8, <1>11, MinedNowB
<1>12. CASE b = NoBlock /\ txs' = [txs EXCEPT ![t] = Pending] /\ UNCHANGED <<blocks, mapped>>
  BY <1>1, <1>2, <1>3, <1>5, <1>7, <1>12, PendingNowB
<1> QED
  BY <1>9, <1>10, <1>11, <1>12

LEMMA EraseB ==
  ASSUME NEW T, Inv2(T), ~torn', WriteErase
  PROVE  RecA' /\ RecB(T)'
<1> SUFFICES ASSUME NEW t, t = Head(work)[2] PROVE RecA' /\ RecB(T)'
  OBVIOUS
<1>0. /\ Inv1 /\ C(T) /\ Db /\ RecA /\ RecB(T) /\ TypeOK /\ TxDBTypeOK /\ Inv1'
      /\ W \in Block
  BY Inv1Is, EraseInv1, WIs DEF Inv2, Db, Inv1
<1>1. /\ work # <<>> /\ Head(work)[1] = "erase" /\ Erase(t) /\ work' = Tail(work)
      /\ UNCHANGED <<Unwritten, run>> /\ txs[t] = Pending /\ Newly(t) = {}
  BY DEF WriteErase, Batch
<1>2. t \in Tx /\ \A c \in Outputs(t) : spent[c] = NoTx
  BY <1>0, EraseInv1
<1>3. RecA' /\ blocks' = blocks /\ mapped' = mapped
  BY <1>0, <1>1, <1>2, EraseRec
<1>4. txs' = [txs EXCEPT ![t] = Absent] /\ IsPending(t) /\ ~Mined(t)
  BY <1>0, <1>1, <1>2, States DEF Erase, IsPending
<1>5. UNCHANGED <<height, hashes, queue, run, cut, tip, locker>>
  BY <1>1 DEF Unwritten, sync, chain
<1>6. /\ W' = W /\ Kind' = Kind /\ (Unsynced' <=> Unsynced) /\ \A a : Open(a)' <=> Open(a)
  BY <1>5 DEF W, Kind, Outstanding, Unsynced, ResetDue, Hollow, Open
<1>7. /\ Len(work) \in Nat \ {0} /\ Len(work') = Len(work) - 1 /\ work[1][1] = "erase"
      /\ \A i \in 1..(Len(work) - 1) : work'[i] = work[i + 1]
  BY <1>0, <1>1, WorkTail
<1>8. run.stage = "back" => Erases(work, Len(work))
  BY <1>0, <1>1, WorkHead
<1>9. /\ ~Mined(t)' /\ ~Exists(t)' /\ ~IsPending(t)'
      /\ \A x \in Tx \ {t} : /\ txs'[x] = txs[x]
                             /\ Mined(x)' <=> Mined(x)
                             /\ Exists(x)' <=> Exists(x)
                             /\ IsPending(x)' <=> IsPending(x)
  BY <1>0, <1>2, <1>4, OneState, States
<1>10. \A x \in Tx : /\ Mined(x)' <=> Mined(x)
                     /\ Mined(x) => txs'[x] = txs[x]
                     /\ Exists(x)' => Exists(x)
                     /\ IsPending(x)' => IsPending(x)
  BY <1>4, <1>9
<1>11. \A x \in Tx : Matters(x)' => Matters(x)
  <2> SUFFICES ASSUME NEW x \in Tx, Matters(x)', Ours(x) = {} PROVE Matters(x)
    BY DEF Matters
  <2>1. PICK c \in Inputs[x] \cap Mine : Maker[c] \in Tx /\ Exists(Maker[c])'
    BY DEF Matters, Known, Exists
  <2> QED
    BY <1>10, <2>1 DEF Matters, Known
<1>12. BelongInv'
  BY <1>0, <1>6, <1>10 DEF RecB, BelongInv, Mined
<1>13. MKnownInv(T)'
  BY <1>0, <1>5, <1>6, <1>10 DEF RecB, MKnownInv, Mined
<1>14. AheadInv'
  <2>1. TxsOf(W) \subseteq Tx
    BY <1>0, TxTypes
  <2> QED
    BY <1>0, <1>5, <1>6, <1>10, <2>1 DEF RecB, AheadInv, Mined
<1>15. PendInv' /\ NoRivalInv'
  BY <1>0, <1>6, <1>10 DEF RecB, PendInv, NoRivalInv, IsPending
<1>16. CompleteInv'
  <2> SUFFICES ASSUME ~cut, NEW a \in Anc[W] \ Anc[Start], NEW x \in TxsOf(a), Matters(x)', ~Open(a)
               PROVE  Mined(x)'
    BY <1>5, <1>6 DEF CompleteInv, Mined
  <2>1. x \in Tx
    BY <1>0, Lines, TxTypes
  <2> QED
    BY <1>0, <1>10, <1>11, <2>1 DEF RecB, CompleteInv
<1>17. PrefixInv'
  <2> SUFFICES ASSUME run.stage = "adding", run.block # NoBlock, NEW i \in 1..Done, NEW x, x = BlockTxs[run.block][i]
               PROVE  InWork(x)' \/ Served(x)'
    BY <1>5 DEF PrefixInv, Done
  <2>1. InWork(x) \/ Served(x)
    BY <1>0 DEF RecB, PrefixInv
  <2>2. CASE InWork(x)
    <3>1. PICK j \in 1..Len(work) : work[j][1] \in {"insert", "confirm"} /\ work[j][2] = x
      BY <2>2 DEF InWork
    <3>2. j # 1
      BY <1>7, <3>1
    <3>3. j - 1 \in 1..Len(work') /\ work'[j - 1] = work[j]
      BY <1>7, <3>1, <3>2
    <3> QED
      BY <3>1, <3>3 DEF InWork
  <2>3. CASE Served(x)
    <3>1. run.block \in Block /\ i \in 1..Len(BlockTxs[run.block])
      <4>1. run.block \in Block /\ Len(BlockTxs[run.block]) \in Nat
        BY <1>0, WIs, TxTypes
      <4>2. Len(run.rest) \in Nat
        <5>1. run.rest \in Seq(Tx)
          BY <1>0 DEF TypeOK
        <5> QED
          BY <5>1
      <4>3. \A p, q \in Nat : \A k \in 1..(p - q) : k \in 1..p
        OBVIOUS
      <4> QED
        BY <4>1, <4>2, <4>3 DEF Done
    <3>2. x \in Tx
      BY <3>1, TxTypes
    <3>3. ~IsPending(x)' /\ (Matters(x)' => Mined(x)')
      BY <1>10, <1>11, <2>3, <3>2 DEF Served
    <3>4. \A y \in Rivals(x) : ~IsPending(y)'
      BY <1>10, <2>3 DEF Served, Rivals
    <3> QED
      BY <3>3, <3>4 DEF Served, IsPending
  <2> QED
    BY <2>1, <2>2, <2>3
<1>18. \A h \in Heights : ~Undoes(h)
  BY <1>0, <1>7, NoUndo
<1>19. LeftInv'
  <2> SUFFICES ASSUME run.stage = "back", NEW x \in Tx, Mined(x)
               PROVE  Height[txs'[x]] <= Height[run.block] \/ Height[txs'[x]] \in run.left
    BY <1>5, <1>10 DEF LeftInv, Mined
  <2>1. Height[txs[x]] \in Heights
    BY <1>0, MinedIs
  <2> QED
    BY <1>0, <1>10, <1>18, <2>1 DEF RecB, LeftInv
<1>20. TopInv'
  <2> SUFFICES ASSUME run.stage = "back", NEW h \in Heights, Undoes(h)' PROVE FALSE
    BY <1>5 DEF TopInv, Mined
  <2>1. work' # <<>> /\ work' = Undoing(h)
    BY <1>3 DEF Undoes, Undoing
  <2>2. /\ Undoing(h) \in Seq(Batches) /\ Len(Undoing(h)) = Len(blocks[h])
        /\ \A i \in 1..Len(blocks[h]) :
             Undoing(h)[i] = <<"disconnect", blocks[h][Len(blocks[h]) + 1 - i]>>
    BY <1>0, UndoingIs
  <2>3. 1 \in 1..Len(blocks[h]) /\ 1 \in 1..Len(work')
    BY <2>1, <2>2, Tails
  <2>4. work'[1][1] = "disconnect"
    BY <2>1, <2>2, <2>3
  <2>5. 1 \in 1..(Len(work) - 1) /\ 1 + 1 \in 1..Len(work)
    BY <1>7, <2>3
  <2>6. work'[1][1] = "erase"
    BY <1>7, <1>8, <2>5 DEF Erases
  <2> QED
    BY <2>4, <2>6
<1>21. MappedInv'
  BY <1>0, <1>3, <1>18 DEF RecB, MappedInv
<1> QED
  BY <1>3, <1>12, <1>13, <1>14, <1>15, <1>16, <1>17, <1>19, <1>20, <1>21 DEF RecB

\* What a transaction of the top block makes is not spent by what is mined.
LEMMA TopUnspent ==
  ASSUME NEW T, Inv2(T), run.stage = "back", NEW t \in Tx, Mined(t), Undoes(Height[txs[t]]),
         Len(blocks[Height[txs[t]]]) > 0, blocks[Height[txs[t]]][Len(blocks[Height[txs[t]]])] = t
  PROVE  Unclaimed(t)
<1> DEFINE h == Height[txs[t]]
<1>0. Inv1 /\ RecA /\ RecB(T) /\ BlocksInv /\ RecordInv /\ TypeOK
  BY DEF Inv2, Inv1
<1> SUFFICES ASSUME NEW y \in Tx, Mined(y), NEW c \in Inputs[y] \cap Mine, Maker[c] = t PROVE FALSE
  BY DEF Unclaimed
<1>1. /\ txs[t] \in Block /\ txs[y] \in Block /\ h \in Heights /\ h \in Nat /\ Height[txs[y]] \in Nat
      /\ y \in TxsOf(txs[y]) /\ t \in TxsOf(txs[t]) /\ FullyValid(txs[y]) /\ FullyValid(txs[t])
  BY <1>0, MinedIs DEF RecB, BelongInv
<1>2. Height[txs[y]] <= h
  BY <1>0, <1>1 DEF RecB, TopInv
<1>3. PICK e \in Anc[txs[y]] : t \in TxsOf(e)
  BY <1>1, MakerOnLine
<1>4. txs[y] = txs[t]
  <2>1. CASE txs[t] \in Anc[txs[y]]
    <3>1. h <= Height[txs[y]]
      BY <1>1, <2>1, Lines
    <3>2. h = Height[txs[y]]
      BY <1>1, <1>2, <3>1
    <3> QED
      BY <1>1, <2>1, <3>2, Lines
  <2>2. CASE txs[y] \in Anc[txs[t]]
    <3>1. e \in Anc[txs[t]] /\ txs[t] \in Anc[txs[t]]
      BY <1>1, <1>3, <2>2, Lines
    <3>2. e = txs[t]
      BY <1>1, <1>3, <3>1, OneBlock
    <3> QED
      BY <1>1, <1>3, <2>2, <3>2, Lines
  <2> QED
    BY <1>0, <2>1, <2>2 DEF RecA, LineInv
<1>5. PICK i \in 1..Len(blocks[h]) : blocks[h][i] = y
  BY <1>0, <1>4 DEF RecordInv
<1>6. blocks[h] \in Seq(Tx)
  BY <1>0, <1>1 DEF TypeOK, TxDBTypeOK
<1>7. Len(blocks[h]) \in 1..Len(blocks[h]) /\ Len(blocks[h]) \in Nat
  BY <1>6
<1>8. Len(blocks[h]) < i
  BY <1>0, <1>1, <1>5, <1>7 DEF RecA, OrderInv
<1> QED
  BY <1>5, <1>7, <1>8

LEMMA DisconnectB ==
  ASSUME NEW T, Inv2(T), WriteDisconnect
  PROVE  RecA' /\ RecB(T)'
<1> SUFFICES ASSUME NEW t, t = Head(work)[2] PROVE RecA' /\ RecB(T)'
  OBVIOUS
<1>0. /\ Inv1 /\ C(T) /\ Db /\ RecA /\ RecB(T) /\ TypeOK /\ TxDBTypeOK /\ Inv1'
      /\ W \in Block /\ Height[W] = height /\ FullyValid(W)
  BY Inv1Is, DisconnectInv1, WIs DEF Inv2, Db, Inv1, C, ValidInv
<1>1. /\ t \in Tx /\ Mined(t) /\ run.stage = "back" /\ Disconnect(t)
      /\ \E h \in Heights :
           /\ Undoes(h) /\ h > Height[run.block] /\ Height[txs[t]] = h
           /\ Len(blocks[h]) > 0 /\ blocks[h][Len(blocks[h])] = t
           /\ (Undoes(h) \/ blocks[h] = <<>>)'
  BY <1>0, DisconnectInv1
<1>2. PICK h \in Heights :
           /\ Undoes(h) /\ h > Height[run.block] /\ Height[txs[t]] = h
           /\ Len(blocks[h]) > 0 /\ blocks[h][Len(blocks[h])] = t
           /\ (Undoes(h) \/ blocks[h] = <<>>)'
  BY <1>1
<1>3. RecA'
  <2>1. Unclaimed(t)
    BY <1>1, <1>2, TopUnspent
  <2> QED
    BY <1>0, <1>1, <2>1, DisconnectRec
<1>4. /\ UNCHANGED <<Unwritten, run>> /\ work # <<>> /\ work' = Tail(work)
      /\ UNCHANGED <<height, hashes, queue, run, cut, tip, locker>>
  BY DEF WriteDisconnect, Batch, Unwritten, sync, chain
<1>5. /\ W' = W /\ Kind' = Kind /\ (Unsynced' <=> Unsynced) /\ \A a : Open(a)' <=> Open(a)
  BY <1>4 DEF W, Kind, Outstanding, Unsynced, ResetDue, Hollow, Open
<1>6. /\ txs' = [txs EXCEPT ![t] = Pending] /\ mapped' = mapped \ {h}
      /\ blocks' = [blocks EXCEPT ![h] = IF @ = <<>> THEN @ ELSE Front(@)]
  BY <1>1, <1>2 DEF Disconnect
<1>7. /\ txs'[t] = Pending /\ ~Mined(t)' /\ Exists(t)' /\ Exists(t)
      /\ \A x \in Tx \ {t} : /\ txs'[x] = txs[x]
                             /\ Mined(x)' <=> Mined(x)
                             /\ Exists(x)' <=> Exists(x)
                             /\ IsPending(x)' <=> IsPending(x)
  BY <1>0, <1>1, <1>6, OneState, States
<1>8. \A x \in Tx : /\ Mined(x)' => Mined(x) /\ x # t /\ txs'[x] = txs[x]
                    /\ Mined(x) /\ x # t => Mined(x)'
                    /\ IsPending(x)' => x = t \/ IsPending(x)
                    /\ Exists(x)' <=> Exists(x)
  BY <1>7
<1>9. \A x \in Tx : Matters(x)' <=> Matters(x)
  <2>1. \A x \in Tx : Known(x)' = Known(x)
    BY <1>8 DEF Known, Exists
  <2> QED
    BY <2>1 DEF Matters
<1>10. PICK L \in Block : FullyValid(L) /\ W \in Anc[L] /\ Anc[W] \subseteq Anc[L] /\ txs[t] \in Anc[L]
  <2>1. txs[t] \in Block /\ FullyValid(txs[t]) /\ (txs[t] \in Anc[W] \/ Parent[txs[t]] = W)
    BY <1>0, <1>1 DEF RecB, BelongInv, Mined
  <2>2. CASE txs[t] \in Anc[W]
    BY <1>0, <2>2, Lines
  <2>3. CASE Parent[txs[t]] = W
    <3>1. Anc[txs[t]] = Anc[W] \cup {txs[t]} /\ W \in Anc[txs[t]]
      BY <1>0, <2>1, <2>3, Child
    <3> QED
      BY <2>1, <3>1
  <2> QED
    BY <2>1, <2>2, <2>3
<1>11. t \in TxsOf(txs[t]) /\ txs[t] \in Block
  BY <1>0, <1>1 DEF RecB, BelongInv, Mined
<1>12. ASSUME NEW a \in Anc[W], t \in TxsOf(a) PROVE a = txs[t] /\ a \notin Anc[run.block] /\ Open(a)
  <2>1. a = txs[t]
    BY <1>10, <1>11, <1>12, OneBlock
  <2>2. run.block \in Block /\ Height[run.block] \in Nat /\ h \in Nat
    <3>1. run.block \in Block
      BY <1>0, <1>1, WIs DEF Inv1, StageInv, BackInv
    <3> QED
      BY <3>1, HeightIn, HeightsNat
  <2>3. a \notin Anc[run.block]
    BY <1>2, <2>1, <2>2, Lines
  <2> QED
    BY <1>1, <2>1, <2>3 DEF Open
<1>13. BelongInv'
  BY <1>0, <1>5, <1>8 DEF RecB, BelongInv, Mined
<1>14. MKnownInv(T)' /\ AheadInv' /\ PrefixInv'
  <2>1. MKnownInv(T)'
    BY <1>0, <1>1, <1>4, <1>5, <1>8 DEF RecB, MKnownInv, Mined
  <2>2. AheadInv' /\ PrefixInv'
    BY <1>1, <1>4 DEF AheadInv, PrefixInv
  <2> QED
    BY <2>1, <2>2
<1>15. PendInv'
  <2> SUFFICES ASSUME NEW x \in Tx, IsPending(x)', NEW a \in Anc[W], x \in TxsOf(a) PROVE Open(a)
    BY <1>5 DEF PendInv, IsPending
  <2>1. CASE x = t
    BY <1>12, <2>1
  <2>2. CASE x # t
    BY <1>0, <1>8, <2>2 DEF RecB, PendInv
  <2> QED
    BY <2>1, <2>2
<1>16. CompleteInv'
  <2> SUFFICES ASSUME ~cut, NEW a \in Anc[W] \ Anc[Start], NEW x \in TxsOf(a), Matters(x)', ~Open(a)
               PROVE  Mined(x)'
    BY <1>4, <1>5 DEF CompleteInv, Mined
  <2>1. x \in Tx
    BY <1>0, Lines, TxTypes
  <2>2. x # t
    BY <1>12
  <2> QED
    BY <1>0, <1>8, <1>9, <2>1, <2>2 DEF RecB, CompleteInv
<1>17. NoRivalInv'
  <2> SUFFICES ASSUME NEW x \in Tx, IsPending(x)', NEW a \in Anc[W], NEW y \in Rivals(x) \cap TxsOf(a) PROVE FALSE
    BY <1>5 DEF NoRivalInv, IsPending
  <2>1. CASE x = t
    <3>1. Inputs[t] \cap Inputs[y] # {} /\ y # t
      BY <2>1 DEF Rivals
    <3>2. a \in Anc[L]
      BY <1>10
    <3> QED
      BY <1>10, <1>11, <3>1, <3>2, OneSpender
  <2>2. CASE x # t
    BY <1>0, <1>8, <2>2 DEF RecB, NoRivalInv
  <2> QED
    BY <2>1, <2>2
<1>18. \A k \in Heights : Undoes(k) => k = h
  BY <1>0, <1>2, UndoesOnce
<1>19. LeftInv'
  <2> SUFFICES ASSUME NEW x \in Tx, Mined(x)', Height[txs'[x]] = h PROVE Undoes(h)'
    <3>1. \A x \in Tx : Mined(x) =>
            Height[txs[x]] \in Heights /\
            (Height[txs[x]] <= Height[run.block] \/ Height[txs[x]] \in run.left \/ Undoes(Height[txs[x]]))
      BY <1>0, <1>1, MinedIs DEF RecB, LeftInv
    <3>2. \A x \in Tx : Mined(x)' =>
            \/ Height[txs'[x]] <= Height[run.block] \/ Height[txs'[x]] \in run.left
            \/ Height[txs'[x]] = h
      BY <1>8, <1>18, <3>1
    <3> QED
      BY <1>4, <3>2 DEF LeftInv, Mined
  <2>1. \E i \in 1..Len(blocks'[h]) : blocks'[h][i] = x
    BY <1>0 DEF Inv1, RecordInv, Mined
  <2>2. blocks'[h] # <<>>
    BY <2>1
  <2> QED
    BY <1>2, <2>2
<1>20. TopInv'
  <2> SUFFICES ASSUME NEW k \in Heights, Undoes(k)', NEW x \in Tx, Mined(x)' PROVE Height[txs'[x]] <= k
    BY DEF TopInv, Mined
  <2>1. Height[txs'[x]] <= h
    BY <1>0, <1>1, <1>2, <1>8 DEF RecB, TopInv
  <2>2. k = h
    <3>1. blocks'[k] \in Seq(Tx) /\ BlocksInv'
      BY <1>0 DEF Inv1, TypeOK, TxDBTypeOK
    <3>2. work' # <<>> /\ work' = [i \in 1..Len(blocks'[k]) |-> <<"disconnect", Reverse(blocks'[k])[i]>>]
      BY DEF Undoes, Undoing
    <3>3. /\ work' \in Seq(Batches) /\ Len(work') = Len(blocks'[k])
          /\ \A i \in 1..Len(blocks'[k]) : work'[i] = <<"disconnect", blocks'[k][Len(blocks'[k]) + 1 - i]>>
      BY <3>1, <3>2, Backwards
    <3>4. Len(work') \in Nat \ {0}
      BY <3>2, <3>3, Tails
    <3>5. 1 \in 1..Len(blocks'[k]) /\ Len(blocks'[k]) \in 1..Len(blocks'[k])
          /\ Len(blocks'[k]) + 1 - 1 = Len(blocks'[k])
      BY <3>3, <3>4
    <3> DEFINE z == blocks'[k][Len(blocks'[k])]
    <3>6. work'[1] = <<"disconnect", z>>
      BY <3>3, <3>5
    <3>7. z \in Tx /\ txs'[z] \in Block /\ Height[txs'[z]] = k
      <4>1. z \in Tx
        BY <3>1, <3>5
      <4> QED
        BY <3>1, <3>5, <4>1 DEF BlocksInv, Mined
    <3>8. Height[txs[z]] = h
      <4>1. /\ Len(work) \in Nat \ {0} /\ Len(work') = Len(work) - 1
            /\ \A i \in 1..(Len(work) - 1) : work'[i] = work[i + 1]
        BY <1>0, <1>4, WorkTail
      <4>2. 1 \in 1..(Len(work) - 1) /\ 1 + 1 \in 1..Len(work)
        BY <3>4, <4>1
      <4>3. work'[1] = work[1 + 1]
        BY <4>1, <4>2
      <4>4. Height[txs[work[1 + 1][2]]] = h
        BY <1>0, <1>2, <4>2, UndoesWork
      <4> QED
        BY <3>6, <4>3, <4>4
    <3>9. txs'[z] = txs[z]
      BY <1>8, <3>7 DEF Mined
    <3> QED
      BY <3>7, <3>8, <3>9
  <2> QED
    BY <2>1, <2>2
<1>21. MappedInv'
  <2> SUFFICES ASSUME NEW k \in Heights, blocks'[k] # <<>> PROVE k \in mapped' \/ Undoes(k)'
    BY DEF MappedInv
  <2>1. CASE k = h
    BY <1>2, <2>1
  <2>2. CASE k # h
    <3>1. blocks'[k] = blocks[k]
      BY <1>0, <1>6, <2>2 DEF TxDBTypeOK
    <3>2. k \in mapped
      BY <1>0, <1>18, <2>2, <3>1 DEF RecB, MappedInv
    <3> QED
      BY <1>6, <2>2, <3>2
  <2> QED
    BY <2>1, <2>2
<1> QED
  BY <1>3, <1>13, <1>14, <1>15, <1>16, <1>17, <1>19, <1>20, <1>21 DEF RecB

----------------------------------------------------------------------------
\* The invariant: where the requests lead, and, unless `torn', what is recorded.

All == Inv1 /\ \E T : C(T) /\ (torn \/ (RecA /\ RecB(T)))

LEMMA TornStays == ASSUME Next, torn, Inv1 PROVE torn'
BY DEF Next, WalletStep, ChainStep, Asked, WriteInsert, WriteConfirm, WriteErase, WriteDisconnect,
  AddTX, AddedTX, AddBlock, AddBlockTX, AddedBlock, RemoveBlock, ResetChain, Rescan, SyncNode, Scan,
  RevertBlock, WentBack, ScanStart, ScanBlock, ScanEnd, Move, Release, AskRescan, Abort, Crash,
  Announce, RemoveTX, SetBest, Reset, Unwritten

LEMMA NextC ==
  ASSUME Inv1, NEW T, C(T), Next
  PROVE  \E U : C(U)'
<1>1. CASE WriteInsert \/ WriteConfirm \/ WriteErase \/ WriteDisconnect
  <2>1. C(T)'
    BY <1>1, WriteC
  <2> QED
    BY <2>1
<1>2. CASE AddBlockTX \/ RevertBlock \/ \E t \in Tx : RemoveTX(t)
  <2>1. C(T)'
    BY <1>2, QuietC
  <2> QED
    BY <2>1
<1>3. CASE AddTX \/ AddedTX \/ AddBlock \/ AddedBlock
  <2>1. C(T)' \/ C(Tail(T))'
    BY <1>3, AddTXC, AddedTXC, AddBlockC, AddedBlockC
  <2> QED
    BY <2>1
<1>4. CASE RemoveBlock \/ ResetChain \/ Rescan \/ SyncNode \/ WentBack
  <2>1. C(T)' \/ C(Tail(T))'
    BY <1>4, RemoveBlockC, ResetChainC, RescanC, SyncNodeC, WentBackC
  <2> QED
    BY <2>1
<1>5. CASE ScanStart \/ ScanBlock \/ ScanEnd \/ Abort
  <2>1. C(T)' \/ C(Tail(T))'
    BY <1>5, ScanStartC, ScanBlockC, LeaveC
  <2> QED
    BY <2>1
<1>6. CASE Release \/ \E b \in Block : SetBest(b)
  <2>1. C(T)'
    BY <1>6, ReleaseC, SetBestC
  <2> QED
    BY <2>1
<1>7. CASE Move \/ AskRescan \/ (\E t \in Tx : Announce(t)) \/ \E b \in Block : Reset(b)
  <2>1. \A U : U = Append(T, tip') => C(U)'
    BY <1>7, MoveC, AskRescanC, AnnounceC, ResetC
  <2> QED
    BY <2>1
<1>8. CASE Crash
  <2>1. \A U : U = <<tip, tip>> => C(U)'
    BY <1>8, CrashC
  <2> QED
    BY <2>1
<1> QED
  BY <1>1, <1>2, <1>3, <1>4, <1>5, <1>6, <1>7, <1>8 DEF Next, WalletStep, ChainStep, Asked

\* A step that leaves the records alone.
LEMMA Unrecorded ==
  ASSUME \/ AddTX \/ AddedTX \/ AddBlock \/ AddBlockTX \/ AddedBlock
         \/ RemoveBlock \/ ResetChain \/ Rescan \/ SyncNode \/ RevertBlock \/ WentBack
         \/ ScanStart \/ ScanBlock \/ ScanEnd \/ Abort \/ Move \/ Release \/ AskRescan \/ Crash
         \/ \E t \in Tx : Announce(t) \/ RemoveTX(t)
         \/ \E b \in Block : SetBest(b) \/ Reset(b)
  PROVE  UNCHANGED txdb
BY DEF AddTX, AddedTX, AddBlock, AddBlockTX, AddedBlock, RemoveBlock, ResetChain, Rescan, SyncNode,
  RevertBlock, WentBack, ScanStart, ScanBlock, ScanEnd, Move, Release, AskRescan, Abort, Crash,
  Announce, RemoveTX, SetBest, Reset

LEMMA NextB ==
  ASSUME NEW T, Inv2(T), ~torn', Next
  PROVE  RecA' /\ \E U : C(U)' /\ RecB(U)'
<1>0. Inv1 /\ C(T) /\ RecA
  BY DEF Inv2
<1>1. CASE WriteInsert \/ WriteConfirm \/ WriteErase \/ WriteDisconnect
  <2>1. C(T)'
    BY <1>0, <1>1, WriteC
  <2>2. RecA' /\ RecB(T)'
    BY <1>1, InsertB, ConfirmB, EraseB, DisconnectB
  <2> QED
    BY <2>1, <2>2
<1>2. CASE AddBlockTX \/ RevertBlock \/ \E t \in Tx : RemoveTX(t)
  <2>1. C(T)'
    BY <1>0, <1>2, QuietC
  <2>2. RecB(T)'
    BY <1>2, AddBlockTXB, RevertBlockB, RemoveTXB
  <2>3. RecA'
    BY <1>0, <1>2, Unrecorded, RecAKept
  <2> QED
    BY <2>1, <2>2, <2>3
<1>3. CASE AddTX \/ AddedTX \/ AddBlock \/ AddedBlock
  <2>1. \/ C(T)' /\ RecB(T)'
        \/ C(Tail(T))' /\ RecB(Tail(T))'
    <3>1. CASE AddTX \/ AddBlock
      BY <1>0, <3>1, AddTXC, AddBlockC, AddTXB, AddBlockB
    <3>2. CASE AddedTX
      BY <1>0, <3>2, AddedTXC, AddedTXB
    <3>3. CASE AddedBlock
      BY <3>3, AddedBlockB
    <3> QED
      BY <1>3, <3>1, <3>2, <3>3
  <2>2. RecA'
    BY <1>0, <1>3, Unrecorded, RecAKept
  <2> QED
    BY <2>1, <2>2
<1>4. CASE RemoveBlock \/ ResetChain \/ Rescan \/ SyncNode \/ WentBack
  <2>1. \/ C(T)' /\ RecB(T)'
        \/ C(Tail(T))' /\ RecB(Tail(T))'
    <3>1. CASE RemoveBlock
      BY <3>1, RemoveBlockB
    <3>2. CASE ResetChain
      BY <3>2, ResetChainB
    <3>3. CASE Rescan \/ SyncNode
      BY <1>0, <3>3, RescanC, SyncNodeC, ScanB
    <3>4. CASE WentBack
      BY <3>4, WentBackB
    <3> QED
      BY <1>4, <3>1, <3>2, <3>3, <3>4
  <2>2. RecA'
    BY <1>0, <1>4, Unrecorded, RecAKept
  <2> QED
    BY <2>1, <2>2
<1>5. CASE ScanStart \/ ScanBlock \/ ScanEnd \/ Abort
  <2>1. \/ C(T)' /\ RecB(T)'
        \/ C(Tail(T))' /\ RecB(Tail(T))'
    <3>1. CASE ScanStart
      BY <3>1, ScanStartB
    <3>2. CASE ScanBlock
      BY <1>0, <3>2, ScanBlockC, ScanBlockB
    <3>3. CASE ScanEnd \/ Abort
      BY <1>0, <3>3, LeaveC, LeaveB
    <3> QED
      BY <1>5, <3>1, <3>2, <3>3
  <2>2. RecA'
    BY <1>0, <1>5, Unrecorded, RecAKept
  <2> QED
    BY <2>1, <2>2
<1>6. CASE Release \/ \E b \in Block : SetBest(b)
  <2>1. C(T)'
    BY <1>0, <1>6, ReleaseC, SetBestC
  <2>2. SetBest(goal') \/ Release
    <3>1. ASSUME NEW b \in Block, SetBest(b) PROVE SetBest(goal')
      <4>1. goal' = b
        BY <3>1 DEF SetBest
      <4> QED
        BY <3>1, <4>1
    <3> QED
      BY <1>6, <3>1
  <2>3. RecB(T)'
    BY <2>2, ParkedB
  <2>4. RecA'
    BY <1>0, <1>6, Unrecorded, RecAKept
  <2> QED
    BY <2>1, <2>3, <2>4
<1>7. CASE Move \/ AskRescan \/ (\E t \in Tx : Announce(t)) \/ \E b \in Block : Reset(b)
  <2>1. \A U : U = Append(T, tip') => C(U)'
    BY <1>0, <1>7, MoveC, AskRescanC, AnnounceC, ResetC
  <2>2. \A U : U = Append(T, tip') => RecB(U)'
    BY <1>7, AskedB
  <2>3. RecA'
    BY <1>0, <1>7, Unrecorded, RecAKept
  <2>4. PICK U : U = Append(T, tip')
    OBVIOUS
  <2>5. C(U)' /\ RecB(U)'
    BY <2>1, <2>2, <2>4
  <2> QED
    BY <2>3, <2>5
<1>8. CASE Crash
  <2>1. \A U : U = <<tip, tip>> => C(U)'
    BY <1>0, <1>8, CrashC
  <2>2. \A U : RecB(U)'
    BY <1>8, CrashB
  <2>3. RecA'
    BY <1>0, <1>8, Unrecorded, RecAKept
  <2>4. PICK U : U = <<tip, tip>>
    OBVIOUS
  <2>5. C(U)' /\ RecB(U)'
    BY <2>1, <2>2, <2>4
  <2> QED
    BY <2>3, <2>5
<1> QED
  BY <1>1, <1>2, <1>3, <1>4, <1>5, <1>6, <1>7, <1>8 DEF Next, WalletStep, ChainStep, Asked

LEMMA InitAll == Init => All
<1> SUFFICES ASSUME Init PROVE All
  OBVIOUS
<1>1. Inv1 /\ C(<<tip>>) /\ W = tip
  BY InitInv1, InitC
<1>2. /\ txs = [t \in Tx |-> Absent] /\ credits = {} /\ flagged = {} /\ undo = {}
      /\ blocks = [h \in Heights |-> <<>>] /\ run = NoJob /\ work = <<>> /\ tip = Start
      /\ balance = [tx |-> 0, coin |-> 0, unconfirmed |-> 0, confirmed |-> 0]
  BY DEF Init, TxDBInit
<1>3. \A t \in Tx : ~Mined(t) /\ ~IsPending(t) /\ ~Exists(t)
  BY <1>2, TxDBAssumption DEF Mined, IsPending, Exists
<1>4. run.stage = "start"
  BY <1>2, Jobs
<1>5. RecA
  <2>1. LineInv /\ MinedInv /\ UndoInv /\ PSpentInv /\ RivalInv /\ WatchInv /\ KInv
    BY <1>2, <1>3 DEF LineInv, MinedInv, UndoInv, PSpentInv, RivalInv, WatchInv, KInv
  <2>2. CreditInv /\ FlagInv
    BY <1>2, <1>3 DEF CreditInv, FlagInv
  <2>3. OrderInv
    BY <1>2 DEF OrderInv
  <2>4. Balance
    <3>1. Held = {} /\ Sure = {} /\ credits \ flagged = {}
      BY <1>2, <1>3 DEF Held, Sure
    <3>2. Cardinality({}) = 0
      BY FS_EmptySet
    <3> QED
      BY <1>2, <3>1, <3>2, SumEmpty DEF Balance
  <2> QED
    BY <2>1, <2>2, <2>3, <2>4 DEF RecA
<1>6. RecB(<<tip>>)
  <2>1. BelongInv /\ MKnownInv(<<tip>>) /\ AheadInv /\ PendInv /\ NoRivalInv
    BY <1>3 DEF BelongInv, MKnownInv, AheadInv, PendInv, NoRivalInv
  <2>2. CompleteInv
    BY <1>1, <1>2 DEF CompleteInv
  <2>3. PrefixInv /\ LeftInv /\ TopInv
    BY <1>4 DEF PrefixInv, LeftInv, TopInv
  <2>4. MappedInv
    BY <1>2 DEF MappedInv
  <2> QED
    BY <2>1, <2>2, <2>3, <2>4 DEF RecB
<1> QED
  BY <1>1, <1>5, <1>6 DEF All

LEMMA NextAll == All /\ [Next]_vars => All'
<1> SUFFICES ASSUME All, [Next]_vars PROVE All'
  OBVIOUS
<1>1. Inv1' /\ Inv1
  BY NextInv1 DEF All
<1>2. PICK T : C(T) /\ (torn \/ (RecA /\ RecB(T)))
  BY DEF All
<1>3. CASE UNCHANGED vars
  <2>1. /\ UNCHANGED <<tip, goal, locker, height, hashes, queue, run, work, cut, torn, txdb>>
    BY <1>3 DEF vars, chain, sync
  <2>2. C(T)'
    BY <1>2, <2>1, CKept
  <2>3. torn' \/ (RecA' /\ RecB(T)')
    BY <1>1, <1>2, <2>1, RecAKept, RecBSame
  <2> QED
    BY <1>1, <2>2, <2>3 DEF All
<1>4. CASE Next /\ torn'
  <2>1. \E U : C(U)'
    BY <1>1, <1>2, <1>4, NextC
  <2> QED
    BY <1>1, <1>4, <2>1 DEF All
<1>5. CASE Next /\ ~torn'
  <2>1. ~torn
    BY <1>1, <1>5, TornStays
  <2>2. Inv2(T)
    BY <1>1, <1>2, <2>1 DEF Inv2
  <2>3. RecA' /\ \E U : C(U)' /\ RecB(U)'
    BY <1>5, <2>2, NextB
  <2> QED
    BY <1>1, <2>3 DEF All
<1> QED
  BY <1>3, <1>4, <1>5

LEMMA AllHolds == Spec => []All
BY InitAll, NextAll, PTL DEF Spec

----------------------------------------------------------------------------
\* What follows from it.

LEMMA Adds1 == All => BalancesAdd
BY DEF All, BalancesAdd, RecA, Balance, Held, Sure

\* Whatever the order of insertions, confirmations, conflicts, removals, blocks that
\* come and go, and crashes, the running totals are what the records add up to.
THEOREM BalancesRight == Spec => []BalancesAdd
BY AllHolds, Adds1, PTL

LEMMA Agree1 == All => SpendsAgree
<1> SUFFICES ASSUME All, ~torn PROVE SpendsAgree
  BY DEF SpendsAgree
<1>0. RecA /\ TxDBTypeOK
  BY DEF All, Inv1, TypeOK
<1>1. credits \subseteq watch
  BY <1>0 DEF RecA, WatchInv
<1>2. \A c \in credits : c \in Coin /\ c \in Mine
  BY <1>0, TxDBAssumption DEF TxDBTypeOK
<1>3. \A t \in Tx : \A c \in Undone(t) :
        /\ c \in Coin /\ c \in Mine /\ <<t, c>> \in undo /\ c \in Inputs[t]
        /\ Exists(t) /\ spent[c] = t /\ Maker[c] \in Tx /\ Exists(Maker[c])
  <2> TAKE t \in Tx
  <2> TAKE c \in Undone(t)
  <2>1. <<t, c>> \in undo /\ c \in Inputs[t] /\ c \in Mine /\ c \in Coin
    BY <1>0, CoinSets DEF Undone
  <2> QED
    BY <1>0, <2>1 DEF RecA, UndoInv
<1>4. \A t \in Tx : \A c \in Undone(t) : c \in credits <=> txs[t] = Pending
  <2> TAKE t \in Tx
  <2> TAKE c \in Undone(t)
  <2>1. ASSUME c \in credits PROVE txs[t] = Pending
    <3>1. ~Mined(t)
      BY <1>0, <1>2, <1>3, <2>1 DEF RecA, CreditInv
    <3> QED
      BY <1>0, <1>3, <3>1, States DEF IsPending
  <2>2. ASSUME txs[t] = Pending PROVE c \in credits
    <3>1. \A y \in Tx : Mined(y) => <<y, c>> \notin undo
      <4> SUFFICES ASSUME NEW y \in Tx, Mined(y), <<y, c>> \in undo PROVE FALSE
        OBVIOUS
      <4>1. spent[c] = y
        BY <1>0, <1>3 DEF RecA, UndoInv
      <4>2. y = t
        BY <1>3, <4>1
      <4> QED
        BY <1>0, <2>2, <4>2, States DEF IsPending
    <3> QED
      BY <1>0, <1>3, <3>1 DEF RecA, CreditInv
  <2> QED
    BY <2>1, <2>2
<1>5. flagged = UNION {Undone(t) \cap credits : t \in Tx}
  <2>1. ASSUME NEW c \in flagged PROVE c \in UNION {Undone(t) \cap credits : t \in Tx}
    <3>1. c \in credits /\ c \in Coin /\ c \in Mine
      BY <1>0, <1>2 DEF TxDBTypeOK
    <3>2. PICK y \in Tx : IsPending(y) /\ <<y, c>> \in undo
      BY <1>0, <3>1 DEF RecA, FlagInv
    <3>3. c \in Undone(y)
      BY <1>0, <3>1, <3>2 DEF RecA, UndoInv, Undone
    <3> QED
      BY <3>1, <3>2, <3>3
  <2>2. ASSUME NEW t \in Tx, NEW c \in Undone(t) \cap credits PROVE c \in flagged
    <3>1. IsPending(t)
      BY <1>4 DEF IsPending
    <3> QED
      BY <1>0, <1>3, <3>1 DEF RecA, FlagInv
  <2> QED
    BY <2>1, <2>2
<1>6. ASSUME NEW t \in Tx, Mined(t) PROVE Inputs[t] \cap credits = {}
  <2> SUFFICES ASSUME NEW c \in Inputs[t], c \in credits PROVE FALSE
    OBVIOUS
  <2>1. c \in Coin /\ c \in Mine /\ Maker[c] \in Tx /\ Exists(Maker[c]) /\ <<t, c>> \notin undo
    BY <1>0, <1>2, <1>6 DEF RecA, CreditInv
  <2> QED
    BY <1>0, <1>6, <2>1 DEF RecA, KInv
<1>7. ASSUME NEW t \in Tx, txs[t] = Pending PROVE \A c \in Inputs[t] : spent[c] = t /\ c \in watch
  BY <1>0, <1>7 DEF RecA, PSpentInv, IsPending
<1>8. ASSUME NEW t \in Tx, Exists(t), NEW x \in Tx \ {t}, Exists(x) PROVE Inputs[t] \cap Inputs[x] = {}
  BY <1>0, <1>8 DEF RecA, RivalInv
<1> QED
  BY <1>1, <1>3, <1>4, <1>5, <1>6, <1>7, <1>8 DEF SpendsAgree

\* The records of spends agree: each coin the wallet spends names its one spender,
\* and is a flagged credit while that is pending and none once it is mined.
THEOREM SpendsRight == Spec => []SpendsAgree
BY AllHolds, Agree1, PTL

LEMMA Fails1 == All => NeverFails
<1> SUFFICES ASSUME All, ~torn, Fails PROVE FALSE
  BY DEF NeverFails
<1> DEFINE t == Head(work)[2]
<1>0. PICK T : Inv2(T)
  BY DEF All, Inv2
<1>1. Inv1 /\ RecA /\ TxDBTypeOK /\ BlocksInv /\ work # <<>> /\ t \in Tx
  BY <1>0, WorkHead DEF Inv2, Inv1, TypeOK, Fails
<1>2. CASE Head(work)[1] = "confirm" /\ ~ConfirmHolds(t)
  <2>1. /\ Len(work) = 1 /\ run.stage = "adding" /\ Current(t) /\ run.block # NoBlock /\ IsPending(t)
    BY <1>1, <1>2, WorkHead
  <2>2. ~Mined(t) /\ Exists(t) /\ work[1][2] = t
    <3>1. work \in Seq(Batches)
      BY <1>1, Inv1Is DEF Rest1
    <3>2. Head(work) = work[1]
      BY <1>1, <3>1, Tails
    <3> QED
      BY <1>1, <2>1, <3>2, States
  <2>3. Fed(t, run.block)
    BY <1>0, <1>1, <2>1, <2>2, Ready
  <2> HIDE DEF t
  <2>4. Newly(t) \subseteq mined
    <3> SUFFICES ASSUME NEW c \in Newly(t) PROVE c \in mined
      OBVIOUS
    <3>1. c \in credits /\ c \in Inputs[t] /\ c \in Coin
      BY <1>1, CoinSets
    <3>2. c \in Mine /\ Maker[c] \in Tx /\ Exists(Maker[c])
      BY <1>1, <3>1 DEF RecA, CreditInv
    <3>3. Mined(Maker[c])
      BY <2>3, <3>1, <3>2 DEF Fed
    <3> QED
      BY <1>1, <3>1, <3>3 DEF RecA, MinedInv
  <2>5. ASSUME NEW c \in Undone(t) PROVE <<t, c>> \in undoMined
    <3>1. c \in Inputs[t] /\ c \in Mine /\ <<t, c>> \in undo
      BY <1>1, CoinSets DEF Undone
    <3>2. Maker[c] \in Tx /\ Exists(Maker[c]) /\ (Mined(Maker[c]) => <<t, c>> \in undoMined)
      BY <1>1, <3>1 DEF RecA, UndoInv
    <3>3. Mined(Maker[c])
      BY <2>3, <3>1, <3>2 DEF Fed
    <3> QED
      BY <3>2, <3>3
  <2>6. ConfirmHolds(t)
    BY <2>4, <2>5 DEF ConfirmHolds, Undos
  <2> QED
    BY <1>2, <2>6
<1>3. CASE Head(work)[1] = "disconnect" /\ Mined(t) /\ ~DisconnectHolds(t)
  <2>1. PICK h \in Heights : Undoes(h)
    BY <1>1, <1>3, WorkHead DEF UndoWork
  <2>2. /\ Len(work) = Len(blocks[h]) /\ Len(work) \in Nat \ {0}
        /\ Height[txs[work[1][2]]] = h /\ work[1] = <<"disconnect", blocks[h][Len(work) + 1 - 1]>>
    <3>1. Len(work) \in Nat \ {0} /\ 1 \in 1..Len(work)
      BY <1>1, <2>1, UndoesWork
    <3> QED
      BY <1>1, <2>1, <3>1, UndoesWork
  <2>3. work \in Seq(Batches) /\ Head(work) = work[1]
    <3>1. work \in Seq(Batches)
      BY <1>1, Inv1Is DEF Rest1
    <3> QED
      BY <1>1, <3>1, Tails
  <2>4. t = blocks[h][Len(blocks[h])] /\ Height[txs[t]] = h
    BY <2>2, <2>3
  <2>5. blocks[h] # <<>> => Last(blocks[h]) = t
    <3>1. blocks[h] \in Seq(Tx)
      BY <1>1 DEF TxDBTypeOK
    <3> QED
      BY <2>4, <3>1, Fronts
  <2> HIDE DEF t
  <2>6. ASSUME NEW c \in Undone(t) PROVE <<t, c>> \in undoMined
    <3>1. c \in Inputs[t] /\ c \in Mine /\ <<t, c>> \in undo
      BY <1>1, CoinSets DEF Undone
    <3>2. Maker[c] \in Tx /\ Exists(Maker[c]) /\ (Mined(Maker[c]) => <<t, c>> \in undoMined)
      BY <1>1, <3>1 DEF RecA, UndoInv
    <3>3. Mined(Maker[c])
      BY <1>1, <1>3, <3>1, <3>2 DEF RecA, KInv
    <3> QED
      BY <3>2, <3>3
  <2>7. DisconnectHolds(t)
    BY <2>4, <2>5, <2>6 DEF DisconnectHolds, Undos
  <2> QED
    BY <1>3, <2>7
<1> QED
  BY <1>2, <1>3 DEF Fails

\* No assertion of confirm or disconnect fails: the parents of a transaction that is
\* mined have their height, and a block is taken back last first.
THEOREM AssertionsHold == Spec => []NeverFails
BY AllHolds, Fails1, PTL

\* Between two requests, with the chain at rest, the wallet's hashes are the chain's;
\* and they end in its tip, unless a scan was cut short.
Follows == Settled => Seen \subseteq Main /\ (cut \/ hashes[height] = tip)

LEMMA AtRest ==
  ASSUME Inv1, NEW T, C(T), Settled
  PROVE  /\ T[1] = tip /\ Kind = "none" /\ run.stage = "start" /\ W \in Main
         /\ Seen = Anc[W] /\ (cut \/ W = tip)
<1>0. /\ queue = <<>> /\ Len(queue) = 0
  BY DEF Settled
<1>1. T[1] = tip /\ Len(T) = 1 /\ T \in Seq(Block)
  BY <1>0 DEF C, TrailInv
<1>2. Kind = "none" /\ run.stage = "start"
  BY <1>0 DEF Kind, Inv1, StageInv
<1>3. W \in Main
  BY <1>1, <1>2 DEF C, KnownInv, Lost, Stuck, Main
<1>4. cut \/ W = tip
  <2>1. cut \/ \E i \in 1..Len(T) : T[i] = W
    BY <1>2 DEF C, CaughtInv
  <2> QED
    BY <1>1, <2>1
<1>5. Seen = Anc[W]
  <2>1. /\ W \in Block /\ Height[W] = height /\ height \in Nat
        /\ \A h \in 0..height : hashes[h] \in Anc[W] /\ Height[hashes[h]] = h
    BY WIs DEF C, PathInv
  <2>2. ASSUME NEW a \in Anc[W] PROVE a \in Seen
    <3>1. a \in Block /\ Height[a] \in Nat /\ Height[a] <= height
      BY <2>1, Lines
    <3>2. Height[a] \in 0..height
      BY <2>1, <3>1
    <3>3. hashes[Height[a]] = a
      BY <2>1, <3>2, Lines
    <3> QED
      BY <3>2, <3>3 DEF Seen
  <2>3. Seen \subseteq Anc[W]
    BY <2>1 DEF Seen
  <2> QED
    BY <2>2, <2>3
<1> QED
  BY <1>1, <1>2, <1>3, <1>4, <1>5

LEMMA Follows1 == All => Follows
<1> SUFFICES ASSUME All, Settled PROVE Seen \subseteq Main /\ (cut \/ hashes[height] = tip)
  BY DEF Follows
<1>1. PICK T : Inv1 /\ C(T)
  BY DEF All
<1>2. W \in Main /\ Seen = Anc[W] /\ (cut \/ W = tip)
  BY <1>1, AtRest
<1>3. tip \in Block
  BY <1>1, WIs
<1> QED
  BY <1>2, <1>3, Lines DEF Main, W

\* Whatever crashes and removals do to the records, the wallet's line of hashes is
\* the chain's: the events, resets and scans that move it follow each other.
THEOREM HashesFollow == Spec => []Follows
BY AllHolds, Follows1, PTL

LEMMA Follows2 == All => FollowsChain
<1> SUFFICES ASSUME All, Settled, ~torn PROVE FollowsChain
  BY DEF FollowsChain
<1>0. PICK T : Inv2(T)
  BY DEF All, Inv2
<1>1. Inv1 /\ C(T) /\ RecB(T) /\ TxDBTypeOK
  BY <1>0 DEF Inv2, Inv1, TypeOK
<1>2. /\ T[1] = tip /\ Kind = "none" /\ run.stage = "start" /\ W \in Main
      /\ Seen = Anc[W] /\ (cut \/ W = tip) /\ queue = <<>>
  BY <1>1, AtRest DEF Settled
<1>3. /\ tip \in Block /\ W \in Block /\ Height[W] = height /\ height \in Nat /\ FullyValid(W)
  BY <1>1, WIs DEF C, ValidInv
<1>4. Seen \subseteq Main /\ (cut \/ hashes[height] = tip)
  BY <1>1, Follows1 DEF Follows
<1>5. \A a : ~Open(a)
  BY <1>2, <1>3 DEF Open, Hollow, ResetDue
<1>6. ASSUME NEW t \in Tx, Mined(t)
      PROVE  /\ t \in TxsOf(txs[t]) /\ txs[t] \in Block
             /\ txs[t] \in Seen \/ (cut /\ Height[txs[t]] > height)
  <2>1. /\ t \in TxsOf(txs[t]) /\ txs[t] \in Block /\ txs[t] \in Main
        /\ txs[t] \in Anc[W] \/ Parent[txs[t]] = W
    <3>1. ~Unsynced
      BY <1>2 DEF Unsynced
    <3>2. txs[t] \in Anc[T[1]]
      BY <1>1, <1>2, <1>6, <3>1, MinedKnown
    <3> QED
      BY <1>1, <1>2, <1>6, <3>2 DEF RecB, BelongInv, Mined, Main
  <2>2. CASE txs[t] \in Anc[W]
    BY <1>2, <2>1, <2>2
  <2>3. CASE Parent[txs[t]] = W
    <3>1. Height[txs[t]] = height + 1 /\ txs[t] \notin Anc[W]
      BY <1>3, <2>1, <2>3, Child
    <3>2. cut
      BY <1>2, <2>1, <3>1 DEF Main
    <3> QED
      BY <1>3, <2>1, <3>1, <3>2
  <2> QED
    BY <2>1, <2>2, <2>3
<1>7. ASSUME NEW t \in Tx, txs[t] = Pending PROVE \A b \in Seen : Rivals(t) \cap TxsOf(b) = {}
  BY <1>1, <1>2, <1>7 DEF RecB, NoRivalInv, IsPending
<1>8. ASSUME NEW t \in Tx, ~cut, Ours(t) \cup Known(t) # {}, NEW b \in Seen \ Anc[Start], t \in TxsOf(b)
      PROVE  txs[t] = b
  <2>1. Mined(t)
    BY <1>1, <1>2, <1>5, <1>8 DEF RecB, CompleteInv, Matters
  <2>2. t \in TxsOf(txs[t]) /\ txs[t] \in Anc[W]
    BY <1>2, <1>6, <1>8, <2>1
  <2> QED
    BY <1>2, <1>3, <1>8, <2>2, OneBlock
<1> QED
  BY <1>4, <1>6, <1>7, <1>8 DEF FollowsChain

\* At rest, the wallet has as mined the transactions of the chain that concern it,
\* each in its block, and none pending that the chain rules out.
THEOREM WalletFollows == Spec => []FollowsChain
BY AllHolds, Follows2, PTL
=============================================================================
