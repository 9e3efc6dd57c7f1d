---------------------------- MODULE ChainProofs ----------------------------
(***************************************************************************)
(* Proofs about Chain for every tree of blocks and every bound.  Inv is    *)
(* inductive until an error ends a reset (broken, which ~ResetFaults       *)
(* excludes): each batch of ChainDB keeps what the invariant says of the   *)
(* committed chain, and the steps of Chain cite the batch they write.  The *)
(* refinement of Ledger follows from the same lemmas.                      *)
(*                                                                         *)
(* The second part is first about what holds whatever fails, with I/O      *)
(* errors in add() and in reset(), crashes, and this.tip out of step with  *)
(* the disk: types are kept; because the block store is written before the *)
(* index, every record on disk points at data that is there; and the       *)
(* orphan pool stays bounded and holds nothing that could be connected.    *)
(* Then, with the invariant of the first part as well, it is about what    *)
(* the marks of invalid blocks rest on, what pruning leaves, and when the  *)
(* tip is best.                                                            *)
(***************************************************************************)
EXTENDS Chain, BlockTreeProofs, SequenceTheorems, TLAPS

----------------------------------------------------------------------------
\* The tree.

LEMMA Ancestors ==
  ASSUME NEW b \in Block
  PROVE  /\ Anc[b] \subseteq Block
         /\ b \in Anc[b]
         /\ Genesis \in Anc[b]
<1>1. Anc[b] \subseteq Block
  BY TreeAssumption
<1>2. Genesis \in Anc[b]
  BY AncestryFacts
<1>3. CASE b = Genesis
  BY <1>1, <1>2, <1>3
<1>4. CASE b # Genesis
  <2>1. b \in Block \ {Genesis}
    BY <1>4
  <2>2. Anc[b] = Anc[Parent[b]] \cup {b}
    BY <2>1, TreeAssumption
  <2> QED
    BY <1>1, <1>2, <2>2
<1> QED
  BY <1>3, <1>4

\* A block other than the genesis block is one step above its parent.
LEMMA Step ==
  ASSUME NEW b \in Block, b # Genesis
  PROVE  /\ Parent[b] \in Block
         /\ Parent[b] # b
         /\ b \notin Anc[Parent[b]]
         /\ Anc[b] = Anc[Parent[b]] \cup {b}
         /\ Height[b] = Height[Parent[b]] + 1
         /\ Height[b] \in Nat /\ Height[Parent[b]] \in Nat
<1>1. b \in Block \ {Genesis}
  OBVIOUS
<1>2. /\ Parent[b] \in Block
      /\ b \notin Anc[Parent[b]]
      /\ Anc[b] = Anc[Parent[b]] \cup {b}
      /\ Height[b] = Height[Parent[b]] + 1
  BY <1>1, TreeAssumption
<1>3. Height[b] \in Nat /\ Height[Parent[b]] \in Nat
  BY <1>2, TreeAssumption
<1> QED
  BY <1>2, <1>3

\* Nothing on a chain is as high as a block on top of it, and nothing but that
\* block has the tip for a parent.
LEMMA AboveTip ==
  ASSUME NEW b \in Block, b # Genesis, NEW a \in Anc[Parent[b]]
  PROVE  a \in Block /\ Height[a] # Height[b] /\ Parent[a] # Parent[b]
<1>1. Parent[b] \in Block
  BY Step
<1>2. a \in Block
  BY <1>1, Ancestors
<1>3. Height[a] \in Nat /\ Height[Parent[b]] \in Nat
  BY <1>1, <1>2, TreeAssumption
<1>4. Height[a] <= Height[Parent[b]]
  <2>1. a # Parent[b] => Height[a] < Height[Parent[b]]
    BY <1>1, AncestryFacts
  <2> QED
    BY <2>1, <1>3
<1>5. Height[a] # Height[b]
  BY <1>3, <1>4, Step
<1>6. Parent[a] # Parent[b]
  <2>1. CASE a = Genesis
    BY <2>1, <1>1, TreeAssumption
  <2>2. CASE a # Genesis
    BY <2>2, <1>2, <1>5, Step
  <2> QED
    BY <2>1, <2>2
<1> QED
  BY <1>2, <1>5, <1>6

----------------------------------------------------------------------------
\* Coins.

LEMMA ValidParent ==
  ASSUME NEW b \in Block, b # Genesis, FullyValid(b)
  PROVE  FullyValid(Parent[b]) /\ ValidInContext(b)
BY Step, Ancestors DEF FullyValid

LEMMA ExtendValid ==
  ASSUME NEW b \in Block, b # Genesis, FullyValid(Parent[b]), ValidInContext(b)
  PROVE  FullyValid(b)
BY Step DEF FullyValid

\* connectBlock turns the coins of one chain into those of the next.
LEMMA ConnectCoins ==
  ASSUME NEW b \in Block, b # Genesis
  PROVE  (Unspent[Parent[b]] \cup Creates[b]) \ Spends[b] = Unspent[b]
<1>1. b \in Block \ {Genesis}
  OBVIOUS
<1> QED
  BY <1>1, CoinAssumption

\* A valid block creates nothing that is there already.
LEMMA CreatesNew ==
  ASSUME NEW b \in Block, b # Genesis, ValidInContext(b)
  PROVE  Creates[b] \cap Unspent[Parent[b]] = {}
<1>1. b \in Block \ {Genesis} /\ Spends[b] \subseteq Unspent[Parent[b]] \cup Creates[b]
  BY DEF ValidInContext, InputsExist
<1>2. CASE Bip34 \/ Height[b] <= LastCheckpoint
  BY <1>1, <1>2, CoinAssumption
<1>3. CASE ~Bip34 /\ ~IsHistorical(b)
  BY <1>3 DEF ValidInContext, NoDuplicates
<1> QED
  BY <1>2, <1>3 DEF IsHistorical

\* disconnectBlock, with the undo coins, turns them back.
LEMMA DisconnectCoins ==
  ASSUME NEW b \in Block, b # Genesis, FullyValid(b)
  PROVE  (Unspent[b] \cup Spends[b]) \ Creates[b] = Unspent[Parent[b]]
<1>1. ValidInContext(b)
  BY ValidParent
<1>2. Spends[b] \subseteq Unspent[Parent[b]] \cup Creates[b]
  BY <1>1 DEF ValidInContext, InputsExist
<1> QED
  BY <1>1, <1>2, ConnectCoins, CreatesNew

----------------------------------------------------------------------------
\* The batches of ChainDB.

\* A block that passes verifyContext on the coins of its parent is valid.
LEMMA VerdictSound ==
  ASSUME NEW b \in Block, NEW intact \in BOOLEAN, NEW late \in BOOLEAN,
         coins = Unspent[Parent[b]],
         ContextVerdict(b, intact, late, coins) = "ok"
  PROVE  ValidInContext(b)
<1>1. HeaderVerdict(b, intact, late) = "ok"
  BY DEF ContextVerdict
<1>2. CheckpointHolds(b) /\ b \notin HeaderBad \cup ContextBad
  BY <1>1 DEF HeaderVerdict
<1>3. /\ InputsExist(b, coins)
      /\ IsHistorical(b) \/ ((Bip34 \/ NoDuplicates(b, coins)) /\ b \notin ScriptBad)
  BY <1>1 DEF ContextVerdict
<1> QED
  BY <1>2, <1>3 DEF ValidInContext

\* What the invariant says of the committed chain.
Committed ==
  DbTypeOK /\ MainIndexed /\ CoinsAtTip /\ OnlyValidConnected /\ UndoKept

LEMMA Connect ==
  ASSUME Committed, NEW b \in Block, b # Genesis, Parent[b] = dbTip,
         ValidInContext(b), Connected(b), entries' \subseteq Block, tips' \subseteq Block
  PROVE  Committed'
<1> USE DEF Committed
<1>1. dbTip' = b /\ dbTip \in Block
  BY Step DEF Connected
<1>2. Anc[b] = Anc[dbTip] \cup {b} /\ b \notin Anc[dbTip] /\ Anc[dbTip] \subseteq Block
  BY <1>1, Step, Ancestors
<1>3. Height[b] \in Heights
  BY DEF Heights
<1>4. DbTypeOK'
  <2>1. coins' \subseteq Coin
    BY CoinAssumption DEF Connected, DbTypeOK
  <2>2. blocks' \subseteq Block /\ undo' \subseteq Block
    BY DEF Connected, DbTypeOK, BlocksWith, UndosWith, UndoOf
  <2>3. mainAt' \in [Heights -> Block \cup {NoBlock}]
    BY <1>3 DEF Connected, DbTypeOK
  <2>4. nextOf' \in [Block -> Block \cup {NoBlock}]
    BY DEF Connected, DbTypeOK
  <2> QED
    BY <1>1, <2>1, <2>2, <2>3, <2>4 DEF DbTypeOK
<1>5. MainIndexed'
  <2> SUFFICES ASSUME NEW c \in Block
               PROVE  /\ \A h \in Heights : mainAt'[h] = c <=> c \in Anc[b] /\ Height[c] = h
                      /\ \A a \in Block : nextOf'[a] = c <=> c \in Anc[b] /\ Parent[c] = a
    BY <1>1 DEF MainIndexed
  <2>1. ASSUME NEW h \in Heights
        PROVE  mainAt'[h] = c <=> c \in Anc[b] /\ Height[c] = h
    <3>1. CASE h = Height[b]
      <4>1. mainAt'[h] = b
        BY <3>1 DEF Connected, DbTypeOK
      <4>2. c \in Anc[dbTip] => Height[c] # h
        BY <3>1, AboveTip
      <4> QED
        BY <3>1, <4>1, <4>2, <1>2
    <3>2. CASE h # Height[b]
      <4>1. mainAt'[h] = mainAt[h]
        BY <3>2 DEF Connected, DbTypeOK
      <4> QED
        BY <3>2, <4>1, <1>2 DEF MainIndexed
    <3> QED
      BY <3>1, <3>2
  <2>2. ASSUME NEW a \in Block
        PROVE  nextOf'[a] = c <=> c \in Anc[b] /\ Parent[c] = a
    <3>1. CASE a = dbTip
      <4>1. nextOf'[a] = b
        BY <3>1 DEF Connected, DbTypeOK
      <4>2. c \in Anc[dbTip] => Parent[c] # a
        BY <3>1, AboveTip
      <4> QED
        BY <3>1, <4>1, <4>2, <1>2
    <3>2. CASE a # dbTip
      <4>1. nextOf'[a] = nextOf[a]
        BY <3>2 DEF Connected, DbTypeOK
      <4> QED
        BY <3>2, <4>1, <1>2 DEF MainIndexed
    <3> QED
      BY <3>1, <3>2
  <2> QED
    BY <2>1, <2>2
<1>6. OnlyValidConnected'
  BY <1>1, ExtendValid DEF OnlyValidConnected
<1>7. CoinsAtTip'
  <2>1. coins' = (Unspent[Parent[b]] \cup Creates[b]) \ Spends[b]
    BY DEF Connected, CoinsAtTip
  <2>2. coins' = Unspent[b]
    BY <2>1, ConnectCoins DEF OnlyValidConnected
  <2> QED
    BY <1>1, <2>2 DEF CoinsAtTip
<1>8. UndoKept'
  <2> SUFFICES ASSUME ~Prune, NEW a \in Anc[b]
               PROVE  CanDisconnect(a)'
    BY <1>1 DEF UndoKept
  <2>1. PrunedBy(b) = {}
    BY DEF PrunedBy
  <2>2. blocks' = blocks \cup {b} /\ undo' = undo \cup UndoOf(b)
    BY <2>1 DEF Connected, BlocksWith, UndosWith
  <2>3. CASE a = b
    BY <2>2, <2>3 DEF CanDisconnect, HasUndo, UndoOf
  <2>4. CASE a \in Anc[dbTip]
    BY <2>2, <2>4 DEF CanDisconnect, HasUndo, UndoKept
  <2> QED
    BY <2>3, <2>4, <1>2
<1> QED
  BY <1>4, <1>5, <1>6, <1>7, <1>8

LEMMA Undo ==
  ASSUME Committed, dbTip # Genesis, Disconnected(dbTip),
         entries' \subseteq Block, tips' \subseteq Block
  PROVE  /\ Committed'
         /\ dbTip' = Parent[dbTip]
         /\ Anc[dbTip'] = Anc[dbTip] \ {dbTip}
<1> USE DEF Committed
<1> DEFINE b == dbTip
           p == Parent[dbTip]
<1>1. dbTip' = p /\ b \in Block /\ p \in Block
  BY Step DEF Disconnected, DbTypeOK
<1>2. Anc[b] = Anc[p] \cup {b} /\ b \notin Anc[p] /\ Anc[p] \subseteq Block
  BY <1>1, Step, Ancestors
<1>3. Height[b] \in Heights
  BY <1>1 DEF Heights
<1>4. DbTypeOK'
  <2>1. coins' \subseteq Coin
    BY <1>1, CoinAssumption DEF Disconnected, DbTypeOK
  <2>2. blocks' \subseteq Block /\ undo' \subseteq Block
    BY DEF Disconnected, DbTypeOK, store
  <2>3. mainAt' \in [Heights -> Block \cup {NoBlock}]
    BY <1>3 DEF Disconnected, DbTypeOK
  <2>4. nextOf' \in [Block -> Block \cup {NoBlock}]
    BY DEF Disconnected, DbTypeOK
  <2> QED
    BY <1>1, <2>1, <2>2, <2>3, <2>4 DEF DbTypeOK
<1>5. MainIndexed'
  <2> SUFFICES ASSUME NEW c \in Block
               PROVE  /\ \A h \in Heights : mainAt'[h] = c <=> c \in Anc[p] /\ Height[c] = h
                      /\ \A a \in Block : nextOf'[a] = c <=> c \in Anc[p] /\ Parent[c] = a
    BY <1>1 DEF MainIndexed
  <2>1. c # NoBlock
    BY TreeAssumption
  <2>2. c \in Anc[p] => Height[c] # Height[b] /\ Parent[c] # p
    BY <1>1, AboveTip
  <2>3. ASSUME NEW h \in Heights
        PROVE  mainAt'[h] = c <=> c \in Anc[p] /\ Height[c] = h
    <3>1. CASE h = Height[b]
      <4>1. mainAt'[h] = NoBlock
        BY <3>1 DEF Disconnected, DbTypeOK
      <4> QED
        BY <3>1, <4>1, <2>1, <2>2
    <3>2. CASE h # Height[b]
      <4>1. mainAt'[h] = mainAt[h]
        BY <3>2 DEF Disconnected, DbTypeOK
      <4> QED
        BY <3>2, <4>1, <1>2 DEF MainIndexed
    <3> QED
      BY <3>1, <3>2
  <2>4. ASSUME NEW a \in Block
        PROVE  nextOf'[a] = c <=> c \in Anc[p] /\ Parent[c] = a
    <3>1. CASE a = p
      <4>1. nextOf'[a] = NoBlock
        BY <3>1 DEF Disconnected, DbTypeOK
      <4> QED
        BY <3>1, <4>1, <2>1, <2>2
    <3>2. CASE a # p
      <4>1. nextOf'[a] = nextOf[a]
        BY <3>2 DEF Disconnected, DbTypeOK
      <4> QED
        BY <3>2, <4>1, <1>2 DEF MainIndexed
    <3> QED
      BY <3>1, <3>2
  <2> QED
    BY <2>3, <2>4
<1>6. OnlyValidConnected'
  BY <1>1, ValidParent DEF OnlyValidConnected
<1>7. CoinsAtTip'
  <2>1. coins' = (Unspent[b] \cup Spends[b]) \ Creates[b]
    BY DEF Disconnected, CoinsAtTip
  <2>2. coins' = Unspent[p]
    BY <1>1, <2>1, DisconnectCoins DEF OnlyValidConnected
  <2> QED
    BY <1>1, <2>2 DEF CoinsAtTip
<1>8. UndoKept'
  BY <1>1, <1>2 DEF UndoKept, CanDisconnect, HasUndo, Disconnected, store
<1> QED
  BY <1>1, <1>2, <1>4, <1>5, <1>6, <1>7, <1>8

\* isMainChain answers for exactly the ancestors of the tip.
LEMMA MainChain ==
  ASSUME Committed, NEW b \in Block
  PROVE  IsMainChain(b) <=> b \in Anc[dbTip]
<1> USE DEF Committed
<1>1. dbTip \in Block
  BY DEF DbTypeOK
<1>2. CASE b = Genesis \/ b = dbTip
  BY <1>1, <1>2, Ancestors DEF IsMainChain
<1>3. CASE b # Genesis /\ b # dbTip
  <2>1. ASSUME b \in Anc[dbTip]
        PROVE  nextOf[b] # NoBlock
    <3>1. PICK c \in Anc[dbTip] : Parent[c] = b
      BY <1>1, <1>3, <2>1, AncestryFacts
    <3>2. c \in Block
      BY <1>1, Ancestors
    <3>3. nextOf[b] = c
      BY <3>1, <3>2 DEF MainIndexed
    <3> QED
      BY <3>2, <3>3, TreeAssumption
  <2>2. ASSUME nextOf[b] # NoBlock
        PROVE  b \in Anc[dbTip]
    <3>1. nextOf[b] \in Block
      BY <2>2 DEF DbTypeOK
    <3>2. nextOf[b] \in Anc[dbTip] /\ Parent[nextOf[b]] = b
      BY <3>1 DEF MainIndexed
    <3>3. nextOf[b] # Genesis
      BY <3>2, TreeAssumption
    <3>4. b \in Anc[nextOf[b]]
      BY <3>1, <3>2, <3>3, Step, Ancestors
    <3> QED
      BY <1>1, <3>2, <3>4, AncestryFacts
  <2> QED
    BY <1>3, <2>1, <2>2 DEF IsMainChain
<1> QED
  BY <1>2, <1>3

----------------------------------------------------------------------------
\* The types of what lives in memory.

MemTypeOK ==
  /\ tip \in Block
  /\ invalid \subseteq Block
  /\ orphans \in Seq(Copy)
  /\ queue \in Seq(Call)
  /\ pc \in {"idle", "connect", "extend", "orphans", "unwind"}
  /\ cand \in Copy
  /\ call \in Call
  /\ known \subseteq Block
  /\ broken \in BOOLEAN

LEMMA TypeSplit == TypeOK <=> DbTypeOK /\ MemTypeOK
BY DEF TypeOK, MemTypeOK

\* A piece of a sequence, and a sequence with one element cut out.
LEMMA PieceType ==
  ASSUME NEW S, NEW s \in Seq(S), NEW m \in Nat \ {0}, NEW n \in Int, n <= Len(s)
  PROVE  SubSeq(s, m, n) \in Seq(S)
<1>1. \A i \in m..n : s[i] \in S
  BY LenProperties, ElementOfSeq
<1> QED
  BY <1>1, SubSeqProperties

LEMMA RemoveType ==
  ASSUME NEW S, NEW s \in Seq(S), NEW i \in 1..Len(s)
  PROVE  RemoveAt(s, i) \in Seq(S)
<1>1. Len(s) \in Nat
  BY LenProperties
<1>2. SubSeq(s, 1, i - 1) \in Seq(S)
  BY <1>1, PieceType
<1>3. SubSeq(s, i + 1, Len(s)) \in Seq(S)
  BY <1>1, PieceType
<1> QED
  BY <1>2, <1>3, ConcatProperties DEF RemoveAt

LEMMA PoolTypes ==
  ASSUME orphans \in Seq(Copy)
  PROVE  /\ \A p : WithoutSibling(p) \in Seq(Copy)
         /\ \A pool \in Seq(Copy) : Limited(pool) \in Seq(Copy)
<1>1. ASSUME NEW p
      PROVE  WithoutSibling(p) \in Seq(Copy)
  <2>1. CASE ~HasNextOrphan(p)
    BY <2>1 DEF WithoutSibling
  <2>2. CASE HasNextOrphan(p)
    <3> DEFINE at == CHOOSE i \in 1..Len(orphans) : Parent[orphans[i].block] = p
    <3>1. DOMAIN orphans = 1..Len(orphans)
      BY LenProperties
    <3>2. \E i \in 1..Len(orphans) : Parent[orphans[i].block] = p
      BY <2>2, <3>1 DEF HasNextOrphan, ToSet
    <3>3. at \in 1..Len(orphans)
      BY <3>2
    <3>4. RemoveAt(orphans, at) \in Seq(Copy)
      BY <3>3, RemoveType
    <3> QED
      BY <2>2, <3>4 DEF WithoutSibling
  <2> QED
    BY <2>1, <2>2
<1>2. ASSUME NEW pool \in Seq(Copy)
      PROVE  Limited(pool) \in Seq(Copy)
  <2>1. CASE Len(pool) < MaxOrphans
    BY <2>1 DEF Limited
  <2>2. CASE ~(Len(pool) < MaxOrphans)
    <3>1. pool # <<>>
      BY <2>2, EmptySeq, ChainAssumption
    <3>2. Tail(pool) \in Seq(Copy)
      BY <3>1, HeadTailProperties
    <3> QED
      BY <2>2, <3>2 DEF Limited
  <2> QED
    BY <2>1, <2>2
<1> QED
  BY <1>1, <1>2

\* The call at the head of the queue, and the queue behind it.
LEMMA HeadOfQueue ==
  ASSUME MemTypeOK, queue # <<>>
  PROVE  /\ Head(queue) \in Call
         /\ CopyIn(Head(queue)) \in Copy
         /\ Tail(queue) \in Seq(Call)
<1>1. Head(queue) \in Call /\ Tail(queue) \in Seq(Call)
  BY HeadTailProperties DEF MemTypeOK
<1>2. CopyIn(Head(queue)) \in Copy
  BY <1>1 DEF Call, Copy, CopyIn
<1> QED
  BY <1>1, <1>2

LEMMA ReleaseType ==
  ASSUME Release
  PROVE  /\ pc' = "idle" /\ cand' \in Copy /\ call' \in Call
BY TreeAssumption DEF Release, NoCopy, NoCall, Copy, Call

----------------------------------------------------------------------------
\* Steps that leave the committed chain alone.

\* The main chain records stay; its entries stay; without pruning the block
\* store only grows.
LEMMA Stored ==
  ASSUME Committed, UNCHANGED <<mainAt, nextOf, dbTip, coins>>,
         entries' \subseteq Block, tips' \subseteq Block,
         blocks' \subseteq Block, undo' \subseteq Block,
         Anc[dbTip] \subseteq entries',
         ~Prune => blocks \subseteq blocks' /\ undo \subseteq undo'
  PROVE  Committed' /\ EntriesOfMain'
<1> USE DEF Committed
<1>1. DbTypeOK'
  BY DEF DbTypeOK
<1>2. MainIndexed' /\ CoinsAtTip' /\ OnlyValidConnected' /\ EntriesOfMain'
  BY DEF MainIndexed, CoinsAtTip, OnlyValidConnected, EntriesOfMain
<1>3. UndoKept'
  BY DEF UndoKept, CanDisconnect, HasUndo
<1> QED
  BY <1>1, <1>2, <1>3

LEMMA Untouched ==
  ASSUME Committed, EntriesOfMain, UNCHANGED dbVars
  PROVE  Committed' /\ EntriesOfMain'
<1>1. UNCHANGED <<mainAt, nextOf, dbTip, coins>> /\ UNCHANGED <<entries, tips, blocks, undo>>
  BY DEF dbVars, index, store
<1>2. entries \subseteq Block /\ tips \subseteq Block /\ blocks \subseteq Block
      /\ undo \subseteq Block /\ Anc[dbTip] \subseteq entries
  BY DEF Committed, DbTypeOK, EntriesOfMain
<1> QED
  BY <1>1, <1>2, Stored

LEMMA InvParts ==
  Inv <=> /\ Committed /\ EntriesOfMain /\ MemTypeOK
          /\ TipAgrees /\ ExtendReady /\ UnwindReady
BY TypeSplit DEF Inv, Committed

\* The lock is held for another reason than extending or unwinding, or free.
LEMMA Quiet ==
  ASSUME Committed', EntriesOfMain', MemTypeOK', tip' = dbTip',
         pc' \in {"idle", "connect", "orphans"}
  PROVE  Inv'
<1>1. TipAgrees' /\ ExtendReady' /\ UnwindReady'
  BY DEF TipAgrees, ExtendReady, UnwindReady
<1>2. Inv' <=> (/\ Committed /\ EntriesOfMain /\ MemTypeOK
                /\ TipAgrees /\ ExtendReady /\ UnwindReady)'
  BY InvParts, PTL
<1> QED
  BY <1>1, <1>2

\* Only the queue, the orphans or the marks change.
LEMMA Waiting ==
  ASSUME Inv, UNCHANGED dbVars, UNCHANGED tip, UNCHANGED control, MemTypeOK'
  PROVE  Inv'
<1>1. Committed' /\ EntriesOfMain'
  BY InvParts, Untouched
<1>2. TipAgrees' /\ ExtendReady' /\ UnwindReady'
  BY InvParts DEF TipAgrees, ExtendReady, UnwindReady, New, control, dbVars, index
<1>3. Inv' <=> (/\ Committed /\ EntriesOfMain /\ MemTypeOK
                /\ TipAgrees /\ ExtendReady /\ UnwindReady)'
  BY InvParts, PTL
<1> QED
  BY <1>1, <1>2, <1>3

\* Calls that wait, calls that are turned down, and marks that are dropped.
LEMMA QueueTypes ==
  ASSUME MemTypeOK,
         \/ \E c \in Calls : Request(c)
         \/ Refuse \/ StoreOrphan \/ RefuseReset
         \/ \E b \in invalid : Forget(b)
  PROVE  MemTypeOK' /\ UNCHANGED dbVars /\ UNCHANGED tip /\ UNCHANGED control
<1>1. CASE \E c \in Calls : Request(c)
  <2>1. PICK c \in Calls : Request(c)
    BY <1>1
  <2>2. queue' \in Seq(Call)
    BY <2>1, AppendProperties DEF Request, MemTypeOK, Calls
  <2> QED
    BY <2>1, <2>2 DEF Request, MemTypeOK, history, memory, control
<1>2. CASE Refuse
  <2>1. queue # <<>>
    BY <1>2 DEF Refuse, Granted
  <2>2. Head(queue) \in Call /\ Tail(queue) \in Seq(Call)
    BY <2>1, HeadOfQueue
  <2>3. invalid' \subseteq Block /\ known' \subseteq Block
    BY <1>2, <2>2 DEF Refuse, MemTypeOK, Call
  <2> QED
    BY <1>2, <2>2, <2>3 DEF Refuse, MemTypeOK, control
<1>3. CASE StoreOrphan
  <2>1. queue # <<>>
    BY <1>3 DEF StoreOrphan, Granted
  <2>2. Head(queue) \in Call /\ CopyIn(Head(queue)) \in Copy /\ Tail(queue) \in Seq(Call)
    BY <2>1, HeadOfQueue
  <2> DEFINE others == WithoutSibling(Parent[Head(queue).block])
  <2>3. PICK k \in 0..Len(others) :
          orphans' = Append(Limited(SubSeq(others, k + 1, Len(others))), CopyIn(Head(queue)))
    BY <1>3 DEF StoreOrphan
  <2>4. others \in Seq(Copy)
    BY PoolTypes DEF MemTypeOK
  <2>5. SubSeq(others, k + 1, Len(others)) \in Seq(Copy)
    <3>1. Len(others) \in Nat
      BY <2>4, LenProperties
    <3> HIDE DEF others
    <3> QED
      BY <2>4, <3>1, PieceType
  <2>6. Limited(SubSeq(others, k + 1, Len(others))) \in Seq(Copy)
    BY <2>5, PoolTypes DEF MemTypeOK
  <2>7. orphans' \in Seq(Copy)
    BY <2>2, <2>3, <2>6, AppendProperties
  <2> QED
    BY <1>3, <2>2, <2>7 DEF StoreOrphan, MemTypeOK, history, control
<1>4. CASE RefuseReset
  <2>1. queue # <<>>
    BY <1>4 DEF RefuseReset, Granted
  <2>2. Tail(queue) \in Seq(Call)
    BY <2>1, HeadOfQueue
  <2> QED
    BY <1>4, <2>2 DEF RefuseReset, MemTypeOK, history, memory, control
<1>5. CASE \E b \in invalid : Forget(b)
  BY <1>5 DEF Forget, MemTypeOK, control
<1> QED
  BY <1>1, <1>2, <1>3, <1>4, <1>5

LEMMA QueueSteps ==
  ASSUME Inv,
         \/ \E c \in Calls : Request(c)
         \/ Refuse \/ StoreOrphan \/ RefuseReset
         \/ \E b \in invalid : Forget(b)
  PROVE  Inv'
BY InvParts, QueueTypes, Waiting

\* Steps that take or release the lock and write nothing.
LEMMA LockTypes ==
  ASSUME MemTypeOK, Accept \/ ForkMissing \/ DataMissing \/ NextOrphan \/ AddDone
  PROVE  /\ MemTypeOK' /\ UNCHANGED dbVars /\ UNCHANGED tip
         /\ pc # "unwind" /\ pc' \in {"idle", "connect"}
<1>1. CASE Accept
  <2>1. queue # <<>> /\ pc = "idle"
    BY <1>1 DEF Accept, Granted
  <2>2. Head(queue) \in Call /\ CopyIn(Head(queue)) \in Copy /\ Tail(queue) \in Seq(Call)
    BY <2>1, HeadOfQueue
  <2> QED
    BY <1>1, <2>1, <2>2 DEF Accept, MemTypeOK, history, memory
<1>2. CASE ForkMissing \/ DataMissing \/ AddDone
  <2>1. Release /\ UNCHANGED dbVars /\ UNCHANGED memory /\ UNCHANGED queue /\ pc # "unwind"
    BY <1>2 DEF ForkMissing, DataMissing, AddDone
  <2> QED
    BY <2>1, ReleaseType DEF MemTypeOK, history, memory
<1>3. CASE NextOrphan
  <2>1. PICK i \in 1..Len(orphans) : cand' = orphans[i] /\ orphans' = RemoveAt(orphans, i)
    BY <1>3 DEF NextOrphan
  <2>2. cand' \in Copy /\ orphans' \in Seq(Copy)
    BY <2>1, ElementOfSeq, RemoveType DEF MemTypeOK
  <2> QED
    BY <1>3, <2>2 DEF NextOrphan, MemTypeOK, history
<1> QED
  BY <1>1, <1>2, <1>3

LEMMA LockSteps ==
  ASSUME Inv, Accept \/ ForkMissing \/ DataMissing \/ NextOrphan \/ AddDone
  PROVE  Inv'
<1>1. MemTypeOK /\ Committed /\ EntriesOfMain /\ TipAgrees
  BY InvParts
<1>2. /\ MemTypeOK' /\ UNCHANGED dbVars /\ UNCHANGED tip
      /\ pc # "unwind" /\ pc' \in {"idle", "connect"}
  BY <1>1, LockTypes
<1>3. tip' = dbTip'
  BY <1>1, <1>2 DEF TipAgrees, dbVars, index
<1> QED
  BY <1>1, <1>2, <1>3, Untouched, Quiet

\* An error for a block leaves the lock free.
LEMMA RejectedType ==
  ASSUME MemTypeOK, NEW b \in Block, NEW verdict, Rejected(b, verdict),
         UNCHANGED tip, UNCHANGED broken, UNCHANGED queue
  PROVE  MemTypeOK' /\ pc' = "idle"
<1>1. invalid' \subseteq Block /\ known' \subseteq Block
  BY DEF Rejected, Mark, MemTypeOK
<1>2. orphans' \in Seq(Copy)
  BY EmptySeq DEF Rejected, MemTypeOK
<1>3. pc' = "idle" /\ cand' \in Copy /\ call' \in Call
  BY ReleaseType DEF Rejected
<1> QED
  BY <1>1, <1>2, <1>3 DEF MemTypeOK, history

LEMMA RejectedInv ==
  ASSUME Inv, pc # "unwind", NEW b \in Block, NEW verdict, Rejected(b, verdict),
         UNCHANGED dbVars, UNCHANGED tip, UNCHANGED broken, UNCHANGED queue
  PROVE  Inv'
<1>1. MemTypeOK /\ Committed /\ EntriesOfMain /\ TipAgrees
  BY InvParts
<1>2. tip' = dbTip'
  BY <1>1 DEF TipAgrees, dbVars, index
<1> QED
  BY <1>1, <1>2, RejectedType, Untouched, Quiet

LEMMA NewInBlock ==
  ASSUME MemTypeOK
  PROVE  New \in Block /\ cand.intact \in BOOLEAN
BY DEF MemTypeOK, Copy, New

LEMMA SaveAlternateInv ==
  ASSUME Inv, SaveAlternate
  PROVE  Inv'
<1>1. MemTypeOK /\ Committed /\ EntriesOfMain /\ TipAgrees
  BY InvParts
<1>2. New \in Block /\ pc = "connect"
  BY <1>1, NewInBlock DEF SaveAlternate
<1>3. PICK late \in Clock(New) :
        LET verdict == HeaderVerdict(New, cand.intact, late)
        IN  \/ /\ verdict = "ok"
               /\ SaveAlternateBatch(New)
               /\ pc' = "orphans"
               /\ UNCHANGED <<memory, queue, cand, call>>
            \/ /\ verdict # "ok"
               /\ Rejected(New, verdict)
               /\ UNCHANGED <<dbVars, tip, broken, queue>>
  BY DEF SaveAlternate
<1>4. CASE SaveAlternateBatch(New) /\ pc' = "orphans" /\ UNCHANGED <<memory, queue, cand, call>>
  <2>1. UNCHANGED <<mainAt, nextOf, dbTip, coins, undo>>
    BY <1>4 DEF SaveAlternateBatch
  <2>2. /\ entries' \subseteq Block /\ tips' \subseteq Block /\ blocks' \subseteq Block
        /\ undo' \subseteq Block /\ blocks \subseteq blocks' /\ Anc[dbTip] \subseteq entries'
    BY <1>1, <1>2, <1>4, <2>1 DEF SaveAlternateBatch, Committed, DbTypeOK, EntriesOfMain
  <2>3. Committed' /\ EntriesOfMain'
    BY <1>1, <2>1, <2>2, Stored
  <2>4. MemTypeOK' /\ tip' = dbTip'
    BY <1>1, <1>2, <1>4, <2>1 DEF MemTypeOK, history, memory, TipAgrees
  <2> QED
    BY <1>4, <2>3, <2>4, Quiet
<1>5. CASE Rejected(New, HeaderVerdict(New, cand.intact, late))
           /\ UNCHANGED <<dbVars, tip, broken, queue>>
  BY <1>2, <1>5, RejectedInv
<1> QED
  BY <1>3, <1>4, <1>5

\* An ancestor of a block that is not the block is an ancestor of its parent.
LEMMA BelowParent ==
  ASSUME NEW b \in Block, NEW a \in Anc[b], a # b
  PROVE  b # Genesis /\ a \in Anc[Parent[b]]
<1>1. b # Genesis
  BY TreeAssumption
<1> QED
  BY <1>1, Step

\* A block with more work than the tip is not on the tip's chain.
LEMMA MoreWork ==
  ASSUME NEW b \in Block, NEW t \in Block, ChainWork[b] > ChainWork[t]
  PROVE  b \notin Anc[t]
<1>1. ChainWork[b] \in Nat /\ ChainWork[t] \in Nat
  BY TreeAssumption
<1>2. b \in Anc[t] /\ b # t => ChainWork[b] < ChainWork[t]
  BY AncestryFacts
<1> QED
  BY <1>1, <1>2

\* Once the walks to the fork succeeded every ancestor of the new block has an
\* entry: down to the fork by the walk, below it with the tip's chain.
LEMMA BeginExtendInv ==
  ASSUME Inv, BeginExtend
  PROVE  Inv'
<1>1. /\ MemTypeOK /\ Committed /\ EntriesOfMain /\ TipAgrees /\ DbTypeOK
  BY InvParts DEF Committed
<1>2. New \in Block /\ tip \in Block /\ tip = dbTip /\ pc = "connect"
  BY <1>1, NewInBlock DEF BeginExtend, TipAgrees, MemTypeOK
<1>3. ChainWork[New] > ChainWork[tip]
  BY DEF BeginExtend, HasMoreWork
<1>4. New \notin Anc[tip]
  BY <1>2, <1>3, MoreWork
<1>5. New # Genesis
  BY <1>2, <1>4, Ancestors
<1>6. Anc[Parent[New]] \subseteq entries
  <2>1. CASE Parent[New] = tip
    BY <1>1, <1>2, <2>1 DEF EntriesOfMain
  <2>2. CASE Parent[New] # tip
    <3> DEFINE f == ForkOf(tip, New)
    <3>1. ReorgWalk \subseteq entries
      BY <2>2 DEF BeginExtend
    <3>2. f \in Block /\ IsFork(f, tip, New)
      BY <1>2, AncestryFacts DEF ForkOf
    <3> HIDE DEF f
    <3> SUFFICES ASSUME NEW a \in Anc[Parent[New]]
                 PROVE  a \in entries
      OBVIOUS
    <3>3. a \in Anc[New] /\ a # New /\ a \in Block
      BY <1>2, <1>5, Step, Ancestors
    <3>4. CASE Height[a] >= Height[f]
      BY <3>1, <3>3, <3>4 DEF ReorgWalk, f
    <3>5. CASE ~(Height[a] >= Height[f])
      <4>1. Height[a] <= Height[f]
        BY <3>2, <3>3, <3>5, TreeAssumption
      <4>2. f \in Anc[New] /\ f \in Anc[tip]
        BY <3>2 DEF IsFork
      <4>3. a \in Anc[f]
        BY <1>2, <3>3, <4>1, <4>2, AncestryFacts
      <4>4. a \in Anc[tip]
        BY <1>2, <4>2, <4>3, AncestryFacts
      <4> QED
        BY <1>1, <1>2, <4>4 DEF EntriesOfMain
    <3> QED
      BY <3>4, <3>5
  <2> QED
    BY <2>1, <2>2
<1>7. /\ UNCHANGED dbVars /\ UNCHANGED memory /\ UNCHANGED queue
      /\ UNCHANGED cand /\ UNCHANGED call /\ pc' = "extend"
  BY DEF BeginExtend
<1>8. Committed' /\ EntriesOfMain'
  BY <1>1, <1>7, Untouched
<1>9. MemTypeOK'
  BY <1>1, <1>7 DEF MemTypeOK, history, memory
<1>10. TipAgrees' /\ UnwindReady'
  BY <1>2, <1>7 DEF TipAgrees, UnwindReady, memory, dbVars, index
<1>11. ExtendReady'
  BY <1>4, <1>5, <1>6, <1>7 DEF ExtendReady, New, memory, dbVars, index
<1>12. Inv' <=> (/\ Committed /\ EntriesOfMain /\ MemTypeOK
                 /\ TipAgrees /\ ExtendReady /\ UnwindReady)'
  BY InvParts, PTL
<1> QED
  BY <1>8, <1>9, <1>10, <1>11, <1>12

\* The call goes on extending the chain.
LEMMA StillExtending ==
  ASSUME MemTypeOK', Committed', EntriesOfMain', tip' = dbTip', pc' = "extend",
         cand' = cand, New # Genesis, New \notin Anc[tip'], Anc[Parent[New]] \subseteq entries'
  PROVE  Inv'
<1>1. TipAgrees' /\ UnwindReady' /\ ExtendReady'
  BY DEF TipAgrees, UnwindReady, ExtendReady, New
<1>2. Inv' <=> (/\ Committed /\ EntriesOfMain /\ MemTypeOK
                /\ TipAgrees /\ ExtendReady /\ UnwindReady)'
  BY InvParts, PTL
<1> QED
  BY <1>1, <1>2

LEMMA Extending ==
  ASSUME Inv, pc = "extend"
  PROVE  /\ MemTypeOK /\ Committed /\ EntriesOfMain /\ DbTypeOK
         /\ tip = dbTip /\ tip \in Block
         /\ New \in Block /\ New # Genesis /\ New \notin Anc[tip] /\ cand.intact \in BOOLEAN
         /\ Anc[Parent[New]] \subseteq entries
<1>1. MemTypeOK /\ Committed /\ EntriesOfMain /\ TipAgrees /\ ExtendReady
  BY InvParts
<1> QED
  BY <1>1, NewInBlock DEF Committed, TipAgrees, ExtendReady, MemTypeOK

\* A tip off the new block's branch is not the genesis block, and below it is
\* another main chain block.
LEMMA DisconnectInv ==
  ASSUME Inv, Disconnect
  PROVE  Inv'
<1>1. /\ MemTypeOK /\ Committed /\ EntriesOfMain /\ DbTypeOK
      /\ tip = dbTip /\ tip \in Block
      /\ New \in Block /\ New # Genesis /\ New \notin Anc[tip] /\ cand.intact \in BOOLEAN
      /\ Anc[Parent[New]] \subseteq entries
  BY Extending DEF Disconnect
<1>2. dbTip # Genesis
  BY <1>1, Ancestors DEF Disconnect, OffBranch
<1>3. /\ Disconnected(dbTip) /\ UNCHANGED <<entries, tips>> /\ tip' = Parent[tip]
      /\ UNCHANGED <<invalid, orphans, history, queue, control>>
  BY <1>1 DEF Disconnect, DisconnectBatch
<1>4. Committed' /\ dbTip' = Parent[dbTip] /\ Anc[dbTip'] = Anc[dbTip] \ {dbTip}
  BY <1>1, <1>2, <1>3, Undo DEF DbTypeOK
<1>5. MemTypeOK'
  BY <1>1, <1>2, <1>3, Step DEF MemTypeOK, history, control
<1>6. EntriesOfMain'
  BY <1>1, <1>3, <1>4 DEF EntriesOfMain
<1>7. pc' = "extend" /\ cand' = cand
  BY <1>3 DEF Disconnect, control
<1> QED
  BY <1>1, <1>3, <1>4, <1>5, <1>6, <1>7, StillExtending

\* The next block of the new branch exists, and it is below the new block.
LEMMA NextUpOnBranch ==
  ASSUME tip \in Block, New \in Block, New # Genesis, New \notin Anc[tip], OnBranch
  PROVE  /\ NextUp \in Block /\ NextUp # Genesis /\ Parent[NextUp] = tip
         /\ New \notin Anc[NextUp] /\ NextUp \in Anc[Parent[New]]
<1>1. tip \in Anc[New] /\ tip # New /\ tip # Parent[New]
  BY Ancestors DEF OnBranch
<1>2. NextUp \in Anc[New] /\ Parent[NextUp] = tip
  <2>1. \E a \in Anc[New] : Parent[a] = tip
    BY <1>1, AncestryFacts
  <2> QED
    BY <2>1 DEF NextUp
<1>3. NextUp \in Block /\ NextUp # Genesis /\ NextUp # New
  BY <1>1, <1>2, Ancestors, TreeAssumption
<1>4. NextUp \in Anc[Parent[New]]
  BY <1>2, <1>3, BelowParent
<1>5. New \notin Anc[NextUp]
  <2>1. Anc[NextUp] \subseteq Anc[Parent[New]]
    BY <1>4, Step, AncestryFacts
  <2> QED
    BY <2>1, Step
<1> QED
  BY <1>2, <1>3, <1>4, <1>5

LEMMA NextUpStep ==
  ASSUME Inv, pc = "extend", OnBranch
  PROVE  /\ NextUp \in Block /\ NextUp # Genesis /\ Parent[NextUp] = tip
         /\ New \notin Anc[NextUp] /\ NextUp \in entries
BY Extending, NextUpOnBranch

LEMMA ReconnectInv ==
  ASSUME Inv, Reconnect
  PROVE  Inv'
<1>1. /\ MemTypeOK /\ Committed /\ EntriesOfMain /\ DbTypeOK
      /\ tip = dbTip /\ tip \in Block
      /\ New \in Block /\ New # Genesis /\ New \notin Anc[tip] /\ cand.intact \in BOOLEAN
      /\ Anc[Parent[New]] \subseteq entries
  BY Extending DEF Reconnect
<1> DEFINE next == NextUp
<1>2. /\ next \in Block /\ next # Genesis /\ Parent[next] = tip
      /\ New \notin Anc[next] /\ next \in entries
  BY NextUpStep DEF Reconnect
<1>3. PICK late \in Clock(next) :
        LET verdict == ContextVerdict(next, TRUE, late, coins)
        IN  \/ /\ verdict = "ok"
               /\ ReconnectBatch(next)
               /\ tip' = next
               /\ UNCHANGED <<invalid, orphans, history, queue, control>>
            \/ /\ verdict # "ok"
               /\ Rejected(next, verdict)
               /\ UNCHANGED <<dbVars, tip, broken, queue>>
  BY DEF Reconnect
<1> HIDE DEF next
<1>4. CASE /\ ContextVerdict(next, TRUE, late, coins) = "ok"
           /\ ReconnectBatch(next)
           /\ tip' = next
           /\ UNCHANGED <<invalid, orphans, history, queue, control>>
  <2>1. late \in BOOLEAN
    BY DEF Clock
  <2>2. ValidInContext(next)
    BY <1>1, <1>2, <1>4, <2>1, VerdictSound DEF Committed, CoinsAtTip
  <2>3. Connected(next) /\ UNCHANGED <<entries, tips>>
    BY <1>4 DEF ReconnectBatch
  <2>4. Committed'
    BY <1>1, <1>2, <2>2, <2>3, Connect DEF DbTypeOK
  <2>5. dbTip' = next /\ tip' = next
    BY <1>4, <2>3 DEF Connected
  <2>6. EntriesOfMain'
    BY <1>1, <1>2, <2>3, <2>5, Step DEF EntriesOfMain
  <2>7. MemTypeOK' /\ pc' = "extend" /\ cand' = cand
    BY <1>1, <1>2, <1>4 DEF MemTypeOK, history, control, Reconnect
  <2> QED
    BY <1>1, <1>2, <2>3, <2>4, <2>5, <2>6, <2>7, StillExtending
<1>5. CASE Rejected(next, ContextVerdict(next, TRUE, late, coins))
           /\ UNCHANGED <<dbVars, tip, broken, queue>>
  BY <1>2, <1>5, RejectedInv DEF Reconnect
<1> QED
  BY <1>3, <1>4, <1>5

LEMMA AttachInv ==
  ASSUME Inv, Attach
  PROVE  Inv'
<1>1. /\ MemTypeOK /\ Committed /\ EntriesOfMain /\ DbTypeOK
      /\ tip = dbTip /\ tip \in Block
      /\ New \in Block /\ New # Genesis /\ New \notin Anc[tip] /\ cand.intact \in BOOLEAN
      /\ Anc[Parent[New]] \subseteq entries
  BY Extending DEF Attach
<1>2. Parent[New] = dbTip
  BY <1>1 DEF Attach, AtParent
<1>3. PICK late \in Clock(New) :
        LET verdict == ContextVerdict(New, cand.intact, late, coins)
        IN  \/ /\ verdict = "ok"
               /\ SaveBatch(New)
               /\ tip' = New
               /\ pc' = "orphans"
               /\ UNCHANGED <<invalid, orphans, history, queue, cand, call>>
            \/ /\ verdict # "ok"
               /\ Rejected(New, verdict)
               /\ UNCHANGED <<dbVars, tip, broken, queue>>
  BY DEF Attach
<1>4. CASE /\ ContextVerdict(New, cand.intact, late, coins) = "ok"
           /\ SaveBatch(New)
           /\ tip' = New
           /\ pc' = "orphans"
           /\ UNCHANGED <<invalid, orphans, history, queue, cand, call>>
  <2>1. late \in BOOLEAN
    BY DEF Clock
  <2>2. ValidInContext(New)
    BY <1>1, <1>2, <1>4, <2>1, VerdictSound DEF Committed, CoinsAtTip
  <2>3. /\ Connected(New)
        /\ entries' = entries \cup {New}
        /\ tips' = (tips \ {Parent[New]}) \cup {New}
    BY <1>4 DEF SaveBatch
  <2>4. entries' \subseteq Block /\ tips' \subseteq Block
    BY <1>1, <2>3 DEF DbTypeOK
  <2>5. Committed'
    BY <1>1, <1>2, <2>2, <2>3, <2>4, Connect
  <2>6. dbTip' = New /\ tip' = New
    BY <1>4, <2>3 DEF Connected
  <2>7. EntriesOfMain'
    BY <1>1, <1>2, <2>3, <2>6, Step DEF EntriesOfMain
  <2>8. MemTypeOK'
    BY <1>1, <1>4 DEF MemTypeOK, history
  <2> QED
    BY <1>4, <2>5, <2>6, <2>7, <2>8, Quiet
<1>5. CASE Rejected(New, ContextVerdict(New, cand.intact, late, coins))
           /\ UNCHANGED <<dbVars, tip, broken, queue>>
  BY <1>1, <1>5, RejectedInv DEF Attach
<1> QED
  BY <1>3, <1>4, <1>5

\* However far the writes of a call got, the store holds blocks only, and
\* without pruning it lost none.
LEMMA StoreLeftSound ==
  ASSUME DbTypeOK, MemTypeOK, pc = "extend" => New # Genesis /\ New \notin Anc[tip],
         NEW left \in StoreLeft
  PROVE  /\ left[1] \subseteq Block /\ left[2] \subseteq Block
         /\ ~Prune => blocks \subseteq left[1] /\ undo \subseteq left[2]
<1>1. blocks \subseteq Block /\ undo \subseteq Block /\ New \in Block /\ tip \in Block
  BY NewInBlock DEF DbTypeOK, MemTypeOK
<1>2. ASSUME NEW b \in Block, left \in PartialStores(b)
      PROVE  /\ left[1] \subseteq Block /\ left[2] \subseteq Block
             /\ ~Prune => blocks \subseteq left[1] /\ undo \subseteq left[2]
  <2>1. ~Prune => PrunedBy(b) = {}
    BY DEF PrunedBy
  <2>2. UndoOf(b) \subseteq Block
    BY DEF UndoOf
  <2> QED
    BY <1>1, <1>2, <2>1, <2>2 DEF PartialStores, BlocksWith, UndosWith
<1>3. CASE left = <<blocks, undo>> \/ left = <<blocks \cup {New}, undo>>
  BY <1>1, <1>3
<1>4. CASE pc = "extend" /\ OnBranch /\ left \in PartialStores(NextUp)
  BY <1>1, <1>2, <1>4, NextUpOnBranch
<1>5. CASE left \in PartialStores(New)
  BY <1>1, <1>2, <1>5
<1> QED
  BY <1>3, <1>4, <1>5 DEF StoreLeft

\* What an error or a crash leaves in memory.
LEMMA FaultTypes ==
  ASSUME DbTypeOK, MemTypeOK, AddFails \/ Crash
  PROVE  MemTypeOK' /\ pc' = "idle" /\ UNCHANGED index
<1>1. Release
  BY DEF AddFails, Crash
<1>2. MemTypeOK' /\ pc' = "idle"
  BY <1>1, ReleaseType, EmptySeq DEF AddFails, Crash, memory, MemTypeOK, history, DbTypeOK
<1> QED
  BY <1>2 DEF AddFails, Crash

\* An error or a crash leaves the committed chain as it is.
LEMMA FaultInv ==
  ASSUME Inv, AddFails \/ Crash
  PROVE  Inv'
<1>1. MemTypeOK /\ Committed /\ EntriesOfMain /\ TipAgrees /\ DbTypeOK /\ ExtendReady
  BY InvParts DEF Committed
<1>2. PICK left \in StoreLeft : blocks' = left[1] /\ undo' = left[2]
  BY DEF AddFails, Crash
<1>3. /\ blocks' \subseteq Block /\ undo' \subseteq Block
      /\ ~Prune => blocks \subseteq blocks' /\ undo \subseteq undo'
  BY <1>1, <1>2, StoreLeftSound DEF ExtendReady
<1>4. UNCHANGED <<mainAt, nextOf, dbTip, coins>> /\ UNCHANGED <<entries, tips>>
  BY <1>1, FaultTypes DEF index
<1>5. Committed' /\ EntriesOfMain'
  BY <1>1, <1>3, <1>4, Stored DEF DbTypeOK, EntriesOfMain
<1>6. MemTypeOK' /\ pc' = "idle"
  BY <1>1, FaultTypes
<1>7. tip' = dbTip'
  BY <1>1, <1>4 DEF AddFails, Crash, memory, TipAgrees
<1> QED
  BY <1>5, <1>6, <1>7, Quiet

----------------------------------------------------------------------------
\* Resets.

LEMMA StillUnwinding ==
  ASSUME MemTypeOK', Committed', EntriesOfMain', pc' = "unwind",
         cand'.block \in Anc[dbTip'], ~Prune
  PROVE  Inv'
<1>1. TipAgrees' /\ UnwindReady' /\ ExtendReady'
  BY DEF TipAgrees, UnwindReady, ExtendReady, New
<1>2. Inv' <=> (/\ Committed /\ EntriesOfMain /\ MemTypeOK
                /\ TipAgrees /\ ExtendReady /\ UnwindReady)'
  BY InvParts, PTL
<1> QED
  BY <1>1, <1>2

\* removeChains removes nothing of the main chain.
LEMMA BeginResetInv ==
  ASSUME Inv, BeginReset
  PROVE  Inv'
<1>1. MemTypeOK /\ Committed /\ EntriesOfMain /\ DbTypeOK
  BY InvParts DEF Committed
<1>2. queue # <<>>
  BY DEF BeginReset, Granted
<1>3. Head(queue) \in Call /\ Tail(queue) \in Seq(Call)
  BY <1>1, <1>2, HeadOfQueue
<1> DEFINE target == ResetTarget(Head(queue))
           gone == UNION {AlternateOf(t) : t \in tips}
<1>4. /\ ~Prune /\ target \in entries /\ IsMainChain(target)
  BY DEF BeginReset, ResetAllowed
<1>5. target \in Block /\ target \in Anc[dbTip]
  <2>1. target \in Block
    BY <1>1, <1>4 DEF DbTypeOK
  <2> QED
    BY <1>1, <1>4, <2>1, MainChain
<1>6. /\ entries' = entries \ gone /\ tips' = tips \ gone
      /\ UNCHANGED <<mainAt, nextOf, dbTip, coins, blocks, undo>>
  BY DEF BeginReset, RemoveChainsBatch, store
<1>7. gone \cap Anc[dbTip] = {}
  <2> SUFFICES ASSUME NEW t \in tips, NEW a \in AlternateOf(t), a \in Anc[dbTip]
               PROVE  FALSE
    OBVIOUS
  <2>1. a \in Anc[t] /\ a \in Block
    BY <1>1, Ancestors DEF AlternateOf, DbTypeOK
  <2>2. Height[a] >= Height[a]
    BY <2>1, TreeAssumption
  <2>3. ~IsMainChain(a)
    BY <2>1, <2>2 DEF AlternateOf
  <2> QED
    BY <1>1, <2>1, <2>3, MainChain
<1> HIDE DEF gone, target
<1>8. Anc[dbTip] \subseteq entries'
  BY <1>1, <1>6, <1>7 DEF EntriesOfMain
<1>9. Committed' /\ EntriesOfMain'
  BY <1>1, <1>6, <1>8, Stored DEF DbTypeOK
<1>10. cand' = [block |-> target, intact |-> TRUE] /\ pc' = "unwind"
  BY DEF BeginReset, target
<1>11. MemTypeOK'
  <2>1. cand' \in Copy
    BY <1>5, <1>10 DEF Copy
  <2> QED
    BY <1>1, <1>3, <1>10, <2>1 DEF BeginReset, MemTypeOK, history, memory
<1>12. cand'.block \in Anc[dbTip']
  BY <1>5, <1>6, <1>10
<1> QED
  BY <1>4, <1>9, <1>10, <1>11, <1>12, StillUnwinding

LEMMA UnwindInv ==
  ASSUME Inv, Unwind
  PROVE  Inv'
<1>1. MemTypeOK /\ Committed /\ EntriesOfMain /\ DbTypeOK /\ UnwindReady
  BY InvParts DEF Committed
<1>2. New \in Anc[dbTip] /\ New # dbTip /\ ~Prune /\ dbTip \in Block
  BY <1>1 DEF Unwind, UnwindReady, DbTypeOK
<1>3. dbTip # Genesis
  BY <1>2, TreeAssumption
<1>4. /\ Disconnected(dbTip)
      /\ entries' = entries \ {dbTip}
      /\ tips' = (tips \ {dbTip}) \cup {Parent[dbTip]}
      /\ UNCHANGED <<memory, queue, control>>
  BY DEF Unwind, UnwindBatch
<1>5. entries' \subseteq Block /\ tips' \subseteq Block
  BY <1>1, <1>2, <1>3, <1>4, Step DEF DbTypeOK
<1>6. Committed' /\ Anc[dbTip'] = Anc[dbTip] \ {dbTip}
  BY <1>1, <1>3, <1>4, <1>5, Undo
<1>7. EntriesOfMain'
  BY <1>1, <1>4, <1>6 DEF EntriesOfMain
<1>8. MemTypeOK' /\ pc' = "unwind" /\ cand' = cand
  BY <1>1, <1>4 DEF MemTypeOK, history, memory, control, Unwind
<1>9. cand'.block \in Anc[dbTip']
  BY <1>2, <1>6, <1>8 DEF New
<1> QED
  BY <1>2, <1>6, <1>7, <1>8, <1>9, StillUnwinding

LEMMA FinishResetInv ==
  ASSUME Inv, FinishReset
  PROVE  Inv'
<1>1. MemTypeOK /\ Committed /\ EntriesOfMain /\ DbTypeOK
  BY InvParts DEF Committed
<1>2. UNCHANGED dbVars /\ UNCHANGED queue /\ Release /\ tip' = dbTip /\ orphans' = <<>>
  BY DEF FinishReset
<1>3. Committed' /\ EntriesOfMain'
  BY <1>1, <1>2, Untouched
<1>4. invalid' \subseteq Block /\ known' \subseteq Block /\ UNCHANGED broken
  BY <1>1 DEF FinishReset, Mark, MemTypeOK, Call
<1>5. MemTypeOK' /\ pc' = "idle"
  BY <1>1, <1>2, <1>4, ReleaseType, EmptySeq DEF MemTypeOK, history, DbTypeOK
<1>6. tip' = dbTip'
  BY <1>2 DEF dbVars, index
<1> QED
  BY <1>3, <1>5, <1>6, Quiet

\* Without I/O errors the blocks and undo coins a reset reads are all there.
LEMMA ResetNeverFails ==
  ASSUME Inv, ~ResetFaults
  PROVE  ~ResetFails
<1> SUFFICES ASSUME ResetFails
             PROVE  FALSE
  OBVIOUS
<1>1. /\ Committed /\ pc = "unwind" /\ New \in Anc[dbTip] /\ ~Prune
      /\ dbTip # New /\ (dbTip = Genesis \/ ~CanDisconnect(dbTip))
  BY InvParts DEF ResetFails, UnwindReady
<1>2. dbTip \in Anc[dbTip] /\ dbTip # Genesis
  BY <1>1, Ancestors, TreeAssumption DEF Committed, DbTypeOK
<1> QED
  BY <1>1, <1>2 DEF Committed, UndoKept

----------------------------------------------------------------------------
\* The invariant.

LEMMA InitInv == Init => Inv
<1> SUFFICES ASSUME Init
             PROVE  Inv
  OBVIOUS
<1>1. /\ entries = {Genesis} /\ tips = {Genesis} /\ dbTip = Genesis /\ coins = {}
      /\ blocks = {Genesis} /\ undo = {}
      /\ mainAt = [h \in Heights |-> IF h = 0 THEN Genesis ELSE NoBlock]
      /\ nextOf = [b \in Block |-> NoBlock]
      /\ tip = Genesis /\ pc = "idle"
  BY DEF Init, DbInit
<1>2. Genesis \in Block /\ NoBlock \notin Block /\ Anc[Genesis] = {Genesis}
      /\ Height[Genesis] = 0 /\ Parent[Genesis] = NoBlock
  BY TreeAssumption
<1>3. DbTypeOK
  BY <1>1, <1>2 DEF DbTypeOK
<1>4. MemTypeOK
  BY <1>2, EmptySeq DEF Init, MemTypeOK, NoCopy, NoCall, Copy, Call
<1>5. MainIndexed
  BY <1>1, <1>2 DEF MainIndexed
<1>6. CoinsAtTip
  BY <1>1, <1>2, CoinAssumption DEF CoinsAtTip
<1>7. OnlyValidConnected
  BY <1>1, <1>2 DEF OnlyValidConnected, FullyValid, ValidInContext
<1>8. UndoKept
  BY <1>1, <1>2, CoinAssumption DEF UndoKept, CanDisconnect, HasUndo
<1>9. EntriesOfMain /\ TipAgrees /\ ExtendReady /\ UnwindReady
  BY <1>1, <1>2 DEF EntriesOfMain, TipAgrees, ExtendReady, UnwindReady
<1> QED
  BY <1>3, <1>4, <1>5, <1>6, <1>7, <1>8, <1>9, InvParts DEF Committed

LEMMA StutterInv ==
  ASSUME Inv, UNCHANGED vars
  PROVE  Inv'
<1>1. MemTypeOK /\ UNCHANGED dbVars /\ UNCHANGED tip /\ UNCHANGED control
  BY InvParts DEF vars, memory
<1>2. MemTypeOK'
  BY <1>1 DEF MemTypeOK, history, vars, memory, control
<1> QED
  BY <1>1, <1>2, Waiting

LEMMA NextInv ==
  ASSUME Inv, [Next]_vars, ~ResetFails
  PROVE  Inv'
<1>1. CASE \/ \E c \in Calls : Request(c)
           \/ Refuse \/ StoreOrphan \/ RefuseReset
           \/ \E b \in invalid : Forget(b)
  BY <1>1, QueueSteps
<1>2. CASE Accept \/ ForkMissing \/ DataMissing \/ NextOrphan \/ AddDone
  BY <1>2, LockSteps
<1>3. CASE SaveAlternate
  BY <1>3, SaveAlternateInv
<1>4. CASE BeginExtend
  BY <1>4, BeginExtendInv
<1>5. CASE Disconnect
  BY <1>5, DisconnectInv
<1>6. CASE Reconnect
  BY <1>6, ReconnectInv
<1>7. CASE Attach
  BY <1>7, AttachInv
<1>8. CASE AddFails \/ Crash
  BY <1>8, FaultInv
<1>9. CASE BeginReset
  BY <1>9, BeginResetInv
<1>10. CASE Unwind
  BY <1>10, UnwindInv
<1>11. CASE FinishReset
  BY <1>11, FinishResetInv
<1>12. CASE UNCHANGED vars
  BY <1>12, StutterInv
<1> QED
  BY <1>1, <1>2, <1>3, <1>4, <1>5, <1>6, <1>7, <1>8, <1>9, <1>10, <1>11, <1>12
     DEF Next, AddStep, ResetStep

\* In every reachable state the indexes, the coins, the block store and
\* this.tip describe one and the same valid chain, as long as no I/O error ends
\* a reset half-way (Chain#_reset only then leaves this.tip behind).
THEOREM Safety ==
  ASSUME ~ResetFaults
  PROVE  Spec => []Inv
<1>1. Inv /\ [Next]_vars => Inv'
  BY NextInv, ResetNeverFails
<1> QED
  BY <1>1, InitInv, PTL DEF Spec

\* With such errors, it holds until the first of them.
LEMMA Breaks ==
  ASSUME [Next]_vars
  PROVE  (ResetFails /\ broken' = TRUE) \/ UNCHANGED broken
<1>1. ResetFails => broken' = TRUE
  BY DEF ResetFails
<1>2. ~ResetFails => UNCHANGED broken
  BY DEF Next, AddStep, ResetStep, Request, Refuse, StoreOrphan, Accept, SaveAlternate,
         BeginExtend, ForkMissing, Disconnect, Reconnect, DataMissing, Attach, NextOrphan,
         AddDone, AddFails, RefuseReset, BeginReset, Unwind, FinishReset, Forget, Crash,
         Rejected, vars, memory, history
<1> QED
  BY <1>1, <1>2

LEMMA Unbroken == Spec => [](broken \/ Inv)
<1>1. (broken \/ Inv) /\ [Next]_vars => (broken \/ Inv)'
  <2>1. ASSUME broken, [Next]_vars
        PROVE  broken'
    BY <2>1, Breaks
  <2>2. ASSUME Inv, [Next]_vars, ~ResetFails
        PROVE  Inv'
    BY <2>2, NextInv
  <2>3. ASSUME ResetFails
        PROVE  broken'
    BY <2>3 DEF ResetFails
  <2> QED
    BY <2>1, <2>2, <2>3
<1> QED
  BY <1>1, InitInv, PTL DEF Spec

LEMMA NeverBroken ==
  ASSUME ~ResetFaults
  PROVE  Spec => []~broken
<1>1. Inv /\ ~broken /\ [Next]_vars => ~broken'
  BY Breaks, ResetNeverFails
<1>2. Init => ~broken
  BY DEF Init
<1> QED
  BY <1>1, <1>2, Safety, PTL DEF Spec

\* The parts of it that the runs check, each by name: the indexes describe the
\* chain of the committed tip ...
THEOREM AlwaysIndexed ==
  ASSUME ~ResetFaults
  PROVE  Spec => []MainIndexed
<1>1. Inv => MainIndexed
  BY DEF Inv
<1> QED
  BY <1>1, Safety, PTL

\* ... the coin set is the one a replay of that chain leaves ...
THEOREM CoinsAlwaysAtTip ==
  ASSUME ~ResetFaults
  PROVE  Spec => []CoinsAtTip
<1>1. Inv => CoinsAtTip
  BY DEF Inv
<1> QED
  BY <1>1, Safety, PTL

\* ... that chain is fully valid ...
THEOREM NothingUnverified ==
  ASSUME ~ResetFaults
  PROVE  Spec => []OnlyValidConnected
<1>1. Inv => OnlyValidConnected
  BY DEF Inv
<1> QED
  BY <1>1, Safety, PTL

\* ... its blocks have entries, at least until an error cuts a reset short ...
THEOREM MainChainHasEntries == Spec => []MainHasEntries
<1>1. broken \/ Inv => MainHasEntries
  BY DEF Inv, MainHasEntries
<1> QED
  BY <1>1, Unbroken, PTL

\* ... and this.tip agrees with it whenever no reset is under way.
THEOREM TipsAgree ==
  ASSUME ~ResetFaults
  PROVE  Spec => []TipAgrees
<1>1. Inv => TipAgrees
  BY DEF Inv
<1> QED
  BY <1>1, Safety, PTL

----------------------------------------------------------------------------
\* Refinement of Ledger.

\* The committed tip moves by one block at most.
LEMMA TipMoves ==
  ASSUME Inv, [Next]_vars
  PROVE  \/ dbTip' = dbTip
         \/ dbTip # Genesis /\ dbTip' = Parent[dbTip]
         \/ Parent[dbTip'] = dbTip
<1>1. CASE \/ \E c \in Calls : Request(c)
           \/ Refuse \/ StoreOrphan \/ Accept
           \/ BeginExtend \/ ForkMissing \/ DataMissing \/ NextOrphan \/ AddDone
           \/ RefuseReset \/ FinishReset \/ ResetFails
           \/ \E b \in invalid : Forget(b)
           \/ AddFails \/ Crash
  BY <1>1 DEF Request, Refuse, StoreOrphan, Accept, BeginExtend, ForkMissing, DataMissing,
              NextOrphan, AddDone, RefuseReset, FinishReset, ResetFails, Forget, AddFails,
              Crash, dbVars, index
<1>2. CASE SaveAlternate
  BY <1>2 DEF SaveAlternate, SaveAlternateBatch, Rejected, dbVars, index
<1>3. CASE Disconnect
  <2>1. tip = dbTip /\ dbTip \in Block /\ New \in Block
    BY <1>3, Extending DEF Disconnect
  <2>2. dbTip # Genesis
    BY <1>3, <2>1, Ancestors DEF Disconnect, OffBranch
  <2> QED
    BY <1>3, <2>1, <2>2 DEF Disconnect, DisconnectBatch, Disconnected
<1>4. CASE Reconnect
  <2>1. tip = dbTip /\ Parent[NextUp] = tip
    BY <1>4, Extending, NextUpStep DEF Reconnect
  <2>2. dbTip' = NextUp \/ dbTip' = dbTip
    BY <1>4 DEF Reconnect, ReconnectBatch, Connected, dbVars, index
  <2> QED
    BY <2>1, <2>2
<1>5. CASE Attach
  <2>1. tip = dbTip /\ Parent[New] = tip
    BY <1>5, Extending DEF Attach, AtParent
  <2>2. dbTip' = New \/ dbTip' = dbTip
    BY <1>5 DEF Attach, SaveBatch, Connected, dbVars, index
  <2> QED
    BY <2>1, <2>2
<1>6. CASE BeginReset
  BY <1>6 DEF BeginReset, RemoveChainsBatch
<1>7. CASE Unwind
  <2>1. New \in Anc[dbTip] /\ New # dbTip
    BY <1>7, InvParts DEF Unwind, UnwindReady
  <2>2. dbTip # Genesis
    BY <2>1, TreeAssumption
  <2> QED
    BY <1>7, <2>2 DEF Unwind, UnwindBatch, Disconnected
<1>8. CASE UNCHANGED vars
  BY <1>8 DEF vars, dbVars, index
<1> QED
  BY <1>1, <1>2, <1>3, <1>4, <1>5, <1>6, <1>7, <1>8 DEF Next, AddStep, ResetStep

\* Ledger speaks of the same verdicts.
LEMMA SameLedgerTerms ==
  ASSUME NEW b
  PROVE  L!FullyValid(b) <=> FullyValid(b)
<1>1. ASSUME NEW a
      PROVE  L!ValidInContext(a) <=> ValidInContext(a)
  BY DEF L!ValidInContext, ValidInContext, L!InputsExist, InputsExist, L!NoDuplicates,
         NoDuplicates, L!CheckpointHolds, CheckpointHolds, L!IsHistorical, IsHistorical
<1> QED
  BY <1>1 DEF L!FullyValid, FullyValid

\* A reset that fails leaves the ledger where it is.
LEMMA LedgerStep ==
  ASSUME Inv, [Next]_vars
  PROVE  [L!Next]_(L!ledger)
<1>1. CASE ResetFails
  BY <1>1 DEF ResetFails, L!ledger, dbVars, index
<1>2. CASE ~ResetFails
  <2>1. Inv'
    BY <1>2, NextInv
  <2>2. /\ dbTip \in Block /\ dbTip' \in Block
        /\ coins = Unspent[dbTip] /\ coins' = Unspent[dbTip']
        /\ FullyValid(dbTip')
    BY <2>1, InvParts DEF Inv, TypeOK, DbTypeOK, CoinsAtTip, OnlyValidConnected
  <2>3. CASE dbTip' = dbTip
    BY <2>2, <2>3 DEF L!ledger
  <2>4. CASE dbTip # Genesis /\ dbTip' = Parent[dbTip]
    BY <2>2, <2>4 DEF L!Next, L!Retract
  <2>5. CASE Parent[dbTip'] = dbTip
    <3>1. L!Extend(dbTip')
      BY <2>2, <2>5, SameLedgerTerms DEF L!Extend
    <3> QED
      BY <2>2, <3>1 DEF L!Next
  <2> QED
    BY <2>3, <2>4, <2>5, TipMoves
<1> QED
  BY <1>1, <1>2

LEMMA LedgerInit ==
  Init => L!Init
<1>1. Init => dbTip = Genesis
  BY DEF Init, DbInit
<1>2. Inv => coins = Unspent[dbTip]
  BY DEF Inv, CoinsAtTip
<1> QED
  BY <1>1, <1>2, InitInv DEF L!Init

\* Whoever follows the chain through its committed states sees a ledger that
\* grows by a valid block or shrinks by its last one, through reorganizations,
\* resets, errors of add() and crashes, and until an error cuts a reset short.
THEOREM Refinement == Spec => LedgerSpec
<1>1. (broken \/ Inv) /\ [Next]_vars => [broken \/ L!Next]_(L!ledger)
  BY LedgerStep
<1> QED
  BY <1>1, LedgerInit, Unbroken, PTL DEF Spec, LedgerSpec

----------------------------------------------------------------------------
\* Whatever fails.

Stored1 == ~Prune => entries \subseteq blocks
Stored2 == ~Prune => \A h \in Heights : mainAt[h] # NoBlock => CanDisconnect(mainAt[h])

\* A call that extends the chain works towards a block off the tip's chain,
\* whether or not the disk has that tip.
AboveTheTip == pc = "extend" => New # Genesis /\ New \notin Anc[tip]

DiskInv == DbTypeOK /\ MemTypeOK /\ AboveTheTip /\ DataBeforeIndex

LEMMA DataSplit == DataBeforeIndex <=> Stored1 /\ Stored2
BY DEF DataBeforeIndex, Stored1, Stored2

\* A batch that touches no main chain record and brings no entry without its
\* block, over a store that only grew.
LEMMA SameMain ==
  ASSUME DbTypeOK, DataBeforeIndex, UNCHANGED <<mainAt, nextOf, coins>>,
         dbTip' \in Block, entries' \subseteq Block, tips' \subseteq Block,
         blocks' \subseteq Block, undo' \subseteq Block,
         ~Prune => /\ blocks \subseteq blocks' /\ undo \subseteq undo'
                   /\ entries' \subseteq entries \cup blocks'
  PROVE  DbTypeOK' /\ DataBeforeIndex'
<1>1. DbTypeOK'
  BY DEF DbTypeOK
<1>2. Stored1'
  BY DataSplit DEF Stored1
<1>3. Stored2'
  <2> SUFFICES ASSUME ~Prune, NEW h \in Heights, mainAt[h] # NoBlock
               PROVE  CanDisconnect(mainAt[h])'
    BY DEF Stored2
  <2>1. CanDisconnect(mainAt[h])
    BY DataSplit DEF Stored2
  <2> QED
    BY <2>1 DEF CanDisconnect, HasUndo
<1> QED
  BY <1>1, <1>2, <1>3 DEF DataBeforeIndex, Stored1, Stored2

LEMMA ConnectStored ==
  ASSUME DbTypeOK, DataBeforeIndex, NEW b \in Block, b # Genesis, Connected(b),
         entries' = entries \cup {b} \/ entries' = entries, tips' \subseteq Block
  PROVE  DbTypeOK' /\ DataBeforeIndex'
<1>1. Height[b] \in Heights /\ Parent[b] \in Block
  BY Step DEF Heights
<1>2. DbTypeOK'
  <2>1. coins' \subseteq Coin
    BY CoinAssumption DEF Connected, DbTypeOK
  <2>2. blocks' \subseteq Block /\ undo' \subseteq Block
    BY DEF Connected, DbTypeOK, BlocksWith, UndosWith, UndoOf
  <2>3. mainAt' \in [Heights -> Block \cup {NoBlock}]
    BY <1>1 DEF Connected, DbTypeOK
  <2>4. nextOf' \in [Block -> Block \cup {NoBlock}]
    BY <1>1 DEF Connected, DbTypeOK
  <2>5. entries' \subseteq Block /\ dbTip' \in Block
    BY DEF Connected, DbTypeOK
  <2> QED
    BY <2>1, <2>2, <2>3, <2>4, <2>5 DEF DbTypeOK
<1>3. ~Prune => blocks' = blocks \cup {b} /\ undo' = undo \cup UndoOf(b)
  BY DEF Connected, BlocksWith, UndosWith, PrunedBy
<1>4. Stored1'
  BY <1>3, DataSplit DEF Stored1
<1>5. Stored2'
  <2> SUFFICES ASSUME ~Prune, NEW h \in Heights, mainAt'[h] # NoBlock
               PROVE  CanDisconnect(mainAt[h])'
    BY DEF Stored2
  <2>1. CASE h = Height[b]
    <3>1. mainAt'[h] = b
      BY <2>1 DEF Connected, DbTypeOK
    <3> QED
      BY <1>3, <3>1 DEF CanDisconnect, HasUndo, UndoOf
  <2>2. CASE h # Height[b]
    <3>1. mainAt'[h] = mainAt[h]
      BY <2>2 DEF Connected, DbTypeOK
    <3>2. CanDisconnect(mainAt[h])
      BY <3>1, DataSplit DEF Stored2
    <3> QED
      BY <1>3, <3>1, <3>2 DEF CanDisconnect, HasUndo
  <2> QED
    BY <2>1, <2>2
<1> QED
  BY <1>2, <1>4, <1>5 DEF DataBeforeIndex, Stored1, Stored2

LEMMA DisconnectStored ==
  ASSUME DbTypeOK, DataBeforeIndex, NEW b \in Block, b # Genesis, Disconnected(b),
         entries' \subseteq entries, tips' \subseteq Block
  PROVE  DbTypeOK' /\ DataBeforeIndex'
<1>1. Height[b] \in Heights /\ Parent[b] \in Block
  BY Step DEF Heights
<1>2. UNCHANGED <<blocks, undo>>
  BY DEF Disconnected, store
<1>3. DbTypeOK'
  <2>1. coins' \subseteq Coin
    BY CoinAssumption DEF Disconnected, DbTypeOK
  <2>2. mainAt' \in [Heights -> Block \cup {NoBlock}]
    BY <1>1 DEF Disconnected, DbTypeOK
  <2>3. nextOf' \in [Block -> Block \cup {NoBlock}]
    BY <1>1 DEF Disconnected, DbTypeOK
  <2>4. dbTip' \in Block
    BY <1>1 DEF Disconnected
  <2> QED
    BY <1>2, <2>1, <2>2, <2>3, <2>4 DEF DbTypeOK
<1>4. Stored1'
  BY <1>2, DataSplit DEF Stored1
<1>5. Stored2'
  <2> SUFFICES ASSUME ~Prune, NEW h \in Heights, mainAt'[h] # NoBlock
               PROVE  CanDisconnect(mainAt[h])'
    BY DEF Stored2
  <2>1. mainAt'[h] = mainAt[h]
    BY DEF Disconnected, DbTypeOK
  <2>2. CanDisconnect(mainAt[h])
    BY <2>1, DataSplit DEF Stored2
  <2> QED
    BY <1>2, <2>1, <2>2 DEF CanDisconnect, HasUndo
<1> QED
  BY <1>3, <1>4, <1>5 DEF DataBeforeIndex, Stored1, Stored2

LEMMA DbUnchanged ==
  ASSUME DbTypeOK, DataBeforeIndex, UNCHANGED dbVars
  PROVE  DbTypeOK' /\ DataBeforeIndex'
<1>1. UNCHANGED <<mainAt, nextOf, coins>> /\ UNCHANGED <<entries, tips, dbTip, blocks, undo>>
  BY DEF dbVars, index, store
<1>2. /\ entries \subseteq Block /\ tips \subseteq Block /\ dbTip \in Block
      /\ blocks \subseteq Block /\ undo \subseteq Block
  BY DEF DbTypeOK
<1> QED
  BY <1>1, <1>2, SameMain

----------------------------------------------------------------------------
\* The steps.

\* Those that write nothing.
LEMMA MemorySteps ==
  ASSUME DiskInv,
         \/ \E c \in Calls : Request(c)
         \/ Refuse \/ StoreOrphan \/ Accept \/ BeginExtend \/ ForkMissing
         \/ DataMissing \/ NextOrphan \/ AddDone
         \/ RefuseReset \/ FinishReset \/ ResetFails
         \/ \E b \in invalid : Forget(b)
         \/ UNCHANGED vars
  PROVE  DiskInv'
<1> USE DEF DiskInv
<1>1. DbTypeOK' /\ DataBeforeIndex'
  <2>1. UNCHANGED dbVars
    BY DEF Request, Refuse, StoreOrphan, Accept, BeginExtend, ForkMissing, DataMissing,
           NextOrphan, AddDone, RefuseReset, FinishReset, ResetFails, Forget, vars
  <2> QED
    BY <2>1, DbUnchanged
<1>2. CASE \/ \E c \in Calls : Request(c)
           \/ Refuse \/ StoreOrphan \/ RefuseReset
           \/ \E b \in invalid : Forget(b)
  <2>1. MemTypeOK' /\ UNCHANGED tip /\ UNCHANGED control
    BY <1>2, QueueTypes
  <2>2. AboveTheTip'
    BY <2>1 DEF AboveTheTip, New, control
  <2> QED
    BY <1>1, <2>1, <2>2
<1>3. CASE Accept \/ ForkMissing \/ DataMissing \/ NextOrphan \/ AddDone
  <2>1. MemTypeOK' /\ pc' # "extend"
    BY <1>3, LockTypes
  <2> QED
    BY <1>1, <2>1 DEF AboveTheTip
<1>4. CASE BeginExtend
  <2>1. New \in Block /\ tip \in Block /\ ChainWork[New] > ChainWork[tip]
    BY <1>4, NewInBlock DEF MemTypeOK, BeginExtend, HasMoreWork
  <2>2. New \notin Anc[tip] /\ New # Genesis
    BY <2>1, MoreWork, Ancestors
  <2>3. MemTypeOK' /\ UNCHANGED tip /\ UNCHANGED cand
    BY <1>4 DEF BeginExtend, MemTypeOK, history, memory
  <2>4. AboveTheTip'
    BY <2>2, <2>3 DEF AboveTheTip, New
  <2> QED
    BY <1>1, <2>3, <2>4
<1>5. CASE FinishReset \/ ResetFails
  <2>1. Release
    BY <1>5 DEF FinishReset, ResetFails
  <2>2. /\ invalid' \subseteq Block /\ known' \subseteq Block /\ broken' \in BOOLEAN
        /\ orphans' \in Seq(Copy) /\ tip' \in Block
    <3>1. dbTip \in Block /\ tip \in Block /\ call.block \in Block
      BY DEF DiskInv, MemTypeOK, DbTypeOK, Call
    <3>2. invalid \subseteq Block /\ known \subseteq Block /\ broken \in BOOLEAN
          /\ orphans \in Seq(Copy)
      BY DEF DiskInv, MemTypeOK
    <3>3. CASE FinishReset
      <4>1. tip' = dbTip /\ orphans' = <<>> /\ UNCHANGED broken
            /\ Mark(IF call.op = "invalidate" THEN {call.block} ELSE {})
        BY <3>3 DEF FinishReset
      <4> QED
        BY <3>1, <3>2, <4>1, EmptySeq DEF Mark
    <3>4. CASE ResetFails
      <4>1. broken' = TRUE /\ UNCHANGED <<tip, invalid, orphans, known>>
        BY <3>4 DEF ResetFails
      <4> QED
        BY <3>1, <3>2, <4>1
    <3> QED
      BY <1>5, <3>3, <3>4
  <2>3. MemTypeOK' /\ pc' = "idle"
    BY <1>5, <2>1, <2>2, ReleaseType DEF FinishReset, ResetFails, MemTypeOK, history
  <2> QED
    BY <1>1, <2>3 DEF AboveTheTip
<1>6. CASE UNCHANGED vars
  <2>1. MemTypeOK' /\ UNCHANGED tip /\ UNCHANGED control
    BY <1>6 DEF vars, memory, control, MemTypeOK, history
  <2>2. AboveTheTip'
    BY <2>1 DEF AboveTheTip, New, control
  <2> QED
    BY <1>1, <2>1, <2>2
<1> QED
  BY <1>2, <1>3, <1>4, <1>5, <1>6

LEMMA RejectedDisk ==
  ASSUME DiskInv, NEW b \in Block, NEW verdict, Rejected(b, verdict),
         UNCHANGED dbVars, UNCHANGED tip, UNCHANGED broken, UNCHANGED queue
  PROVE  DiskInv'
<1>1. MemTypeOK' /\ pc' = "idle"
  BY RejectedType DEF DiskInv
<1> QED
  BY <1>1, DbUnchanged DEF DiskInv, AboveTheTip

LEMMA SaveAlternateDisk ==
  ASSUME DiskInv, SaveAlternate
  PROVE  DiskInv'
<1> USE DEF DiskInv
<1>1. New \in Block
  BY NewInBlock
<1>2. PICK late \in Clock(New) :
        LET verdict == HeaderVerdict(New, cand.intact, late)
        IN  \/ /\ verdict = "ok"
               /\ SaveAlternateBatch(New)
               /\ pc' = "orphans"
               /\ UNCHANGED <<memory, queue, cand, call>>
            \/ /\ verdict # "ok"
               /\ Rejected(New, verdict)
               /\ UNCHANGED <<dbVars, tip, broken, queue>>
  BY DEF SaveAlternate
<1>3. CASE SaveAlternateBatch(New) /\ pc' = "orphans" /\ UNCHANGED <<memory, queue, cand, call>>
  <2>1. /\ UNCHANGED <<mainAt, nextOf, coins>> /\ UNCHANGED <<dbTip, undo>>
        /\ entries' = entries \cup {New} /\ blocks' = blocks \cup {New}
        /\ tips' = (tips \ {Parent[New]}) \cup {New}
    BY <1>3 DEF SaveAlternateBatch
  <2>2. DbTypeOK' /\ DataBeforeIndex'
    BY <1>1, <2>1, SameMain DEF DbTypeOK
  <2>3. MemTypeOK' /\ AboveTheTip'
    BY <1>3 DEF MemTypeOK, history, memory, AboveTheTip
  <2> QED
    BY <2>2, <2>3
<1>4. CASE Rejected(New, HeaderVerdict(New, cand.intact, late))
           /\ UNCHANGED <<dbVars, tip, broken, queue>>
  BY <1>1, <1>4, RejectedDisk
<1> QED
  BY <1>2, <1>3, <1>4

\* The tip moves along the branch of a block it stays below.
LEMMA DisconnectDisk ==
  ASSUME DiskInv, Disconnect
  PROVE  DiskInv'
<1> USE DEF DiskInv
<1>1. New \in Block /\ tip \in Block /\ New # Genesis /\ New \notin Anc[tip]
  BY NewInBlock DEF MemTypeOK, AboveTheTip, Disconnect
<1>2. tip # Genesis
  BY <1>1, Ancestors DEF Disconnect, OffBranch
<1>3. /\ Disconnected(tip) /\ UNCHANGED <<entries, tips>> /\ tip' = Parent[tip]
      /\ UNCHANGED <<invalid, orphans, history, queue, control>>
  BY DEF Disconnect, DisconnectBatch
<1>4. DbTypeOK' /\ DataBeforeIndex'
  BY <1>1, <1>2, <1>3, DisconnectStored DEF DbTypeOK
<1>5. MemTypeOK'
  BY <1>1, <1>2, <1>3, Step DEF MemTypeOK, history, control
<1>6. AboveTheTip'
  BY <1>1, <1>2, <1>3, Step DEF AboveTheTip, New, control
<1> QED
  BY <1>4, <1>5, <1>6

LEMMA ReconnectDisk ==
  ASSUME DiskInv, Reconnect
  PROVE  DiskInv'
<1> USE DEF DiskInv
<1> DEFINE next == NextUp
<1>1. New \in Block /\ tip \in Block /\ New # Genesis /\ New \notin Anc[tip]
  BY NewInBlock DEF MemTypeOK, AboveTheTip, Reconnect
<1>2. next \in Block /\ next # Genesis /\ New \notin Anc[next]
  BY <1>1, NextUpOnBranch DEF Reconnect
<1>3. PICK late \in Clock(next) :
        LET verdict == ContextVerdict(next, TRUE, late, coins)
        IN  \/ /\ verdict = "ok"
               /\ ReconnectBatch(next)
               /\ tip' = next
               /\ UNCHANGED <<invalid, orphans, history, queue, control>>
            \/ /\ verdict # "ok"
               /\ Rejected(next, verdict)
               /\ UNCHANGED <<dbVars, tip, broken, queue>>
  BY DEF Reconnect
<1> HIDE DEF next
<1>4. CASE ReconnectBatch(next) /\ tip' = next /\ UNCHANGED <<invalid, orphans, history, queue, control>>
  <2>1. DbTypeOK' /\ DataBeforeIndex'
    BY <1>2, <1>4, ConnectStored DEF ReconnectBatch, DbTypeOK
  <2>2. MemTypeOK'
    BY <1>2, <1>4 DEF MemTypeOK, history, control
  <2>3. AboveTheTip'
    BY <1>1, <1>2, <1>4 DEF AboveTheTip, New, control
  <2> QED
    BY <2>1, <2>2, <2>3
<1>5. CASE Rejected(next, ContextVerdict(next, TRUE, late, coins))
           /\ UNCHANGED <<dbVars, tip, broken, queue>>
  BY <1>2, <1>5, RejectedDisk
<1> QED
  BY <1>3, <1>4, <1>5

LEMMA AttachDisk ==
  ASSUME DiskInv, Attach
  PROVE  DiskInv'
<1> USE DEF DiskInv
<1>1. New \in Block /\ New # Genesis
  BY NewInBlock DEF AboveTheTip, Attach
<1>2. PICK late \in Clock(New) :
        LET verdict == ContextVerdict(New, cand.intact, late, coins)
        IN  \/ /\ verdict = "ok"
               /\ SaveBatch(New)
               /\ tip' = New
               /\ pc' = "orphans"
               /\ UNCHANGED <<invalid, orphans, history, queue, cand, call>>
            \/ /\ verdict # "ok"
               /\ Rejected(New, verdict)
               /\ UNCHANGED <<dbVars, tip, broken, queue>>
  BY DEF Attach
<1>3. CASE /\ SaveBatch(New) /\ tip' = New /\ pc' = "orphans"
           /\ UNCHANGED <<invalid, orphans, history, queue, cand, call>>
  <2>1. /\ Connected(New) /\ entries' = entries \cup {New}
        /\ tips' = (tips \ {Parent[New]}) \cup {New}
    BY <1>3 DEF SaveBatch
  <2>2. DbTypeOK' /\ DataBeforeIndex'
    BY <1>1, <2>1, ConnectStored DEF DbTypeOK
  <2>3. MemTypeOK' /\ AboveTheTip'
    BY <1>1, <1>3 DEF MemTypeOK, history, AboveTheTip
  <2> QED
    BY <2>2, <2>3
<1>4. CASE Rejected(New, ContextVerdict(New, cand.intact, late, coins))
           /\ UNCHANGED <<dbVars, tip, broken, queue>>
  BY <1>1, <1>4, RejectedDisk
<1> QED
  BY <1>2, <1>3, <1>4

LEMMA FaultDisk ==
  ASSUME DiskInv, AddFails \/ Crash
  PROVE  DiskInv'
<1> USE DEF DiskInv
<1>1. PICK left \in StoreLeft : blocks' = left[1] /\ undo' = left[2]
  BY DEF AddFails, Crash
<1>2. /\ blocks' \subseteq Block /\ undo' \subseteq Block
      /\ ~Prune => blocks \subseteq blocks' /\ undo \subseteq undo'
  BY <1>1, StoreLeftSound DEF AboveTheTip
<1>3. MemTypeOK' /\ pc' = "idle" /\ UNCHANGED index
  BY FaultTypes
<1>4. DbTypeOK' /\ DataBeforeIndex'
  <2>1. UNCHANGED <<mainAt, nextOf, coins>> /\ UNCHANGED <<entries, tips, dbTip>>
    BY <1>3 DEF index
  <2> QED
    BY <1>2, <2>1, SameMain DEF DbTypeOK
<1> QED
  BY <1>3, <1>4 DEF AboveTheTip

LEMMA ResetDisk ==
  ASSUME DiskInv, BeginReset \/ Unwind
  PROVE  DiskInv'
<1> USE DEF DiskInv
<1>1. CASE BeginReset
  <2>1. queue # <<>>
    BY <1>1 DEF BeginReset, Granted
  <2>2. Tail(queue) \in Seq(Call) /\ Head(queue) \in Call
    BY <2>1, HeadOfQueue
  <2>3. /\ entries' \subseteq entries /\ tips' \subseteq tips
        /\ UNCHANGED <<mainAt, nextOf, coins>> /\ UNCHANGED <<dbTip, blocks, undo>>
    BY <1>1 DEF BeginReset, RemoveChainsBatch, store
  <2>4. DbTypeOK' /\ DataBeforeIndex'
    BY <2>3, SameMain DEF DbTypeOK
  <2>5. cand' \in Copy /\ pc' = "unwind"
    <3>1. ResetTarget(Head(queue)) \in Block
      BY <1>1 DEF BeginReset, ResetAllowed, DbTypeOK
    <3> QED
      BY <1>1, <3>1 DEF BeginReset, Copy
  <2>6. MemTypeOK' /\ AboveTheTip'
    BY <1>1, <2>2, <2>5 DEF BeginReset, MemTypeOK, history, memory, AboveTheTip
  <2> QED
    BY <2>4, <2>6
<1>2. CASE Unwind
  <2>1. dbTip \in Block /\ dbTip # Genesis /\ pc = "unwind"
    BY <1>2 DEF Unwind, DbTypeOK
  <2>2. /\ Disconnected(dbTip)
        /\ entries' = entries \ {dbTip}
        /\ tips' = (tips \ {dbTip}) \cup {Parent[dbTip]}
        /\ UNCHANGED <<memory, queue, control>>
    BY <1>2 DEF Unwind, UnwindBatch
  <2>3. DbTypeOK' /\ DataBeforeIndex'
    BY <2>1, <2>2, Step, DisconnectStored DEF DbTypeOK
  <2>4. MemTypeOK' /\ AboveTheTip'
    BY <2>1, <2>2 DEF MemTypeOK, history, memory, control, AboveTheTip
  <2> QED
    BY <2>3, <2>4
<1> QED
  BY <1>1, <1>2

LEMMA DiskInit == Init => DiskInv
<1>1. Init => DbTypeOK /\ MemTypeOK
  BY InitInv, InvParts DEF Committed
<1>2. Init => AboveTheTip
  BY DEF Init, AboveTheTip
<1>3. Init => DataBeforeIndex
  BY CoinAssumption DEF Init, DbInit, DataBeforeIndex, CanDisconnect, HasUndo
<1> QED
  BY <1>1, <1>2, <1>3 DEF DiskInv

LEMMA DiskNext ==
  ASSUME DiskInv, [Next]_vars
  PROVE  DiskInv'
<1>1. CASE \/ \E c \in Calls : Request(c)
           \/ Refuse \/ StoreOrphan \/ Accept \/ BeginExtend \/ ForkMissing
           \/ DataMissing \/ NextOrphan \/ AddDone
           \/ RefuseReset \/ FinishReset \/ ResetFails
           \/ \E b \in invalid : Forget(b)
           \/ UNCHANGED vars
  BY <1>1, MemorySteps
<1>2. CASE SaveAlternate
  BY <1>2, SaveAlternateDisk
<1>3. CASE Disconnect
  BY <1>3, DisconnectDisk
<1>4. CASE Reconnect
  BY <1>4, ReconnectDisk
<1>5. CASE Attach
  BY <1>5, AttachDisk
<1>6. CASE AddFails \/ Crash
  BY <1>6, FaultDisk
<1>7. CASE BeginReset \/ Unwind
  BY <1>7, ResetDisk
<1> QED
  BY <1>1, <1>2, <1>3, <1>4, <1>5, <1>6, <1>7 DEF Next, AddStep, ResetStep

LEMMA DiskSafety == Spec => []DiskInv
<1>1. DiskInv /\ [Next]_vars => DiskInv'
  BY DiskNext
<1> QED
  BY <1>1, DiskInit, PTL DEF Spec

\* Every variable keeps its type, whatever fails.
THEOREM TypeCorrect == Spec => []TypeOK
<1>1. DiskInv => TypeOK
  BY TypeSplit DEF DiskInv
<1> QED
  BY <1>1, DiskSafety, PTL

\* Without pruning, no entry on disk is without its block and no main chain
\* record without the data to disconnect its block, whatever fails and even
\* when this.tip has lost touch with the disk.
THEOREM DataAlwaysThere == Spec => []DataBeforeIndex
<1>1. DiskInv => DataBeforeIndex
  BY DEF DiskInv
<1> QED
  BY <1>1, DiskSafety, PTL

----------------------------------------------------------------------------
\* The orphan pool.

\* t is s with some of its elements left out.
Thinned(t, s) ==
  /\ Len(t) <= Len(s)
  /\ \E at \in [1..Len(t) -> 1..Len(s)] :
       /\ \A i \in 1..Len(t) : t[i] = s[at[i]]
       /\ \A i, j \in 1..Len(t) : at[i] = at[j] => i = j

OnePerParent(pool) ==
  \A i, j \in 1..Len(pool) : Parent[pool[i].block] = Parent[pool[j].block] => i = j

LEMMA ThinnedTwice ==
  ASSUME NEW s \in Seq(Copy), NEW t \in Seq(Copy), NEW u \in Seq(Copy),
         Thinned(t, s), Thinned(u, t)
  PROVE  Thinned(u, s)
<1>0. Len(s) \in Nat /\ Len(t) \in Nat /\ Len(u) \in Nat
  BY LenProperties
<1>1. PICK f \in [1..Len(t) -> 1..Len(s)] :
        /\ \A i \in 1..Len(t) : t[i] = s[f[i]]
        /\ \A i, j \in 1..Len(t) : f[i] = f[j] => i = j
  BY DEF Thinned
<1>2. PICK h \in [1..Len(u) -> 1..Len(t)] :
        /\ \A i \in 1..Len(u) : u[i] = t[h[i]]
        /\ \A i, j \in 1..Len(u) : h[i] = h[j] => i = j
  BY DEF Thinned
<1> DEFINE at == [i \in 1..Len(u) |-> f[h[i]]]
<1>3. at \in [1..Len(u) -> 1..Len(s)]
  BY <1>1, <1>2
<1>4. \A i \in 1..Len(u) : u[i] = s[at[i]]
  BY <1>1, <1>2
<1>5. \A i, j \in 1..Len(u) : at[i] = at[j] => i = j
  BY <1>1, <1>2
<1>6. Len(u) <= Len(s)
  BY <1>0 DEF Thinned
<1> QED
  BY <1>3, <1>4, <1>5, <1>6 DEF Thinned

LEMMA ThinnedSelf ==
  ASSUME NEW s \in Seq(Copy)
  PROVE  Thinned(s, s)
<1> DEFINE at == [i \in 1..Len(s) |-> i]
<1>1. at \in [1..Len(s) -> 1..Len(s)]
  OBVIOUS
<1>2. /\ \A i \in 1..Len(s) : s[i] = s[at[i]]
      /\ \A i, j \in 1..Len(s) : at[i] = at[j] => i = j
  OBVIOUS
<1>3. Len(s) <= Len(s)
  BY LenProperties
<1> QED
  BY <1>1, <1>2, <1>3 DEF Thinned

\* The oldest are dropped.
LEMMA ThinnedSuffix ==
  ASSUME NEW s \in Seq(Copy), NEW k \in 0..Len(s)
  PROVE  /\ SubSeq(s, k + 1, Len(s)) \in Seq(Copy)
         /\ Thinned(SubSeq(s, k + 1, Len(s)), s)
<1> DEFINE t == SubSeq(s, k + 1, Len(s))
           at == [i \in 1..Len(t) |-> i + k]
<1>1. Len(s) \in Nat /\ \A i \in k + 1..Len(s) : s[i] \in Copy
  BY LenProperties, ElementOfSeq
<1>2. /\ t \in Seq(Copy)
      /\ Len(t) = Len(s) - k
      /\ \A i \in 1..Len(s) - k : t[i] = s[k + i]
  <2>1. /\ t \in Seq(Copy)
        /\ Len(t) = IF k + 1 <= Len(s) THEN Len(s) - (k + 1) + 1 ELSE 0
        /\ \A i \in 1..Len(s) - (k + 1) + 1 : t[i] = s[k + 1 + i - 1]
    BY <1>1, SubSeqProperties
  <2> HIDE DEF t
  <2>2. Len(t) = Len(s) - k
    BY <1>1, <2>1
  <2>3. ASSUME NEW i \in 1..Len(s) - k
        PROVE  t[i] = s[k + i]
    <3>1. i \in 1..Len(s) - (k + 1) + 1 /\ k + 1 + i - 1 = k + i
      BY <1>1
    <3> QED
      BY <2>1, <3>1
  <2> QED
    BY <2>1, <2>2, <2>3
<1> HIDE DEF t
<1>3. at \in [1..Len(t) -> 1..Len(s)]
  BY <1>1, <1>2
<1>4. /\ \A i \in 1..Len(t) : t[i] = s[at[i]]
      /\ \A i, j \in 1..Len(t) : at[i] = at[j] => i = j
  BY <1>1, <1>2
<1>5. Thinned(t, s)
  <2>1. Len(t) <= Len(s)
    BY <1>1, <1>2
  <2>2. \E f \in [1..Len(t) -> 1..Len(s)] :
          /\ \A i \in 1..Len(t) : t[i] = s[f[i]]
          /\ \A i, j \in 1..Len(t) : f[i] = f[j] => i = j
    <3> HIDE DEF at
    <3> WITNESS at \in [1..Len(t) -> 1..Len(s)]
    <3> QED
      BY <1>4
  <2> QED
    BY <2>1, <2>2 DEF Thinned
<1> QED
  BY <1>2, <1>5 DEF t

\* One is cut out, and every other one stays.
LEMMA ThinnedRemove ==
  ASSUME NEW s \in Seq(Copy), NEW i \in 1..Len(s)
  PROVE  /\ RemoveAt(s, i) \in Seq(Copy)
         /\ Thinned(RemoveAt(s, i), s)
         /\ \A m \in 1..Len(RemoveAt(s, i)) : \E j \in 1..Len(s) \ {i} : RemoveAt(s, i)[m] = s[j]
<1> DEFINE p == SubSeq(s, 1, i - 1)
           q == SubSeq(s, i + 1, Len(s))
           t == RemoveAt(s, i)
           at == [m \in 1..Len(t) |-> IF m < i THEN m ELSE m + 1]
<1>1. Len(s) \in Nat /\ \A m \in 1..Len(s) : s[m] \in Copy
  BY LenProperties, ElementOfSeq
<1>2. p \in Seq(Copy) /\ Len(p) = i - 1 /\ \A m \in 1..i - 1 : p[m] = s[m]
  <2>1. \A m \in 1..i - 1 : s[m] \in Copy
    BY <1>1
  <2>2. /\ p \in Seq(Copy)
        /\ Len(p) = IF 1 <= i - 1 THEN (i - 1) - 1 + 1 ELSE 0
        /\ \A m \in 1..(i - 1) - 1 + 1 : p[m] = s[1 + m - 1]
    BY <2>1, SubSeqProperties
  <2> HIDE DEF p
  <2>3. Len(p) = i - 1
    BY <1>1, <2>2
  <2>4. ASSUME NEW m \in 1..i - 1
        PROVE  p[m] = s[m]
    <3>1. m \in 1..(i - 1) - 1 + 1 /\ 1 + m - 1 = m
      BY <1>1
    <3> QED
      BY <2>2, <3>1
  <2> QED
    BY <2>2, <2>3, <2>4
<1>3. q \in Seq(Copy) /\ Len(q) = Len(s) - i /\ \A m \in 1..Len(s) - i : q[m] = s[i + m]
  <2>1. \A m \in i + 1..Len(s) : s[m] \in Copy
    BY <1>1
  <2>2. /\ q \in Seq(Copy)
        /\ Len(q) = IF i + 1 <= Len(s) THEN Len(s) - (i + 1) + 1 ELSE 0
        /\ \A m \in 1..Len(s) - (i + 1) + 1 : q[m] = s[i + 1 + m - 1]
    BY <1>1, <2>1, SubSeqProperties
  <2> HIDE DEF q
  <2>3. Len(q) = Len(s) - i
    BY <1>1, <2>2
  <2>4. ASSUME NEW m \in 1..Len(s) - i
        PROVE  q[m] = s[i + m]
    <3>1. m \in 1..Len(s) - (i + 1) + 1 /\ i + 1 + m - 1 = i + m
      BY <1>1
    <3> QED
      BY <2>2, <3>1
  <2> QED
    BY <2>2, <2>3, <2>4
<1>4. t = p \o q
  BY DEF RemoveAt
<1> HIDE DEF p, q, t
<1>5. /\ t \in Seq(Copy)
      /\ Len(t) = Len(s) - 1
      /\ \A m \in 1..Len(s) - 1 : t[m] = IF m <= i - 1 THEN p[m] ELSE q[m - (i - 1)]
  <2>1. /\ t \in Seq(Copy)
        /\ Len(t) = Len(p) + Len(q)
        /\ \A m \in 1..Len(p) + Len(q) : t[m] = IF m <= Len(p) THEN p[m] ELSE q[m - Len(p)]
    BY <1>2, <1>3, <1>4, ConcatProperties
  <2>2. Len(p) + Len(q) = Len(s) - 1
    BY <1>1, <1>2, <1>3
  <2> QED
    BY <1>2, <2>1, <2>2
<1>6. at \in [1..Len(t) -> 1..Len(s)]
  BY <1>1, <1>5
<1>7. \A m \in 1..Len(t) : at[m] # i /\ t[m] = s[at[m]]
  <2> SUFFICES ASSUME NEW m \in 1..Len(t)
               PROVE  at[m] # i /\ t[m] = s[at[m]]
    OBVIOUS
  <2>1. m \in 1..Len(s) - 1
    BY <1>5
  <2>2. CASE m < i
    <3>1. m <= i - 1 /\ m \in 1..i - 1 /\ at[m] = m
      BY <2>1, <2>2
    <3> QED
      BY <1>2, <1>5, <2>1, <2>2, <3>1
  <2>3. CASE ~(m < i)
    <3>1. ~(m <= i - 1) /\ m - (i - 1) \in 1..Len(s) - i /\ at[m] = m + 1
          /\ i + (m - (i - 1)) = m + 1
      BY <1>1, <2>1, <2>3
    <3>2. t[m] = q[m - (i - 1)]
      BY <1>5, <2>1, <3>1
    <3> QED
      BY <1>3, <2>1, <2>3, <3>1, <3>2
  <2> QED
    BY <2>2, <2>3
<1>8. \A m, n \in 1..Len(t) : at[m] = at[n] => m = n
  BY <1>1, <1>5
<1>9. Thinned(t, s)
  <2>1. Len(t) <= Len(s)
    BY <1>1, <1>5
  <2>2. \E f \in [1..Len(t) -> 1..Len(s)] :
          /\ \A m \in 1..Len(t) : t[m] = s[f[m]]
          /\ \A m, n \in 1..Len(t) : f[m] = f[n] => m = n
    <3> HIDE DEF at
    <3> WITNESS at \in [1..Len(t) -> 1..Len(s)]
    <3> QED
      BY <1>7, <1>8
  <2> QED
    BY <2>1, <2>2 DEF Thinned
<1>10. \A m \in 1..Len(t) : \E j \in 1..Len(s) \ {i} : t[m] = s[j]
  BY <1>6, <1>7
<1> QED
  BY <1>5, <1>9, <1>10 DEF t

LEMMA ThinnedTail ==
  ASSUME NEW s \in Seq(Copy), s # <<>>
  PROVE  Tail(s) \in Seq(Copy) /\ Thinned(Tail(s), s) /\ Len(Tail(s)) = Len(s) - 1
<1>1. Len(s) \in Nat \ {0}
  BY EmptySeq
<1>2. Tail(s) = SubSeq(s, 1 + 1, Len(s)) /\ 1 \in 0..Len(s)
  BY <1>1, TailIsSubSeq
<1>3. SubSeq(s, 1 + 1, Len(s)) \in Seq(Copy) /\ Thinned(SubSeq(s, 1 + 1, Len(s)), s)
  BY <1>2, ThinnedSuffix
<1> QED
  BY <1>2, <1>3, HeadTailProperties

\* What holds of the elements of a pool holds of one thinned out.
LEMMA ThinnedKeeps ==
  ASSUME NEW s \in Seq(Copy), NEW t \in Seq(Copy), Thinned(t, s)
  PROVE  /\ ToSet(t) \subseteq ToSet(s)
         /\ OnePerParent(s) => OnePerParent(t)
<1>1. PICK at \in [1..Len(t) -> 1..Len(s)] :
        /\ \A i \in 1..Len(t) : t[i] = s[at[i]]
        /\ \A i, j \in 1..Len(t) : at[i] = at[j] => i = j
  BY DEF Thinned
<1>2. DOMAIN t = 1..Len(t) /\ DOMAIN s = 1..Len(s)
  BY LenProperties
<1>3. ToSet(t) \subseteq ToSet(s)
  BY <1>1, <1>2 DEF ToSet
<1>4. OnePerParent(s) => OnePerParent(t)
  BY <1>1 DEF OnePerParent
<1> QED
  BY <1>3, <1>4

\* One with a parent of its own is added.
LEMMA AppendKeeps ==
  ASSUME NEW s \in Seq(Copy), NEW o \in Copy, OnePerParent(s),
         \A e \in ToSet(s) : Parent[e.block] # Parent[o.block]
  PROVE  /\ ToSet(Append(s, o)) = ToSet(s) \cup {o}
         /\ OnePerParent(Append(s, o))
         /\ Len(Append(s, o)) = Len(s) + 1
<1> DEFINE t == Append(s, o)
<1>1. /\ t \in Seq(Copy) /\ Len(t) = Len(s) + 1 /\ Len(s) \in Nat
      /\ \A i \in 1..Len(s) : t[i] = s[i]
      /\ t[Len(s) + 1] = o
  BY AppendProperties, LenProperties
<1>2. DOMAIN s = 1..Len(s) /\ DOMAIN t = 1..Len(s) + 1
  BY <1>1, LenProperties
<1> HIDE DEF t
<1>3. 1..Len(s) + 1 = 1..Len(s) \cup {Len(s) + 1}
  BY <1>1
<1>4. ToSet(t) = ToSet(s) \cup {o}
  BY <1>1, <1>2, <1>3 DEF ToSet
<1>5. \A i \in 1..Len(s) : s[i] \in ToSet(s)
  BY <1>2 DEF ToSet
<1>6. OnePerParent(t)
  <2> SUFFICES ASSUME NEW i \in 1..Len(s) \cup {Len(s) + 1},
                      NEW j \in 1..Len(s) \cup {Len(s) + 1},
                      Parent[t[i].block] = Parent[t[j].block]
               PROVE  i = j
    BY <1>1, <1>3 DEF OnePerParent
  <2> QED
    BY <1>1, <1>5 DEF OnePerParent
<1> QED
  BY <1>1, <1>4, <1>6 DEF t

\* Between two steps of add() that save a block, no orphan could be connected;
\* once a block is saved, only the orphan that waits for it can.
PoolWaits ==
  \A o \in OrphanBlocks :
    /\ o \notin entries
    /\ Parent[o] \in entries => pc = "orphans" /\ Parent[o] = New

\* The block under way is not in the pool as well.
CandApart == pc \in {"connect", "extend"} => New \notin OrphanBlocks

PoolInv == OrphansBounded /\ PoolWaits /\ CandApart

LEMMA BoundedSplit == OrphansBounded <=> Len(orphans) <= MaxOrphans /\ OnePerParent(orphans)
BY DEF OrphansBounded, OnePerParent

LEMMA EmptyPool ==
  ASSUME orphans' = <<>>
  PROVE  PoolInv'
<1>1. Len(orphans') = 0 /\ ToSet(orphans') = {}
  BY EmptySeq DEF ToSet
<1>2. OrphansBounded'
  BY <1>1, ChainAssumption DEF OrphansBounded
<1>3. OrphanBlocks' = {}
  BY <1>1 DEF OrphanBlocks
<1> QED
  BY <1>2, <1>3 DEF PoolInv, PoolWaits, CandApart

\* The pool stays, and no entry is added.
LEMMA PoolKept ==
  ASSUME PoolInv, UNCHANGED orphans, entries' \subseteq entries,
         pc # "orphans" \/ UNCHANGED <<pc, cand>>, CandApart'
  PROVE  PoolInv'
<1>1. OrphansBounded' /\ OrphanBlocks' = OrphanBlocks
  BY DEF PoolInv, OrphansBounded, OrphanBlocks
<1>2. PoolWaits'
  BY <1>1 DEF PoolInv, PoolWaits, New
<1> QED
  BY <1>1, <1>2 DEF PoolInv

\* An error for a block empties the pool or leaves it.
LEMMA RejectedPool ==
  ASSUME PoolInv, pc \in {"connect", "extend"}, NEW b, NEW verdict, Rejected(b, verdict),
         UNCHANGED dbVars
  PROVE  PoolInv'
<1>1. pc' = "idle" /\ UNCHANGED entries /\ (orphans' = <<>> \/ UNCHANGED orphans)
  BY DEF Rejected, Release, dbVars, index
<1>2. CASE UNCHANGED orphans
  BY <1>1, <1>2, PoolKept DEF CandApart
<1> QED
  BY <1>1, <1>2, EmptyPool

\* A block is saved, on the main chain or beside it.
LEMMA SavedPool ==
  ASSUME PoolInv, pc \in {"connect", "extend"}, entries' = entries \cup {New},
         pc' = "orphans", UNCHANGED orphans, UNCHANGED cand
  PROVE  PoolInv'
<1>1. OrphansBounded' /\ OrphanBlocks' = OrphanBlocks /\ New' = New
  BY DEF PoolInv, OrphansBounded, OrphanBlocks, New
<1>2. PoolWaits'
  BY <1>1 DEF PoolInv, PoolWaits, CandApart
<1>3. CandApart'
  BY DEF CandApart
<1> QED
  BY <1>1, <1>2, <1>3 DEF PoolInv

\* storeOrphan keeps one orphan per parent and makes room before it adds.
LEMMA StoreOrphanPool ==
  ASSUME MemTypeOK, PoolInv, StoreOrphan
  PROVE  /\ PoolInv'
         /\ OrphanBlocks' \subseteq OrphanBlocks \cup {Head(queue).block}
         /\ ToSet(orphans') \subseteq ToSet(orphans) \cup {CopyIn(Head(queue))}
<1> DEFINE copy == CopyIn(Head(queue))
           others == WithoutSibling(Parent[copy.block])
<1>1. queue # <<>> /\ pc = "idle"
  BY DEF StoreOrphan, Granted
<1>2. copy \in Copy /\ copy.block = Head(queue).block
  BY <1>1, HeadOfQueue DEF CopyIn
<1>3. /\ copy.block \notin entries /\ Parent[copy.block] \notin entries
      /\ UNCHANGED <<dbVars, control>>
      /\ \E k \in 0..Len(others) :
           orphans' = Append(Limited(SubSeq(others, k + 1, Len(others))), copy)
  BY <1>2 DEF StoreOrphan, Refused
<1>4. orphans \in Seq(Copy) /\ Len(orphans) <= MaxOrphans /\ OnePerParent(orphans)
      /\ Len(orphans) \in Nat /\ DOMAIN orphans = 1..Len(orphans)
  BY BoundedSplit, LenProperties DEF MemTypeOK, PoolInv
<1>5. /\ others \in Seq(Copy) /\ Thinned(others, orphans)
      /\ \A o \in ToSet(others) : Parent[o.block] # Parent[copy.block]
  <2>1. CASE ~HasNextOrphan(Parent[copy.block])
    BY <1>4, <2>1, ThinnedSelf DEF WithoutSibling, HasNextOrphan
  <2>2. CASE HasNextOrphan(Parent[copy.block])
    <3> DEFINE at == CHOOSE i \in 1..Len(orphans) : Parent[orphans[i].block] = Parent[copy.block]
    <3>1. \E i \in 1..Len(orphans) : Parent[orphans[i].block] = Parent[copy.block]
      BY <1>4, <2>2 DEF HasNextOrphan, ToSet
    <3>2. at \in 1..Len(orphans) /\ Parent[orphans[at].block] = Parent[copy.block]
      BY <3>1
    <3>3. others = RemoveAt(orphans, at)
      BY <2>2 DEF WithoutSibling
    <3> HIDE DEF at, others, copy
    <3>4. /\ others \in Seq(Copy) /\ Thinned(others, orphans)
          /\ \A m \in 1..Len(others) : \E j \in 1..Len(orphans) \ {at} : others[m] = orphans[j]
      BY <1>4, <3>2, <3>3, ThinnedRemove
    <3>5. \A m \in 1..Len(others) : Parent[others[m].block] # Parent[copy.block]
      BY <1>4, <3>2, <3>4 DEF OnePerParent
    <3>6. DOMAIN others = 1..Len(others)
      BY <3>4, LenProperties
    <3> QED
      BY <3>4, <3>5, <3>6 DEF ToSet
  <2> QED
    BY <2>1, <2>2
<1> HIDE DEF others, copy
<1>6. PICK k \in 0..Len(others) :
        orphans' = Append(Limited(SubSeq(others, k + 1, Len(others))), copy)
  BY <1>3
<1> DEFINE rest == SubSeq(others, k + 1, Len(others))
           pool == Limited(rest)
<1>7. rest \in Seq(Copy) /\ Thinned(rest, others)
  BY <1>5, ThinnedSuffix
<1> HIDE DEF rest
<1>8. /\ pool \in Seq(Copy) /\ Thinned(pool, rest) /\ Len(pool) < MaxOrphans
  <2>1. Len(rest) <= MaxOrphans /\ Len(rest) \in Nat
    BY <1>4, <1>5, <1>7, LenProperties, ChainAssumption DEF Thinned
  <2>2. CASE Len(rest) < MaxOrphans
    BY <1>7, <2>2, ThinnedSelf DEF Limited
  <2>3. CASE ~(Len(rest) < MaxOrphans)
    <3>1. rest # <<>>
      BY <2>3, EmptySeq, ChainAssumption
    <3>2. Tail(rest) \in Seq(Copy) /\ Thinned(Tail(rest), rest) /\ Len(Tail(rest)) = Len(rest) - 1
      BY <1>7, <3>1, ThinnedTail
    <3>3. Len(Tail(rest)) < MaxOrphans
      BY <2>1, <3>2, ChainAssumption
    <3> QED
      BY <2>3, <3>2, <3>3 DEF Limited
  <2> QED
    BY <2>2, <2>3
<1> HIDE DEF pool
<1>9. Thinned(pool, orphans) /\ ToSet(pool) \subseteq ToSet(others)
  <2>1. Thinned(pool, others)
    BY <1>5, <1>7, <1>8, ThinnedTwice
  <2> QED
    BY <1>4, <1>5, <1>8, <2>1, ThinnedTwice, ThinnedKeeps
<1>10. OnePerParent(pool) /\ ToSet(pool) \subseteq ToSet(orphans)
  BY <1>4, <1>8, <1>9, ThinnedKeeps
<1>11. orphans' = Append(pool, copy)
  BY <1>6 DEF pool, rest
<1>12. /\ ToSet(orphans') = ToSet(pool) \cup {copy}
       /\ OnePerParent(orphans') /\ Len(orphans') = Len(pool) + 1
  BY <1>2, <1>5, <1>8, <1>9, <1>10, <1>11, AppendKeeps
<1>13. OrphansBounded'
  <2>1. Len(orphans') <= MaxOrphans
    BY <1>8, <1>12, LenProperties, ChainAssumption
  <2> QED
    BY <1>12, <2>1 DEF OrphansBounded, OnePerParent
<1>14. OrphanBlocks' \subseteq OrphanBlocks \cup {copy.block}
  BY <1>10, <1>12 DEF OrphanBlocks
<1>15. UNCHANGED entries /\ pc' = "idle"
  BY <1>1, <1>3 DEF dbVars, index, control
<1>16. PoolWaits'
  BY <1>1, <1>3, <1>14, <1>15 DEF PoolWaits, PoolInv
<1>17. ToSet(orphans') \subseteq ToSet(orphans) \cup {copy}
  BY <1>10, <1>12
<1> QED
  BY <1>2, <1>13, <1>14, <1>15, <1>16, <1>17 DEF PoolInv, CandApart, copy

\* handleOrphans takes the only orphan that waits for the block just saved.
LEMMA NextOrphanPool ==
  ASSUME MemTypeOK, PoolInv, NextOrphan
  PROVE  PoolInv' /\ OrphanBlocks' \subseteq OrphanBlocks /\ New' \in OrphanBlocks
<1>1. PICK i \in 1..Len(orphans) :
        /\ Parent[orphans[i].block] = New
        /\ cand' = orphans[i]
        /\ orphans' = RemoveAt(orphans, i)
  BY DEF NextOrphan
<1>2. orphans \in Seq(Copy) /\ Len(orphans) <= MaxOrphans /\ OnePerParent(orphans)
      /\ Len(orphans) \in Nat /\ DOMAIN orphans = 1..Len(orphans)
  BY BoundedSplit, LenProperties DEF MemTypeOK, PoolInv
<1>3. /\ orphans' \in Seq(Copy) /\ Thinned(orphans', orphans)
      /\ \A m \in 1..Len(orphans') : \E j \in 1..Len(orphans) \ {i} : orphans'[m] = orphans[j]
  BY <1>1, <1>2, ThinnedRemove
<1>4. Len(orphans') \in Nat /\ DOMAIN orphans' = 1..Len(orphans')
  BY <1>3, LenProperties
<1>5. OrphansBounded'
  <2>1. Len(orphans') <= MaxOrphans
    BY <1>2, <1>3, <1>4, ChainAssumption DEF Thinned
  <2>2. OnePerParent(orphans')
    BY <1>2, <1>3, ThinnedKeeps
  <2> QED
    BY <2>1, <2>2 DEF OrphansBounded, OnePerParent
<1>6. ASSUME NEW o \in ToSet(orphans')
      PROVE  o \in ToSet(orphans) /\ Parent[o.block] # New
  <2>1. PICK m \in 1..Len(orphans') : o = orphans'[m]
    BY <1>4, <1>6 DEF ToSet
  <2>2. PICK j \in 1..Len(orphans) \ {i} : o = orphans[j]
    BY <1>3, <2>1
  <2> QED
    BY <1>1, <1>2, <2>2 DEF ToSet, OnePerParent
<1>7. UNCHANGED entries /\ pc = "orphans" /\ pc' = "connect" /\ New' = orphans[i].block
  BY <1>1 DEF NextOrphan, dbVars, index, New
<1>8. ASSUME NEW b \in OrphanBlocks'
      PROVE  b \in OrphanBlocks /\ Parent[b] # New
  BY <1>6 DEF OrphanBlocks
<1>9. PoolWaits'
  BY <1>7, <1>8 DEF PoolInv, PoolWaits
<1>10. CandApart'
  BY <1>1, <1>7, <1>8 DEF CandApart
<1>11. New' \in OrphanBlocks
  BY <1>2, <1>7 DEF OrphanBlocks, ToSet
<1> QED
  BY <1>5, <1>8, <1>9, <1>10, <1>11 DEF PoolInv

LEMMA PoolNext ==
  ASSUME MemTypeOK, PoolInv, [Next]_vars
  PROVE  PoolInv'
<1>1. CASE \/ \E c \in Calls : Request(c)
           \/ Refuse \/ RefuseReset \/ (\E b \in invalid : Forget(b)) \/ UNCHANGED vars
  <2>1. UNCHANGED orphans /\ UNCHANGED entries /\ UNCHANGED pc /\ UNCHANGED cand
    BY <1>1 DEF Request, Refuse, RefuseReset, Forget, vars, memory, control, dbVars, index
  <2>2. CandApart'
    BY <2>1 DEF PoolInv, CandApart, OrphanBlocks, New
  <2> QED
    BY <2>1, <2>2, PoolKept
<1>2. CASE StoreOrphan
  BY <1>2, StoreOrphanPool
<1>3. CASE Accept
  <2>1. UNCHANGED orphans /\ UNCHANGED entries /\ pc = "idle" /\ New' = Head(queue).block
    BY <1>3 DEF Accept, Granted, memory, dbVars, index, New, CopyIn
  <2>2. Head(queue).block \notin OrphanBlocks
    BY <1>3 DEF Accept, Refused, Duplicate, IsOrphan
  <2>3. CandApart'
    BY <2>1, <2>2 DEF CandApart, OrphanBlocks
  <2> QED
    BY <2>1, <2>3, PoolKept
<1>4. CASE SaveAlternate
  <2>1. PICK late \in Clock(New) :
          LET verdict == HeaderVerdict(New, cand.intact, late)
          IN  \/ /\ verdict = "ok"
                 /\ SaveAlternateBatch(New)
                 /\ pc' = "orphans"
                 /\ UNCHANGED <<memory, queue, cand, call>>
              \/ /\ verdict # "ok"
                 /\ Rejected(New, verdict)
                 /\ UNCHANGED <<dbVars, tip, broken, queue>>
    BY <1>4 DEF SaveAlternate
  <2>2. pc = "connect"
    BY <1>4 DEF SaveAlternate
  <2>3. CASE SaveAlternateBatch(New) /\ pc' = "orphans" /\ UNCHANGED <<memory, queue, cand, call>>
    BY <2>2, <2>3, SavedPool DEF SaveAlternateBatch, memory
  <2>4. CASE /\ Rejected(New, HeaderVerdict(New, cand.intact, late))
             /\ UNCHANGED <<dbVars, tip, broken, queue>>
    BY <2>2, <2>4, RejectedPool
  <2> QED
    BY <2>1, <2>3, <2>4
<1>5. CASE BeginExtend
  <2>1. UNCHANGED orphans /\ UNCHANGED entries /\ UNCHANGED cand /\ pc = "connect"
    BY <1>5 DEF BeginExtend, memory, dbVars, index
  <2>2. CandApart'
    BY <2>1 DEF PoolInv, CandApart, OrphanBlocks, New
  <2> QED
    BY <2>1, <2>2, PoolKept
<1>6. CASE ForkMissing \/ DataMissing \/ AddFails \/ ResetFails
  <2>1. UNCHANGED orphans /\ UNCHANGED entries /\ pc # "orphans" /\ pc' = "idle"
    BY <1>6 DEF ForkMissing, DataMissing, AddFails, ResetFails, Release, memory, dbVars, index
  <2> QED
    BY <2>1, PoolKept DEF CandApart
<1>7. CASE Disconnect
  <2>1. UNCHANGED orphans /\ UNCHANGED entries /\ UNCHANGED pc /\ UNCHANGED cand
    BY <1>7 DEF Disconnect, DisconnectBatch, control
  <2>2. CandApart'
    BY <2>1 DEF PoolInv, CandApart, OrphanBlocks, New
  <2> QED
    BY <2>1, <2>2, PoolKept
<1>8. CASE Reconnect
  <2>1. PICK late \in Clock(NextUp) :
          LET verdict == ContextVerdict(NextUp, TRUE, late, coins)
          IN  \/ /\ verdict = "ok"
                 /\ ReconnectBatch(NextUp)
                 /\ tip' = NextUp
                 /\ UNCHANGED <<invalid, orphans, history, queue, control>>
              \/ /\ verdict # "ok"
                 /\ Rejected(NextUp, verdict)
                 /\ UNCHANGED <<dbVars, tip, broken, queue>>
    BY <1>8 DEF Reconnect
  <2>2. pc = "extend"
    BY <1>8 DEF Reconnect
  <2>3. CASE ReconnectBatch(NextUp) /\ UNCHANGED <<invalid, orphans, history, queue, control>>
    <3>1. UNCHANGED orphans /\ UNCHANGED entries /\ UNCHANGED pc /\ UNCHANGED cand
      BY <2>3 DEF ReconnectBatch, control
    <3>2. CandApart'
      BY <3>1 DEF PoolInv, CandApart, OrphanBlocks, New
    <3> QED
      BY <3>1, <3>2, PoolKept
  <2>4. CASE /\ Rejected(NextUp, ContextVerdict(NextUp, TRUE, late, coins))
             /\ UNCHANGED <<dbVars, tip, broken, queue>>
    BY <2>2, <2>4, RejectedPool
  <2> QED
    BY <2>1, <2>3, <2>4
<1>9. CASE Attach
  <2>1. PICK late \in Clock(New) :
          LET verdict == ContextVerdict(New, cand.intact, late, coins)
          IN  \/ /\ verdict = "ok"
                 /\ SaveBatch(New)
                 /\ tip' = New
                 /\ pc' = "orphans"
                 /\ UNCHANGED <<invalid, orphans, history, queue, cand, call>>
              \/ /\ verdict # "ok"
                 /\ Rejected(New, verdict)
                 /\ UNCHANGED <<dbVars, tip, broken, queue>>
    BY <1>9 DEF Attach
  <2>2. pc = "extend"
    BY <1>9 DEF Attach
  <2>3. CASE /\ SaveBatch(New) /\ pc' = "orphans"
             /\ UNCHANGED <<invalid, orphans, history, queue, cand, call>>
    BY <2>2, <2>3, SavedPool DEF SaveBatch
  <2>4. CASE /\ Rejected(New, ContextVerdict(New, cand.intact, late, coins))
             /\ UNCHANGED <<dbVars, tip, broken, queue>>
    BY <2>2, <2>4, RejectedPool
  <2> QED
    BY <2>1, <2>3, <2>4
<1>10. CASE NextOrphan
  BY <1>10, NextOrphanPool
<1>11. CASE AddDone
  <2>1. /\ UNCHANGED orphans /\ UNCHANGED entries /\ pc' = "idle"
        /\ \A o \in OrphanBlocks : Parent[o] # New
    BY <1>11 DEF AddDone, Release, memory, dbVars, index, HasNextOrphan, OrphanBlocks
  <2>2. OrphansBounded' /\ OrphanBlocks' = OrphanBlocks
    BY <2>1 DEF PoolInv, OrphansBounded, OrphanBlocks
  <2>3. PoolWaits' /\ CandApart'
    BY <2>1, <2>2 DEF PoolInv, PoolWaits, CandApart
  <2> QED
    BY <2>2, <2>3 DEF PoolInv
<1>12. CASE BeginReset \/ Unwind
  <2>1. UNCHANGED orphans /\ entries' \subseteq entries /\ pc # "orphans" /\ pc' = "unwind"
    BY <1>12 DEF BeginReset, Granted, RemoveChainsBatch, Unwind, UnwindBatch, memory, control
  <2> QED
    BY <2>1, PoolKept DEF CandApart
<1>13. CASE FinishReset \/ Crash
  <2>1. orphans' = <<>>
    BY <1>13 DEF FinishReset, Crash
  <2> QED
    BY <2>1, EmptyPool
<1> QED
  BY <1>1, <1>2, <1>3, <1>4, <1>5, <1>6, <1>7, <1>8, <1>9, <1>10, <1>11, <1>12, <1>13
     DEF Next, AddStep, ResetStep

LEMMA PoolInitially == Init => PoolInv
<1> SUFFICES ASSUME Init
             PROVE  PoolInv
  OBVIOUS
<1>1. Len(orphans) = 0 /\ OrphanBlocks = {}
  BY EmptySeq DEF Init, OrphanBlocks, ToSet
<1> QED
  BY <1>1, ChainAssumption DEF PoolInv, OrphansBounded, PoolWaits, CandApart

LEMMA PoolSafety == Spec => []PoolInv
<1>1. DiskInv => MemTypeOK
  BY DEF DiskInv
<1>2. MemTypeOK /\ PoolInv /\ [Next]_vars => PoolInv'
  BY PoolNext
<1> QED
  BY <1>1, <1>2, PoolInitially, DiskSafety, PTL DEF Spec

\* The orphan pool has one orphan per parent and never more than maxOrphans,
\* whatever is offered in whatever order and whatever fails.
THEOREM OrphansAlwaysBounded == Spec => []OrphansBounded
<1>1. PoolInv => OrphansBounded
  BY DEF PoolInv
<1> QED
  BY <1>1, PoolSafety, PTL

\* When add() lets go of the lock, no orphan is left that could be connected:
\* whichever call ended it, by success, by an error, by a fault or by a crash.
THEOREM NoOrphanIsStuck == Spec => []NoStuckOrphan
<1>1. PoolInv => NoStuckOrphan
  BY DEF PoolInv, PoolWaits, NoStuckOrphan
<1> QED
  BY <1>1, PoolSafety, PTL

----------------------------------------------------------------------------
\* The marks.

\* What a mark on b may rest on, and what keeps b off the main chain anyway.
Evidence(b) == \E a \in Anc[b] : ~ValidInContext(a) \/ a \in Invalidable
Bad(b) == \E a \in Anc[b] : ~ValidInContext(a)

\* The calls are those that callers make; genesis is never connected.
CallsKnown == queue \in Seq(Calls) /\ (pc = "unwind" => call \in Calls)
NotGenesis == pc \in {"connect", "extend"} => New # Genesis

MarksInv == NotPoisoned /\ CallsKnown /\ NotGenesis

LEMMA EvidenceBelow ==
  ASSUME NEW b \in Block, b # Genesis, Evidence(Parent[b])
  PROVE  Evidence(b)
BY Step DEF Evidence

LEMMA BadItself ==
  ASSUME NEW b \in Block, ~ValidInContext(b)
  PROVE  Bad(b)
BY Ancestors DEF Bad

\* verify() only turns a block down for good when the block is bad.
LEMMA HeaderVerdictFair ==
  ASSUME NEW b \in Block, b # Genesis, NEW intact \in BOOLEAN, NEW late \in BOOLEAN,
         HeaderVerdict(b, intact, late) = "invalid"
  PROVE  ~ValidInContext(b)
BY DEF HeaderVerdict, ValidInContext

\* So does verifyContext, on the coins of the parent's chain.
LEMMA ContextVerdictFair ==
  ASSUME NEW b \in Block, b # Genesis, NEW intact \in BOOLEAN, NEW late \in BOOLEAN,
         coins = Unspent[Parent[b]],
         ContextVerdict(b, intact, late, coins) = "invalid"
  PROVE  ~ValidInContext(b)
<1>1. CASE HeaderVerdict(b, intact, late) # "ok"
  BY <1>1, HeaderVerdictFair DEF ContextVerdict
<1>2. CASE HeaderVerdict(b, intact, late) = "ok"
  <2>1. /\ ~IsHistorical(b)
        /\ ~((Bip34 \/ NoDuplicates(b, coins)) /\ InputsExist(b, coins) /\ b \notin ScriptBad)
    BY <1>2 DEF ContextVerdict
  <2> QED
    BY <2>1 DEF ValidInContext
<1> QED
  BY <1>1, <1>2

\* The marks of _add, on the child of a marked block, and of invalidate().
RefusedMark(b) ==
  /\ Refuse /\ b = Head(queue).block /\ b # Genesis /\ Parent[b] \in invalid
  /\ ~IsOrphan(b) /\ (b \in entries => b \in known')
InvalidateMark(b) == FinishReset /\ call.op = "invalidate" /\ b = call.block

\* Every mark that is new, or given again, rests on a bad block or is one of those.
LEMMA NewMarks ==
  ASSUME Inv, MarksInv, [Next]_vars, NEW b \in invalid',
         b \notin invalid \/ (b \in known /\ b \notin known')
  PROVE  b \in Block /\ (Bad(b) \/ RefusedMark(b) \/ InvalidateMark(b))
<1>1. MemTypeOK /\ New \in Block /\ cand.intact \in BOOLEAN /\ tip \in Block
  BY InvParts, NewInBlock DEF MemTypeOK
<1>2. ASSUME NEW x \in Block, NEW verdict, Rejected(x, verdict),
             verdict = "invalid" => ~ValidInContext(x)
      PROVE  b \in Block /\ Bad(b)
  BY <1>2, BadItself DEF Rejected, Mark
<1>3. ASSUME NEW x, NEW late \in Clock(x)
      PROVE  late \in BOOLEAN
  BY <1>3 DEF Clock
<1>4. CASE Refuse
  <2> DEFINE head == Head(queue).block
  <2>1. queue # <<>>
    BY <1>4 DEF Refuse, Granted
  <2>2. head \in Block
    BY <1>1, <2>1, HeadOfQueue DEF Call
  <2> DEFINE marked == IF ~Duplicate(head) /\ HasInvalid(head) THEN {head} \ invalid ELSE {}
  <2>3. invalid' = invalid \cup marked /\ known' = known \cup (marked \cap entries)
    BY <1>4 DEF Refuse
  <2> HIDE DEF head
  <2>4. b \in marked
    BY <2>3
  <2>5. b = head /\ ~Duplicate(head) /\ HasInvalid(head) /\ b \notin invalid
    BY <2>4
  <2>6. Parent[b] \in invalid /\ b # Genesis /\ ~IsOrphan(b)
    BY <2>5 DEF HasInvalid, Duplicate
  <2>7. b \in entries => b \in known'
    BY <2>3, <2>4
  <2> QED
    BY <1>4, <2>2, <2>5, <2>6, <2>7 DEF RefusedMark, head
<1>5. CASE SaveAlternate
  <2>1. PICK late \in Clock(New) :
          LET verdict == HeaderVerdict(New, cand.intact, late)
          IN  \/ /\ verdict = "ok"
                 /\ SaveAlternateBatch(New)
                 /\ pc' = "orphans"
                 /\ UNCHANGED <<memory, queue, cand, call>>
              \/ /\ verdict # "ok"
                 /\ Rejected(New, verdict)
                 /\ UNCHANGED <<dbVars, tip, broken, queue>>
    BY <1>5 DEF SaveAlternate
  <2>2. Rejected(New, HeaderVerdict(New, cand.intact, late))
    BY <2>1 DEF memory, history
  <2>3. New # Genesis
    BY <1>5 DEF SaveAlternate, MarksInv, NotGenesis
  <2> QED
    BY <1>1, <1>2, <1>3, <2>2, <2>3, HeaderVerdictFair
<1>6. CASE Reconnect
  <2> DEFINE next == NextUp
  <2>1. next \in Block /\ next # Genesis /\ coins = Unspent[Parent[next]]
    <3>1. next \in Block /\ next # Genesis /\ Parent[next] = tip /\ tip = dbTip
      BY <1>6, NextUpStep, Extending DEF Reconnect
    <3> QED
      BY <3>1 DEF Inv, CoinsAtTip
  <2>2. PICK late \in Clock(next) :
          LET verdict == ContextVerdict(next, TRUE, late, coins)
          IN  \/ /\ verdict = "ok"
                 /\ ReconnectBatch(next)
                 /\ tip' = next
                 /\ UNCHANGED <<invalid, orphans, history, queue, control>>
              \/ /\ verdict # "ok"
                 /\ Rejected(next, verdict)
                 /\ UNCHANGED <<dbVars, tip, broken, queue>>
    BY <1>6 DEF Reconnect
  <2> HIDE DEF next
  <2>3. Rejected(next, ContextVerdict(next, TRUE, late, coins))
    BY <2>2 DEF history
  <2> QED
    BY <1>2, <1>3, <2>1, <2>3, ContextVerdictFair
<1>7. CASE Attach
  <2>1. coins = Unspent[Parent[New]] /\ New # Genesis
    BY <1>7, Extending DEF Attach, AtParent, Inv, CoinsAtTip
  <2>2. PICK late \in Clock(New) :
          LET verdict == ContextVerdict(New, cand.intact, late, coins)
          IN  \/ /\ verdict = "ok"
                 /\ SaveBatch(New)
                 /\ tip' = New
                 /\ pc' = "orphans"
                 /\ UNCHANGED <<invalid, orphans, history, queue, cand, call>>
              \/ /\ verdict # "ok"
                 /\ Rejected(New, verdict)
                 /\ UNCHANGED <<dbVars, tip, broken, queue>>
    BY <1>7 DEF Attach
  <2>3. Rejected(New, ContextVerdict(New, cand.intact, late, coins))
    BY <2>2 DEF history
  <2> QED
    BY <1>1, <1>2, <1>3, <2>1, <2>3, ContextVerdictFair
<1>8. CASE FinishReset
  BY <1>1, <1>8 DEF FinishReset, Mark, MemTypeOK, Call, InvalidateMark
<1>9. CASE \/ \E c \in Calls : Request(c)
           \/ StoreOrphan \/ Accept \/ BeginExtend \/ ForkMissing \/ Disconnect
           \/ DataMissing \/ NextOrphan \/ AddDone \/ AddFails
           \/ RefuseReset \/ BeginReset \/ Unwind \/ ResetFails
           \/ (\E x \in invalid : Forget(x)) \/ Crash \/ UNCHANGED vars
  <2>1. invalid' \subseteq invalid /\ (invalid' \cap known \subseteq known')
    BY <1>9 DEF Request, StoreOrphan, Accept, BeginExtend, ForkMissing, Disconnect,
                DataMissing, NextOrphan, AddDone, AddFails, RefuseReset, BeginReset,
                Unwind, ResetFails, Forget, Crash, vars, memory, history
  <2> QED
    BY <2>1
<1> QED
  BY <1>4, <1>5, <1>6, <1>7, <1>8, <1>9 DEF Next, AddStep, ResetStep

\* A call leaves the queue.
LEMMA KnownHead ==
  ASSUME CallsKnown, queue # <<>>
  PROVE  Head(queue) \in Calls /\ Tail(queue) \in Seq(Calls)
BY HeadTailProperties DEF CallsKnown

LEMMA CallsNext ==
  ASSUME MemTypeOK, CallsKnown, NotGenesis, [Next]_vars
  PROVE  CallsKnown' /\ NotGenesis'
<1>1. CASE \E c \in Calls : Request(c)
  <2>1. PICK c \in Calls : Request(c)
    BY <1>1
  <2>2. queue' \in Seq(Calls)
    BY <2>1, AppendProperties DEF Request, CallsKnown
  <2> QED
    BY <2>1, <2>2 DEF Request, CallsKnown, NotGenesis, New, control
<1>2. CASE Refuse \/ StoreOrphan \/ RefuseReset
  <2>1. queue # <<>> /\ pc = "idle" /\ UNCHANGED pc /\ queue' = Tail(queue)
    BY <1>2 DEF Refuse, StoreOrphan, RefuseReset, Granted, control
  <2> QED
    BY <2>1, KnownHead DEF CallsKnown, NotGenesis
<1>3. CASE Accept
  <2>1. queue # <<>> /\ queue' = Tail(queue) /\ pc' = "connect"
        /\ New' = Head(queue).block /\ Head(queue).block # Genesis
    BY <1>3 DEF Accept, Granted, New, CopyIn, Refused, Duplicate
  <2> QED
    BY <2>1, KnownHead DEF CallsKnown, NotGenesis
<1>4. CASE BeginReset
  <2>1. queue # <<>> /\ queue' = Tail(queue) /\ pc' = "unwind" /\ call' = Head(queue)
    BY <1>4 DEF BeginReset, Granted
  <2> QED
    BY <2>1, KnownHead DEF CallsKnown, NotGenesis
<1>5. CASE NextOrphan
  <2>1. PICK i \in 1..Len(orphans) : Parent[orphans[i].block] = New /\ cand' = orphans[i]
    BY <1>5 DEF NextOrphan
  <2>2. New' # Genesis
    BY <2>1, NewInBlock, TreeAssumption DEF New
  <2> QED
    BY <1>5, <2>2 DEF NextOrphan, CallsKnown, NotGenesis
<1>6. CASE BeginExtend
  BY <1>6 DEF BeginExtend, CallsKnown, NotGenesis, New
<1>7. CASE Disconnect \/ Unwind \/ (\E b \in invalid : Forget(b)) \/ UNCHANGED vars
  <2>1. UNCHANGED <<queue, control>>
    BY <1>7 DEF Disconnect, Unwind, Forget, vars
  <2> QED
    BY <2>1 DEF CallsKnown, NotGenesis, New, control
<1>8. CASE SaveAlternate \/ Attach
  <2>1. UNCHANGED queue /\ pc' \in {"idle", "orphans"}
    BY <1>8 DEF SaveAlternate, Attach, Rejected, Release
  <2> QED
    BY <2>1 DEF CallsKnown, NotGenesis
<1>9. CASE Reconnect
  <2>1. UNCHANGED queue /\ (pc' = "idle" \/ UNCHANGED control) /\ pc = "extend"
    BY <1>9 DEF Reconnect, Rejected, Release
  <2> QED
    BY <2>1 DEF CallsKnown, NotGenesis, New, control
<1>10. CASE \/ ForkMissing \/ DataMissing \/ AddDone \/ AddFails
            \/ FinishReset \/ ResetFails \/ Crash
  <2>1. (UNCHANGED queue \/ queue' = <<>>) /\ pc' = "idle"
    BY <1>10 DEF ForkMissing, DataMissing, AddDone, AddFails, FinishReset, ResetFails,
                 Crash, Release
  <2> QED
    BY <2>1, EmptySeq DEF CallsKnown, NotGenesis
<1> QED
  BY <1>1, <1>2, <1>3, <1>4, <1>5, <1>6, <1>7, <1>8, <1>9, <1>10
     DEF Next, AddStep, ResetStep

LEMMA MarksNext ==
  ASSUME Inv, MarksInv, [Next]_vars
  PROVE  MarksInv'
<1>1. CallsKnown' /\ NotGenesis'
  BY CallsNext, InvParts DEF MarksInv
<1>2. NotPoisoned'
  <2> SUFFICES ASSUME NEW b \in invalid'
               PROVE  Evidence(b)
    BY DEF NotPoisoned, Evidence
  <2>1. CASE b \in invalid
    BY <2>1 DEF MarksInv, NotPoisoned, Evidence
  <2>2. CASE Bad(b)
    BY <2>2 DEF Bad, Evidence
  <2>3. CASE b \in Block /\ RefusedMark(b)
    BY <2>3, EvidenceBelow DEF RefusedMark, MarksInv, NotPoisoned, Evidence
  <2>4. CASE b \in Block /\ InvalidateMark(b)
    <3>1. call \in Calls
      BY <2>4 DEF InvalidateMark, FinishReset, MarksInv, CallsKnown
    <3> QED
      BY <2>4, <3>1, Ancestors DEF Calls, Evidence, InvalidateMark
  <2> QED
    BY <2>1, <2>2, <2>3, <2>4, NewMarks
<1> QED
  BY <1>1, <1>2 DEF MarksInv

LEMMA MarksSafety == Spec => [](broken \/ MarksInv)
<1>1. Init => MarksInv
  BY EmptySeq DEF Init, MarksInv, NotPoisoned, CallsKnown, NotGenesis
<1>2. (broken \/ Inv) /\ (broken \/ MarksInv) /\ [Next]_vars => (broken \/ MarksInv)'
  <2>1. ASSUME broken, [Next]_vars
        PROVE  broken'
    BY <2>1, Breaks
  <2>2. ASSUME Inv, MarksInv, [Next]_vars
        PROVE  MarksInv'
    BY <2>2, MarksNext
  <2> QED
    BY <2>1, <2>2
<1> QED
  BY <1>1, <1>2, Unbroken, PTL DEF Spec

\* A block is only marked invalid on evidence: it or an ancestor breaks a rule
\* or was invalidated.  No mutated copy, slow clock, I/O error, missing block or
\* order of calls poisons a good one.
THEOREM MarksAreEvidence ==
  ASSUME ~ResetFaults
  PROVE  Spec => []NotPoisoned
<1>1. MarksInv => NotPoisoned
  BY DEF MarksInv
<1> QED
  BY <1>1, MarksSafety, NeverBroken, PTL

----------------------------------------------------------------------------
\* Invalidated blocks.

\* A reset that invalidate() began ends below the block it was called for, and
\* takes that block's entry.
Invalidating ==
  pc = "unwind" /\ call.op = "invalidate" /\ call.block # Genesis =>
    /\ New = Parent[call.block]
    /\ call.block \in Anc[dbTip] \/ call.block \notin entries

\* Where a marked block is not: no call that is under way brings it in.
Out(b) ==
  /\ b \notin entries
  /\ b \notin OrphanBlocks
  /\ pc \in {"connect", "extend"} => New # b

\* Blocks that break no rule, and had no entry when _add marked them.
InvalidatedOut == \A b \in invalid \ known : b # Genesis /\ ~Bad(b) => Out(b)

LEMMA InvalidatingNext ==
  ASSUME Inv, [Next]_vars
  PROVE  Invalidating => Invalidating'
<1> SUFFICES ASSUME Invalidating, pc' = "unwind", call'.op = "invalidate", call'.block # Genesis
             PROVE  /\ New' = Parent[call'.block]
                    /\ call'.block \in Anc[dbTip'] \/ call'.block \notin entries'
  BY DEF Invalidating
<1>1. Committed /\ MemTypeOK /\ DbTypeOK /\ UnwindReady
  BY InvParts DEF Committed
<1>2. CASE BeginReset
  <2>1. call' = Head(queue) /\ cand' = [block |-> ResetTarget(Head(queue)), intact |-> TRUE]
        /\ UNCHANGED dbTip /\ ResetAllowed(Head(queue))
    BY <1>2 DEF BeginReset, RemoveChainsBatch
  <2>2. New' = Parent[call'.block]
    BY <2>1 DEF New, ResetTarget
  <2>3. call'.block \in Block /\ IsMainChain(call'.block)
    BY <1>1, <2>1 DEF ResetAllowed, DbTypeOK
  <2> QED
    BY <1>1, <2>1, <2>2, <2>3, MainChain
<1>3. CASE Unwind
  <2>1. /\ Disconnected(dbTip) /\ entries' = entries \ {dbTip} /\ UNCHANGED control
        /\ dbTip # Genesis /\ dbTip \in Block /\ dbTip' = Parent[dbTip] /\ pc = "unwind"
    BY <1>1, <1>3 DEF Unwind, UnwindBatch, Disconnected, DbTypeOK
  <2>2. UNCHANGED <<call, cand>>
    BY <2>1 DEF control
  <2>3. Anc[dbTip] = Anc[dbTip'] \cup {dbTip}
    BY <2>1, Step
  <2> QED
    BY <2>1, <2>2, <2>3 DEF Invalidating, New
<1>4. CASE UNCHANGED <<control, dbTip, entries>>
  BY <1>4 DEF Invalidating, New, control
<1>5. CASE ~(BeginReset \/ Unwind)
  <2>1. pc' # "unwind" \/ UNCHANGED <<control, dbTip, entries>>
    BY <1>5 DEF Next, AddStep, ResetStep, Request, Refuse, StoreOrphan, Accept, SaveAlternate,
           BeginExtend, ForkMissing, Disconnect, Reconnect, DataMissing, Attach, NextOrphan,
           AddDone, AddFails, RefuseReset, FinishReset, ResetFails, Forget, Crash,
           Rejected, Release, vars, control, dbVars, index
  <2> QED
    BY <1>4, <2>1
<1> QED
  BY <1>2, <1>3, <1>5

\* While a block is marked, no step brings it back.
LEMMA StaysOut ==
  ASSUME Inv, PoolInv, [Next]_vars, NEW b \in invalid, Out(b)
  PROVE  Out(b)'
<1>1. CASE StoreOrphan
  <2>1. UNCHANGED entries /\ pc' = "idle"
    BY <1>1 DEF StoreOrphan, Granted, dbVars, index, control
  <2>2. OrphanBlocks' \subseteq OrphanBlocks \cup {Head(queue).block}
    BY <1>1, InvParts, StoreOrphanPool
  <2>3. Head(queue).block # b
    BY <1>1 DEF StoreOrphan, Refused, HasInvalid
  <2> QED
    BY <2>1, <2>2, <2>3 DEF Out
<1>2. CASE Accept
  <2>1. UNCHANGED entries /\ UNCHANGED orphans /\ New' = Head(queue).block
    BY <1>2 DEF Accept, memory, dbVars, index, New, CopyIn
  <2>2. Head(queue).block # b
    BY <1>2 DEF Accept, Refused, HasInvalid
  <2> QED
    BY <2>1, <2>2 DEF Out, OrphanBlocks
<1>3. CASE NextOrphan
  <2>1. UNCHANGED entries
    BY <1>3 DEF NextOrphan, dbVars, index
  <2>2. OrphanBlocks' \subseteq OrphanBlocks /\ New' \in OrphanBlocks
    BY <1>3, InvParts, NextOrphanPool
  <2> QED
    BY <2>1, <2>2 DEF Out
<1>4. CASE SaveAlternate \/ Attach
  <2>1. /\ entries' \subseteq entries \cup {New} /\ New # b
        /\ orphans' = <<>> \/ UNCHANGED orphans
        /\ pc' \in {"idle", "orphans"}
    BY <1>4 DEF SaveAlternate, Attach, SaveAlternateBatch, SaveBatch, Rejected, Release,
                memory, dbVars, index, Out
  <2>2. OrphanBlocks' \subseteq OrphanBlocks
    BY <2>1, EmptySeq DEF OrphanBlocks, ToSet
  <2> QED
    BY <2>1, <2>2 DEF Out
<1>5. CASE Reconnect
  <2>1. /\ UNCHANGED entries
        /\ orphans' = <<>> \/ UNCHANGED orphans
        /\ pc' = "idle" \/ UNCHANGED control
    BY <1>5 DEF Reconnect, ReconnectBatch, Rejected, Release, dbVars, index
  <2>2. OrphanBlocks' \subseteq OrphanBlocks
    BY <2>1, EmptySeq DEF OrphanBlocks, ToSet
  <2> QED
    BY <2>1, <2>2 DEF Out, New, control
<1>6. CASE \/ \E c \in Calls : Request(c)
           \/ Refuse \/ RefuseReset \/ BeginExtend \/ Disconnect
           \/ (\E x \in invalid : Forget(x)) \/ UNCHANGED vars
  <2>1. UNCHANGED <<entries, orphans, cand>> /\ (UNCHANGED pc \/ pc = "connect")
    BY <1>6 DEF Request, Refuse, RefuseReset, BeginExtend, Disconnect, DisconnectBatch, Forget,
                vars, memory, control, dbVars, index
  <2> QED
    BY <2>1 DEF Out, OrphanBlocks, New
<1>7. CASE \/ ForkMissing \/ DataMissing \/ AddDone \/ AddFails
           \/ FinishReset \/ ResetFails \/ Crash \/ BeginReset \/ Unwind
  <2>1. /\ entries' \subseteq entries
        /\ orphans' = <<>> \/ UNCHANGED orphans
        /\ pc' \in {"idle", "unwind"}
    BY <1>7 DEF ForkMissing, DataMissing, AddDone, AddFails, FinishReset, ResetFails, Crash,
                BeginReset, RemoveChainsBatch, Unwind, UnwindBatch, Release,
                memory, control, dbVars, index
  <2>2. OrphanBlocks' \subseteq OrphanBlocks
    BY <2>1, EmptySeq DEF OrphanBlocks, ToSet
  <2> QED
    BY <2>1, <2>2 DEF Out
<1> QED
  BY <1>1, <1>2, <1>3, <1>4, <1>5, <1>6, <1>7 DEF Next, AddStep, ResetStep

LEMMA InvalidatedNext ==
  ASSUME Inv, PoolInv, MarksInv, Invalidating, InvalidatedOut, [Next]_vars
  PROVE  InvalidatedOut'
<1> SUFFICES ASSUME NEW b \in invalid', b \notin known', b # Genesis, ~Bad(b)
             PROVE  Out(b)'
  BY DEF InvalidatedOut, Bad
<1>1. CASE b \in invalid /\ b \notin known
  BY <1>1, StaysOut DEF InvalidatedOut
<1>2. CASE b \in Block /\ RefusedMark(b)
  <2>1. b \notin entries /\ b \notin OrphanBlocks
    BY <1>2 DEF RefusedMark, IsOrphan
  <2>2. pc = "idle" /\ UNCHANGED <<entries, orphans, pc>>
    BY <1>2 DEF RefusedMark, Refuse, Granted, dbVars, index, control
  <2> QED
    BY <2>1, <2>2 DEF Out, OrphanBlocks
<1>3. CASE b \in Block /\ InvalidateMark(b)
  <2>1. pc = "unwind" /\ dbTip = New /\ UNCHANGED entries /\ orphans' = <<>> /\ pc' = "idle"
    BY <1>3 DEF InvalidateMark, FinishReset, Release, dbVars, index
  <2>2. b \notin entries
    BY <1>3, <2>1, Step DEF Invalidating, InvalidateMark
  <2>3. OrphanBlocks' = {}
    BY <2>1, EmptySeq DEF OrphanBlocks, ToSet
  <2> QED
    BY <2>1, <2>2, <2>3 DEF Out
<1> QED
  BY <1>1, <1>2, <1>3, NewMarks

LEMMA InvalidatedSafety == Spec => [](broken \/ (Invalidating /\ InvalidatedOut))
<1>1. Init => Invalidating /\ InvalidatedOut
  BY DEF Init, Invalidating, InvalidatedOut
<1>2. /\ broken \/ Inv
      /\ PoolInv
      /\ broken \/ MarksInv
      /\ broken \/ (Invalidating /\ InvalidatedOut)
      /\ [Next]_vars
      => (broken \/ (Invalidating /\ InvalidatedOut))'
  <2>1. ASSUME broken, [Next]_vars
        PROVE  broken'
    BY <2>1, Breaks
  <2>2. ASSUME Inv, PoolInv, MarksInv, Invalidating, InvalidatedOut, [Next]_vars
        PROVE  (Invalidating /\ InvalidatedOut)'
    BY <2>2, InvalidatingNext, InvalidatedNext
  <2> QED
    BY <2>1, <2>2
<1> QED
  BY <1>1, <1>2, Unbroken, PoolSafety, MarksSafety, PTL DEF Spec

\* A marked block is off the main chain until it is forgotten: no add() call,
\* orphan, reorganization or reset brings it there, unless it had an entry
\* already when _add marked it, or an error cut a reset short.
THEOREM MarkedOffMain == Spec => []InvalidNotMain
<1>1. (broken \/ Inv) /\ (broken \/ (Invalidating /\ InvalidatedOut)) => InvalidNotMain
  <2> SUFFICES ASSUME ~broken, Inv, InvalidatedOut,
                      NEW b \in invalid, b \in Anc[dbTip], b # Genesis, b \notin known
               PROVE  FALSE
    BY DEF InvalidNotMain
  <2>1. dbTip \in Block /\ FullyValid(dbTip) /\ EntriesOfMain
    BY InvParts DEF Committed, DbTypeOK, OnlyValidConnected
  <2>2. b \in Block /\ Anc[b] \subseteq Anc[dbTip]
    BY <2>1, Ancestors, AncestryFacts
  <2>3. ~Bad(b)
    BY <2>1, <2>2 DEF Bad, FullyValid
  <2>4. b \notin entries
    BY <2>3 DEF InvalidatedOut, Out
  <2> QED
    BY <2>1, <2>4 DEF EntriesOfMain
<1> QED
  BY <1>1, Unbroken, InvalidatedSafety, PTL

----------------------------------------------------------------------------
\* The pruning window.

\* A block may be missing from the store when S has entries.
Old(a, S) ==
  /\ Height[a] > PruneAfter
  /\ \E e \in S : Height[e] + 1 >= Height[a] + KeepBlocks

\* Without pruning the main chain is complete.
LEMMA NothingMissing == Inv => (~Prune => PruneWindow)
BY InvParts DEF Committed, UndoKept, CanDisconnect, PruneWindow

\* What connecting a child of the tip prunes is as old as the window allows,
\* seen from the child and, one block earlier, from the tip.
LEMMA PrunedIsOld ==
  ASSUME DbTypeOK, MainIndexed, NEW b \in Block, b # Genesis, Parent[b] = dbTip,
         NEW a \in PrunedBy(b)
  PROVE  Old(a, {b}) /\ Old(a, {dbTip})
<1>1. Height[b] = Height[dbTip] + 1 /\ Height[b] \in Nat /\ Height[dbTip] \in Nat
  BY Step
<1>2. /\ Height[b] - KeepBlocks > PruneAfter
      /\ Height[b] - KeepBlocks \in Heights
      /\ a = mainAt[Height[b] - KeepBlocks] /\ a # NoBlock
  BY DEF PrunedBy
<1>3. a \in Block
  BY <1>2 DEF DbTypeOK
<1>4. Height[a] = Height[b] - KeepBlocks
  BY <1>2, <1>3 DEF MainIndexed
<1>5. Height[a] \in Nat /\ KeepBlocks \in Nat /\ PruneAfter \in Nat
  BY <1>3, TreeAssumption, PruneAssumption
<1> QED
  BY <1>1, <1>2, <1>4, <1>5 DEF Old

\* What the steps do to the store: it keeps what it has but for what connecting
\* one child of the tip prunes.
Shrinks ==
  \E b \in Block \ {Genesis} : Parent[b] = dbTip /\ blocks \ PrunedBy(b) \subseteq blocks'

LEMMA WindowKept ==
  ASSUME Inv, PruneWindow, Anc[dbTip'] \subseteq Anc[dbTip], entries \subseteq entries',
         blocks \subseteq blocks' \/ Shrinks
  PROVE  PruneWindow'
<1>1. DbTypeOK /\ MainIndexed /\ dbTip \in entries
  BY InvParts, Ancestors DEF Committed, DbTypeOK, EntriesOfMain
<1> SUFFICES ASSUME NEW a \in Anc[dbTip'], a \notin blocks'
             PROVE  Old(a, entries')
  BY DEF PruneWindow, Old
<1>2. CASE a \notin blocks
  <2>1. Old(a, entries)
    BY <1>2 DEF PruneWindow, Old
  <2> QED
    BY <2>1 DEF Old
<1>3. CASE a \in blocks
  <2>1. PICK b \in Block \ {Genesis} : Parent[b] = dbTip /\ a \in PrunedBy(b)
    BY <1>3 DEF Shrinks
  <2>2. Old(a, {dbTip})
    BY <1>1, <2>1, PrunedIsOld
  <2> QED
    BY <1>1, <2>2 DEF Old
<1> QED
  BY <1>2, <1>3

\* A child of the tip is connected, and has its entry.
LEMMA WindowMoves ==
  ASSUME Inv, PruneWindow, NEW b \in Block, b # Genesis, Parent[b] = dbTip, Connected(b),
         entries \subseteq entries', b \in entries'
  PROVE  PruneWindow'
<1>1. DbTypeOK /\ MainIndexed
  BY InvParts DEF Committed
<1>2. dbTip' = b /\ blocks' = (blocks \cup {b}) \ PrunedBy(b) /\ Anc[b] = Anc[dbTip] \cup {b}
  BY Step DEF Connected, BlocksWith
<1> SUFFICES ASSUME NEW a \in Anc[dbTip'], a \notin blocks'
             PROVE  Old(a, entries')
  BY DEF PruneWindow, Old
<1>3. CASE a \in PrunedBy(b)
  <2>1. Old(a, {b})
    BY <1>1, <1>3, PrunedIsOld
  <2> QED
    BY <2>1 DEF Old
<1>4. CASE a \notin PrunedBy(b)
  <2>1. a \in Anc[dbTip] /\ a \notin blocks
    BY <1>2, <1>4
  <2>2. Old(a, entries)
    BY <2>1 DEF PruneWindow, Old
  <2> QED
    BY <2>2 DEF Old
<1> QED
  BY <1>3, <1>4

\* However far the writes of a call got.
LEMMA StoreLeftShrinks ==
  ASSUME Inv, NEW left \in StoreLeft, blocks' = left[1]
  PROVE  blocks \subseteq blocks' \/ Shrinks
<1>1. ASSUME NEW b \in Block, b # Genesis, Parent[b] = dbTip, left \in PartialStores(b)
      PROVE  blocks \subseteq blocks' \/ Shrinks
  BY <1>1 DEF PartialStores, BlocksWith, Shrinks
<1>2. CASE left = <<blocks, undo>> \/ left = <<blocks \cup {New}, undo>>
  BY <1>2
<1>3. CASE pc = "extend" /\ OnBranch /\ left \in PartialStores(NextUp)
  <2>1. NextUp \in Block /\ NextUp # Genesis /\ Parent[NextUp] = dbTip
    BY <1>3, NextUpStep, Extending
  <2> QED
    BY <1>1, <1>3, <2>1
<1>4. CASE pc = "extend" /\ AtParent /\ left \in PartialStores(New)
  <2>1. New \in Block /\ New # Genesis /\ Parent[New] = dbTip
    BY <1>4, Extending DEF AtParent
  <2> QED
    BY <1>1, <1>4, <2>1
<1> QED
  BY <1>2, <1>3, <1>4 DEF StoreLeft

LEMMA WindowNext ==
  ASSUME Inv, PruneWindow, [Next]_vars, Inv'
  PROVE  PruneWindow'
<1>1. CASE ~Prune
  <2>1. Inv' => (~Prune => PruneWindow)'
    BY NothingMissing, PTL
  <2> QED
    BY <1>1, <2>1
<1>2. CASE BeginReset \/ Unwind
  BY <1>1, <1>2 DEF BeginReset, ResetAllowed, Unwind, Inv, UnwindReady
<1>3. CASE Reconnect
  <2>1. NextUp \in Block /\ NextUp # Genesis /\ Parent[NextUp] = dbTip /\ NextUp \in entries
    BY <1>3, NextUpStep, Extending DEF Reconnect
  <2>2. (ReconnectBatch(NextUp)) \/ UNCHANGED dbVars
    BY <1>3 DEF Reconnect
  <2>3. CASE ReconnectBatch(NextUp)
    BY <2>1, <2>3, WindowMoves DEF ReconnectBatch
  <2>4. CASE UNCHANGED dbVars
    BY <2>4, WindowKept DEF dbVars, index, store
  <2> QED
    BY <2>2, <2>3, <2>4
<1>4. CASE Attach
  <2>1. New \in Block /\ New # Genesis /\ Parent[New] = dbTip
    BY <1>4, Extending DEF Attach, AtParent
  <2>2. SaveBatch(New) \/ UNCHANGED dbVars
    BY <1>4 DEF Attach
  <2>3. CASE SaveBatch(New)
    BY <2>1, <2>3, WindowMoves DEF SaveBatch
  <2>4. CASE UNCHANGED dbVars
    BY <2>4, WindowKept DEF dbVars, index, store
  <2> QED
    BY <2>2, <2>3, <2>4
<1>5. CASE AddFails \/ Crash
  <2>1. UNCHANGED index
    BY <1>5 DEF AddFails, Crash
  <2>2. PICK left \in StoreLeft : blocks' = left[1]
    BY <1>5 DEF AddFails, Crash
  <2>3. blocks \subseteq blocks' \/ Shrinks
    BY <2>2, StoreLeftShrinks
  <2> QED
    BY <2>1, <2>3, WindowKept DEF index
<1>6. CASE Disconnect
  <2>1. dbTip # Genesis /\ dbTip \in Block /\ tip = dbTip
    BY <1>6, Extending, Ancestors DEF Disconnect, OffBranch
  <2>2. dbTip' = Parent[dbTip] /\ UNCHANGED entries /\ UNCHANGED blocks
    BY <1>6, <2>1 DEF Disconnect, DisconnectBatch, Disconnected, store
  <2>3. Anc[dbTip'] \subseteq Anc[dbTip]
    BY <2>1, <2>2, Step
  <2> QED
    BY <2>2, <2>3, WindowKept
<1>7. CASE SaveAlternate
  <2>1. SaveAlternateBatch(New) \/ UNCHANGED dbVars
    BY <1>7 DEF SaveAlternate
  <2>2. UNCHANGED dbTip /\ entries \subseteq entries' /\ blocks \subseteq blocks'
    BY <2>1 DEF SaveAlternateBatch, dbVars, index, store
  <2> QED
    BY <2>2, WindowKept
<1>8. CASE \/ \E c \in Calls : Request(c)
           \/ Refuse \/ StoreOrphan \/ Accept \/ BeginExtend \/ ForkMissing
           \/ DataMissing \/ NextOrphan \/ AddDone
           \/ RefuseReset \/ FinishReset \/ ResetFails
           \/ \E b \in invalid : Forget(b)
           \/ UNCHANGED vars
  <2>1. UNCHANGED dbVars
    BY <1>8 DEF Request, Refuse, StoreOrphan, Accept, BeginExtend, ForkMissing, DataMissing,
           NextOrphan, AddDone, RefuseReset, FinishReset, ResetFails, Forget, vars
  <2> QED
    BY <2>1, WindowKept DEF dbVars, index, store
<1> QED
  BY <1>1, <1>2, <1>3, <1>4, <1>5, <1>6, <1>7, <1>8 DEF Next, AddStep, ResetStep

\* Pruning never takes a block of the window: what the main chain lacks is
\* above pruneAfterHeight and keepBlocks below the highest entry, or one less
\* after a call that stopped between pruning and its batch.
THEOREM WindowAlwaysKept ==
  ASSUME ~ResetFaults
  PROVE  Spec => []PruneWindow
<1>1. Init => PruneWindow
  BY TreeAssumption DEF Init, DbInit, PruneWindow
<1>2. Inv /\ [Next]_vars => Inv'
  BY NextInv, ResetNeverFails
<1>3. Inv /\ Inv' /\ PruneWindow /\ [Next]_vars => PruneWindow'
  BY WindowNext
<1> QED
  BY <1>1, <1>2, <1>3, Safety, PTL DEF Spec

----------------------------------------------------------------------------
\* The best tip.

\* Every block is valid and comes as it was mined, nothing is pruned, nothing
\* fails, and nobody resets the chain: the world of the run chain_best.
AllGood ==
  /\ \A b \in Block : ValidInContext(b)
  /\ Mutable = {} /\ TooNew = {}
  /\ Resettable = {} /\ Invalidable = {}
  /\ ~Prune /\ ~Faults /\ ~ResetFaults /\ ~Crashes

\* The copies under way are whole, and so is what hangs together on disk.
CopiesIntact ==
  /\ \A o \in ToSet(orphans) : o.intact
  /\ pc \in {"connect", "extend"} => cand.intact

EntriesClosed ==
  /\ \A e \in entries : Anc[e] \subseteq entries
  /\ pc = "connect" => Parent[New] \in entries
  /\ pc = "orphans" => New \in entries

\* Nothing on disk has more work than the tip, or than the block that a
\* reorganization works towards.
Goal == IF pc = "extend" THEN New ELSE tip
NoneBetter == \A e \in entries : ChainWork[e] <= ChainWork[Goal]

BestInv == pc # "unwind" /\ CopiesIntact /\ EntriesClosed /\ NoneBetter

LEMMA AllPass ==
  ASSUME AllGood, NEW b \in Block, b # Genesis, NEW late \in Clock(b)
  PROVE  /\ HeaderVerdict(b, TRUE, late) = "ok"
         /\ coins = Unspent[Parent[b]] => ContextVerdict(b, TRUE, late, coins) = "ok"
<1>1. late = FALSE /\ ValidInContext(b)
  BY DEF AllGood, Clock
<1>2. /\ CheckpointHolds(b) /\ b \notin HeaderBad /\ b \notin ContextBad
      /\ InputsExist(b, Unspent[Parent[b]])
      /\ ~IsHistorical(b) => /\ Bip34 \/ NoDuplicates(b, Unspent[Parent[b]])
                             /\ b \notin ScriptBad
  BY <1>1 DEF ValidInContext
<1>3. HeaderVerdict(b, TRUE, FALSE) = "ok"
  BY <1>2 DEF HeaderVerdict
<1>4. coins = Unspent[Parent[b]] => ContextVerdict(b, TRUE, FALSE, coins) = "ok"
  BY <1>2, <1>3 DEF ContextVerdict
<1> QED
  BY <1>1, <1>3, <1>4

\* Only add() is called, with whole copies.
LEMMA OnlyAdds ==
  ASSUME AllGood, CallsKnown, queue # <<>>
  PROVE  Head(queue).op = "add" /\ Head(queue).intact
<1>1. Head(queue) \in Calls
  BY KnownHead
<1> QED
  BY <1>1 DEF Calls, Call, AllGood

\* No call ends without its block.
LEMMA NothingFails ==
  ASSUME AllGood, Inv, DataBeforeIndex, CallsKnown, BestInv
  PROVE  ~(ForkMissing \/ DataMissing \/ AddFails \/ Crash \/ ResetStep)
<1>1. ~AddFails /\ ~Crash
  BY DEF AllGood, AddFails, Crash
<1>2. ~ForkMissing
  <2> SUFFICES ASSUME ForkMissing
               PROVE  FALSE
    OBVIOUS
  <2>1. New \in Block /\ tip \in Block /\ tip = dbTip /\ pc = "connect" /\ New # Genesis
        /\ EntriesOfMain /\ Parent[New] \in entries
    <3>1. New # Genesis
      BY InvParts, NewInBlock, TreeAssumption
         DEF ForkMissing, BestInv, EntriesClosed, Committed, DbTypeOK
    <3> QED
      BY <3>1, InvParts, NewInBlock
         DEF ForkMissing, TipAgrees, MemTypeOK, BestInv, EntriesClosed
  <2>2. Anc[tip] \subseteq entries /\ Anc[New] \ {New} \subseteq entries
    BY <2>1, Step DEF BestInv, EntriesClosed, EntriesOfMain
  <2>3. ReorgWalk \subseteq entries
    BY <2>2 DEF ReorgWalk
  <2> QED
    BY <2>3 DEF ForkMissing
<1>3. ~DataMissing
  <2> SUFFICES ASSUME DataMissing
               PROVE  FALSE
    OBVIOUS
  <2>1. Committed /\ tip = dbTip /\ tip \in Block
    BY Extending DEF DataMissing
  <2>2. CanDisconnect(tip)
    BY <2>1, Ancestors DEF Committed, UndoKept, AllGood
  <2>3. OnBranch => NextUp \in blocks
    BY NextUpStep DEF DataMissing, DataBeforeIndex, AllGood
  <2> QED
    BY <2>2, <2>3 DEF DataMissing
<1>4. ~ResetStep
  BY OnlyAdds DEF ResetStep, RefuseReset, BeginReset, Unwind, FinishReset, ResetFails, Granted,
                  BestInv
<1> QED
  BY <1>1, <1>2, <1>3, <1>4

\* An alternate block, and a block that extends the tip.
LEMMA SavedBest ==
  ASSUME AllGood, Inv, BestInv, NotGenesis, SaveAlternate \/ Attach
  PROVE  BestInv'
<1>1. New \in Block /\ New # Genesis /\ cand.intact = TRUE
  BY InvParts, NewInBlock
     DEF SaveAlternate, Attach, BestInv, CopiesIntact, NotGenesis
<1>2. entries \subseteq Block /\ tip \in Block
  BY InvParts DEF Committed, DbTypeOK, MemTypeOK
<1>3. CASE SaveAlternate
  <2>1. PICK late \in Clock(New) :
          LET verdict == HeaderVerdict(New, cand.intact, late)
          IN  \/ /\ verdict = "ok"
                 /\ SaveAlternateBatch(New)
                 /\ pc' = "orphans"
                 /\ UNCHANGED <<memory, queue, cand, call>>
              \/ /\ verdict # "ok"
                 /\ Rejected(New, verdict)
                 /\ UNCHANGED <<dbVars, tip, broken, queue>>
    BY <1>3 DEF SaveAlternate
  <2>2. HeaderVerdict(New, cand.intact, late) = "ok"
    BY <1>1, AllPass
  <2>3. entries' = entries \cup {New} /\ pc' = "orphans" /\ UNCHANGED <<tip, orphans, cand>>
    BY <2>1, <2>2 DEF SaveAlternateBatch, memory
  <2>4. CopiesIntact'
    BY <2>3 DEF BestInv, CopiesIntact
  <2>5. EntriesClosed'
    <3>1. Parent[New] \in entries
      BY <1>3 DEF SaveAlternate, BestInv, EntriesClosed
    <3>2. Anc[New] \subseteq entries'
      BY <1>1, <2>3, <3>1, Step DEF BestInv, EntriesClosed
    <3> QED
      BY <2>3, <3>2 DEF BestInv, EntriesClosed, New
  <2>6. NoneBetter'
    <3>1. ChainWork[New] \in Nat /\ ChainWork[tip] \in Nat /\ ~(ChainWork[New] > ChainWork[tip])
      BY <1>1, <1>2, <1>3, TreeAssumption DEF SaveAlternate, HasMoreWork
    <3>2. \A e \in entries : ChainWork[e] <= ChainWork[tip]
      BY <1>3 DEF SaveAlternate, BestInv, NoneBetter, Goal
    <3> QED
      BY <2>3, <3>1, <3>2 DEF NoneBetter, Goal
  <2> QED
    BY <2>3, <2>4, <2>5, <2>6 DEF BestInv
<1>4. CASE Attach
  <2>1. PICK late \in Clock(New) :
          LET verdict == ContextVerdict(New, cand.intact, late, coins)
          IN  \/ /\ verdict = "ok"
                 /\ SaveBatch(New)
                 /\ tip' = New
                 /\ pc' = "orphans"
                 /\ UNCHANGED <<invalid, orphans, history, queue, cand, call>>
              \/ /\ verdict # "ok"
                 /\ Rejected(New, verdict)
                 /\ UNCHANGED <<dbVars, tip, broken, queue>>
    BY <1>4 DEF Attach
  <2>2. coins = Unspent[Parent[New]] /\ Anc[Parent[New]] \subseteq entries
    BY <1>4, Extending DEF Attach, AtParent, Inv, CoinsAtTip
  <2>3. ContextVerdict(New, cand.intact, late, coins) = "ok"
    BY <1>1, <2>2, AllPass
  <2>4. entries' = entries \cup {New} /\ pc' = "orphans" /\ tip' = New /\ UNCHANGED <<orphans, cand>>
    BY <2>1, <2>3 DEF SaveBatch
  <2>5. CopiesIntact'
    BY <2>4 DEF BestInv, CopiesIntact
  <2>6. EntriesClosed'
    <3>1. Anc[New] \subseteq entries'
      BY <1>1, <2>2, <2>4, Step
    <3> QED
      BY <2>4, <3>1 DEF BestInv, EntriesClosed, New
  <2>7. NoneBetter'
    <3>1. ChainWork[New] \in Nat
      BY <1>1, TreeAssumption
    <3>2. \A e \in entries : ChainWork[e] <= ChainWork[New]
      BY <1>4 DEF Attach, BestInv, NoneBetter, Goal
    <3> QED
      BY <2>4, <3>1, <3>2 DEF NoneBetter, Goal
  <2> QED
    BY <2>4, <2>5, <2>6, <2>7 DEF BestInv
<1> QED
  BY <1>3, <1>4

\* The steps of a reorganization move the tip, not the goal.
LEMMA ReorganizedBest ==
  ASSUME AllGood, Inv, BestInv, BeginExtend \/ Disconnect \/ Reconnect
  PROVE  BestInv'
<1>1. entries \subseteq Block /\ tip \in Block /\ New \in Block
  BY InvParts, NewInBlock DEF Committed, DbTypeOK, MemTypeOK
<1>2. CASE BeginExtend
  <2>1. UNCHANGED <<entries, tip, orphans, cand>> /\ pc = "connect" /\ pc' = "extend"
    BY <1>2 DEF BeginExtend, memory, dbVars, index
  <2>2. NoneBetter'
    <3>1. \A e \in entries : ChainWork[e] <= ChainWork[tip] /\ ChainWork[e] \in Nat
      BY <1>1, <2>1, TreeAssumption DEF BestInv, NoneBetter, Goal
    <3>2. ChainWork[New] > ChainWork[tip] /\ ChainWork[New] \in Nat /\ ChainWork[tip] \in Nat
      BY <1>1, <1>2, TreeAssumption DEF BeginExtend, HasMoreWork
    <3>3. \A e \in entries : ChainWork[e] <= ChainWork[New]
      BY <3>1, <3>2
    <3> QED
      BY <2>1, <3>3 DEF NoneBetter, Goal, New
  <2> QED
    BY <2>1, <2>2 DEF BestInv, CopiesIntact, EntriesClosed
<1>3. CASE Disconnect \/ Reconnect
  <2>1. UNCHANGED <<entries, orphans, control>> /\ pc = "extend"
    <3>1. CASE Disconnect
      BY <3>1 DEF Disconnect, DisconnectBatch
    <3>2. CASE Reconnect
      <4> DEFINE next == NextUp
      <4>1. next \in Block /\ next # Genesis /\ coins = Unspent[Parent[next]]
        <5>1. next \in Block /\ next # Genesis /\ Parent[next] = tip /\ tip = dbTip
          BY <3>2, NextUpStep, Extending DEF Reconnect
        <5> QED
          BY <5>1 DEF Inv, CoinsAtTip
      <4>2. PICK late \in Clock(next) :
              LET verdict == ContextVerdict(next, TRUE, late, coins)
              IN  \/ /\ verdict = "ok"
                     /\ ReconnectBatch(next)
                     /\ tip' = next
                     /\ UNCHANGED <<invalid, orphans, history, queue, control>>
                  \/ /\ verdict # "ok"
                     /\ Rejected(next, verdict)
                     /\ UNCHANGED <<dbVars, tip, broken, queue>>
        BY <3>2 DEF Reconnect
      <4> HIDE DEF next
      <4>3. ContextVerdict(next, TRUE, late, coins) = "ok"
        BY <4>1, AllPass
      <4> QED
        BY <3>2, <4>2, <4>3 DEF ReconnectBatch, Reconnect
    <3> QED
      BY <1>3, <3>1, <3>2
  <2>2. UNCHANGED <<entries, orphans, pc, cand>>
    BY <2>1 DEF control
  <2> QED
    BY <2>1, <2>2 DEF BestInv, CopiesIntact, EntriesClosed, NoneBetter, Goal, New
<1> QED
  BY <1>2, <1>3

\* The other steps leave the disk and the tip alone.
LEMMA QuietBest ==
  ASSUME AllGood, Inv, CallsKnown, PoolInv, BestInv,
         \/ \E c \in Calls : Request(c)
         \/ Refuse \/ StoreOrphan \/ Accept \/ NextOrphan \/ AddDone
         \/ \E b \in invalid : Forget(b)
         \/ UNCHANGED vars
  PROVE  BestInv'
<1>1. UNCHANGED entries /\ UNCHANGED tip
  BY DEF Request, Refuse, StoreOrphan, Accept, NextOrphan, AddDone, Forget, vars, memory,
         dbVars, index
<1>2. CASE (\E c \in Calls : Request(c)) \/ Refuse \/ (\E b \in invalid : Forget(b))
           \/ UNCHANGED vars
  <2>1. UNCHANGED <<orphans, pc, cand>>
    BY <1>2 DEF Request, Refuse, Forget, vars, memory, control
  <2> QED
    BY <1>1, <2>1 DEF BestInv, CopiesIntact, EntriesClosed, NoneBetter, Goal, New
<1>3. CASE StoreOrphan
  <2>1. queue # <<>> /\ pc = "idle" /\ UNCHANGED <<pc, cand>>
    BY <1>3 DEF StoreOrphan, Granted, control
  <2>2. \A o \in ToSet(orphans') : o.intact
    <3>1. ToSet(orphans') \subseteq ToSet(orphans) \cup {CopyIn(Head(queue))}
      BY <1>3, StoreOrphanPool, InvParts
    <3>2. CopyIn(Head(queue)).intact
      BY <2>1, OnlyAdds DEF CopyIn
    <3> QED
      BY <3>1, <3>2 DEF BestInv, CopiesIntact
  <2> QED
    BY <1>1, <2>1, <2>2 DEF BestInv, CopiesIntact, EntriesClosed, NoneBetter, Goal
<1>4. CASE Accept
  <2>1. /\ queue # <<>> /\ pc = "idle" /\ pc' = "connect" /\ UNCHANGED orphans
        /\ cand' = CopyIn(Head(queue)) /\ Parent[Head(queue).block] \in entries
    BY <1>4 DEF Accept, Granted, memory
  <2>2. cand'.intact /\ cand'.block = Head(queue).block
    BY <2>1, OnlyAdds DEF CopyIn
  <2> QED
    BY <1>1, <2>1, <2>2 DEF BestInv, CopiesIntact, EntriesClosed, NoneBetter, Goal, New
<1>5. CASE NextOrphan
  <2>1. PICK i \in 1..Len(orphans) :
          /\ Parent[orphans[i].block] = New
          /\ cand' = orphans[i]
          /\ orphans' = RemoveAt(orphans, i)
    BY <1>5 DEF NextOrphan
  <2>2. orphans \in Seq(Copy) /\ DOMAIN orphans = 1..Len(orphans)
    BY InvParts, LenProperties DEF MemTypeOK
  <2>3. ToSet(orphans') \subseteq ToSet(orphans) /\ orphans[i] \in ToSet(orphans)
    <3>1. orphans' \in Seq(Copy) /\ Thinned(orphans', orphans)
      BY <2>1, <2>2, ThinnedRemove
    <3> QED
      BY <2>2, <3>1, ThinnedKeeps DEF ToSet
  <2>4. CopiesIntact'
    BY <2>1, <2>3 DEF BestInv, CopiesIntact
  <2>5. pc = "orphans" /\ pc' = "connect"
    BY <1>5 DEF NextOrphan
  <2> QED
    BY <1>1, <2>1, <2>4, <2>5 DEF BestInv, EntriesClosed, NoneBetter, Goal, New
<1>6. CASE AddDone
  <2>1. UNCHANGED orphans /\ pc = "orphans" /\ pc' = "idle"
    BY <1>6 DEF AddDone, Release, memory
  <2> QED
    BY <1>1, <2>1 DEF BestInv, CopiesIntact, EntriesClosed, NoneBetter, Goal
<1> QED
  BY <1>2, <1>3, <1>4, <1>5, <1>6

LEMMA BestSafety ==
  ASSUME AllGood
  PROVE  Spec => []BestInv
<1>1. Init => BestInv
  <2> SUFFICES ASSUME Init
               PROVE  BestInv
    OBVIOUS
  <2>1. entries = {Genesis} /\ tip = Genesis /\ pc = "idle" /\ ToSet(orphans) = {}
    BY EmptySeq DEF Init, DbInit, ToSet
  <2> QED
    BY <2>1, TreeAssumption DEF BestInv, CopiesIntact, EntriesClosed, NoneBetter, Goal
<1>2. Inv /\ DiskInv /\ PoolInv /\ MarksInv /\ BestInv /\ [Next]_vars => BestInv'
  <2> SUFFICES ASSUME Inv, DiskInv, PoolInv, MarksInv, BestInv, [Next]_vars
               PROVE  BestInv'
    OBVIOUS
  <2>1. ~(ForkMissing \/ DataMissing \/ AddFails \/ Crash \/ ResetStep)
    BY NothingFails DEF DiskInv, MarksInv
  <2> QED
    BY <2>1, SavedBest, ReorganizedBest, QuietBest DEF Next, AddStep, MarksInv
<1>3. ~ResetFaults
  BY DEF AllGood
<1> QED
  BY <1>1, <1>2, <1>3, Safety, NeverBroken, DiskSafety, PoolSafety, MarksSafety,
     PTL DEF Spec

\* When every block is good and nothing fails, the lock is never free while a
\* block with more work than the tip is on disk: whatever the order of the
\* blocks, the orphans they become and the reorganizations they cause.
THEOREM TipIsBest ==
  ASSUME AllGood
  PROVE  Spec => []BestTip
<1>1. BestInv => BestTip
  BY DEF BestInv, NoneBetter, Goal, BestTip
<1> QED
  BY <1>1, BestSafety, PTL
=============================================================================
