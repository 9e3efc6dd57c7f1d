--------------------------- MODULE IndexerProofs ---------------------------
(***************************************************************************)
(* TypeOK and OneBranch hold for any tree of blocks and any number of      *)
(* resets, restarts and failures: while the chain does not take back what  *)
(* a sync has read, the last record is on the main chain before the next   *)
(* one is loaded, so the two are parent and child.                         *)
(***************************************************************************)
EXTENDS Indexer, BlockTreeProofs, TLAPS

\* Every record is at the height of its block.
Levels == Recorded(0) /\ \A h \in DOMAIN hashes : Height[hashes[h]] = h

\* The block of an event is not the genesis block; a block that was connected is
\* still the tip when the event comes, and one that was disconnected is not the
\* first, unless the chain has left that.
EventInv ==
  /\ event.kind \in {"connect", "disconnect"} => event.block # Genesis
  /\ event.kind = "connect" => event.block = tip
  /\ event.kind = "disconnect" /\ ~left => Height[event.block] # 1

Full == Recorded(height)

\* What the steps before it have found out for the step under way.
StageInv ==
  /\ run.stage \in {"adding", "removing"} => event.kind \in {"connect", "disconnect"} /\ Full
  /\ run.stage = "adding" => /\ Height[event.block] = height + 1
                             /\ Parent[event.block] = hashes[height]
  /\ run.stage = "removing" => Height[event.block] = height
  /\ run.stage = "look" => run.at >= 1 /\ (run.at < height => Full)
  /\ run.stage \in {"back", "forward", "loaded", "done"} => Full
  /\ run.stage = "loaded" => run.block \in Block /\ Height[run.block] = height + 1

\* The first record stays on the main chain until the chain leaves its first block.
FirstInv ==
  ~left => /\ Recorded(1) => hashes[1] \in Main
           /\ run.stage = "loaded" /\ Height[run.block] = 1 => run.block \in Main

\* Where a sync is on the main chain.
SyncInv ==
  ~crossed /\ ~left =>
    /\ run.stage = "back" /\ run.at > 0 => hashes[run.at] \in Main
    /\ run.stage \in {"forward", "loaded"} => hashes[height] \in Main
    /\ run.stage = "loaded" => run.block \in Main

IInv ==
  /\ TypeOK /\ Levels /\ EventInv /\ StageInv /\ FirstInv /\ SyncInv /\ OneBranch

----------------------------------------------------------------------------
\* The tree.

LEMMA TreeFacts ==
  /\ Genesis \in Block /\ Height \in [Block -> Nat] /\ Height[Genesis] = 0
  /\ \A b \in Block : b \in Anc[b] /\ Genesis \in Anc[b] /\ Anc[b] \subseteq Block
  /\ \A b \in Block \ {Genesis} :
       /\ Parent[b] \in Block /\ Parent[b] # b
       /\ Height[b] = Height[Parent[b]] + 1 /\ Height[b] >= 1
       /\ Anc[b] = Anc[Parent[b]] \cup {b}
<1>1. /\ Genesis \in Block /\ Height \in [Block -> Nat] /\ Height[Genesis] = 0
      /\ Anc \in [Block -> SUBSET Block] /\ Anc[Genesis] = {Genesis}
  BY TreeAssumption
<1>2. ASSUME NEW b \in Block, b # Genesis
      PROVE  /\ Parent[b] \in Block /\ Height[b] = Height[Parent[b]] + 1
             /\ Anc[b] = Anc[Parent[b]] \cup {b} /\ b \notin Anc[Parent[b]]
  BY <1>2, TreeAssumption
<1>3. \A b \in Block : Genesis \in Anc[b]
  BY AncestryFacts
<1>4. ASSUME NEW b \in Block, b # Genesis PROVE Parent[b] # b /\ Height[b] >= 1
  BY <1>1, <1>2, <1>4
<1>5. ASSUME NEW b \in Block PROVE b \in Anc[b] /\ Anc[b] \subseteq Block
  BY <1>1, <1>2
<1> QED
  BY <1>1, <1>2, <1>3, <1>4, <1>5

\* A chain has one block at each height.
LEMMA OneAtHeight ==
  ASSUME NEW t \in Block, NEW a \in Anc[t], NEW c \in Anc[t], Height[a] = Height[c]
  PROVE  a = c
<1>1. a \in Block /\ c \in Block /\ Height[a] \in Nat /\ Height[c] \in Nat
  BY TreeFacts
<1>2. Height[a] <= Height[c] => a \in Anc[c]
  BY AncestryFacts, Zenon
<1>3. a \in Anc[c]
  BY <1>1, <1>2
<1>4. a # c => Height[a] < Height[c]
  BY <1>1, <1>3, AncestryFacts, Zenon
<1> QED
  BY <1>1, <1>4

\* What a chain keeps when it takes back its last block.
LEMMA Taken1 ==
  ASSUME NEW t \in Block, t # Genesis
  PROVE  Anc[Parent[t]] = Anc[t] \ {t}
<1>1. Anc[t] = Anc[Parent[t]] \cup {t} /\ t \notin Anc[Parent[t]]
  BY TreeAssumption
<1> QED
  BY <1>1

LEMMA FirstParent ==
  ASSUME NEW b \in Block, Height[b] = 1
  PROVE  b # Genesis /\ Parent[b] = Genesis
<1>1. b # Genesis
  BY TreeFacts
<1>2. Parent[b] \in Block /\ Height[Parent[b]] = 0
  BY <1>1, TreeFacts
<1> QED
  BY <1>1, <1>2, TreeFacts

----------------------------------------------------------------------------
\* The records.

\* What TypeOK says of them.
LEMMA Reach ==
  ASSUME TypeOK
  PROVE  /\ height \in Nat
         /\ \A h \in DOMAIN hashes : h \in Nat /\ h <= height /\ hashes[h] \in Block
         /\ ~failed => DOMAIN hashes = 0..height
         /\ Full => DOMAIN hashes = 0..height
         /\ hashes \in [0..height -> Block] \/ (failed /\ hashes \in [0..(height - 1) -> Block])
<1>1. height \in Nat
  BY DEF TypeOK
<1>2. PICK r \in {height, height - 1} :
        hashes \in [0..r -> Block] /\ (failed \/ r = height)
  BY DEF TypeOK
<1>3. DOMAIN hashes = 0..r
  BY <1>2
<1>4. \A h \in 0..r : hashes[h] \in Block
  BY <1>2
<1>5. Full => r = height
  BY <1>1, <1>2, <1>3 DEF Full, Recorded
<1> QED
  BY <1>1, <1>2, <1>3, <1>4, <1>5

\* The batch of _setTip, when all below the new tip is recorded.
LEMMA Tipped ==
  ASSUME TypeOK, Levels, NEW b \in Block, SetTip(b),
         \A h \in 0..(Height[b] - 1) : Recorded(h)
  PROVE  /\ hashes' \in [0..Height[b] -> Block] /\ hashes'[Height[b]] = b
         /\ \A h \in 0..(Height[b] - 1) : hashes'[h] = hashes[h]
         /\ Levels'
<1>1. Height[b] \in Nat
  BY TreeFacts
<1>2. hashes' = [h \in 0..Height[b] |-> IF h = Height[b] THEN b ELSE hashes[h]]
  BY DEF SetTip
<1>3. \A h \in 0..(Height[b] - 1) : hashes[h] \in Block /\ Height[hashes[h]] = h
  BY Reach DEF Levels, Recorded
<1>4. hashes' \in [0..Height[b] -> Block] /\ hashes'[Height[b]] = b
  BY <1>1, <1>2, <1>3
<1>5. \A h \in 0..(Height[b] - 1) : hashes'[h] = hashes[h]
  BY <1>1, <1>2
<1>6. DOMAIN hashes' = 0..Height[b]
  BY <1>4
<1>7. \A h \in 0..Height[b] : Height[hashes'[h]] = h
  BY <1>1, <1>3, <1>4, <1>5
<1> QED
  BY <1>1, <1>4, <1>5, <1>6, <1>7 DEF Levels, Recorded

----------------------------------------------------------------------------
\* The chain moves; nothing of the index does.

USE DEF NoEvent, At, Idle

LEMMA Quiet ==
  ASSUME IInv, event = NoEvent
  PROVE  run.stage \notin {"adding", "removing"}
BY DEF IInv, StageInv

LEMMA ConnectStep ==
  ASSUME IInv, Connect
  PROVE  IInv'
<1>1. PICK b \in Anc[goal] : Parent[b] = tip /\ tip' = b /\ event' = [kind |-> "connect", block |-> b]
  BY DEF Connect
<1>2. tip \in Block /\ goal \in Block
  BY DEF IInv, TypeOK
<1>3. b \in Block /\ b # Genesis
  BY <1>1, <1>2, TreeFacts, TreeAssumption
<1>4. Main \subseteq Main' /\ Main' = Anc[b]
  BY <1>1, <1>3, TreeFacts DEF Main
<1>5. UNCHANGED <<goal, index, asked, prunes, extras, crossed, left, missed, failed>>
  BY DEF Connect
<1>6. run.stage \notin {"adding", "removing"}
  BY Quiet DEF Connect
<1>7. TypeOK'
  BY <1>1, <1>3, <1>5 DEF IInv, TypeOK, index, Event
<1>8. Levels' /\ OneBranch'
  BY <1>5 DEF IInv, Levels, OneBranch, Recorded, index
<1>9. EventInv'
  BY <1>1, <1>3 DEF EventInv
<1>10. StageInv'
  BY <1>5, <1>6 DEF IInv, StageInv, Full, Recorded, index
<1>11. FirstInv' /\ SyncInv'
  BY <1>4, <1>5 DEF IInv, FirstInv, SyncInv, Recorded, index
<1> QED
  BY <1>7, <1>8, <1>9, <1>10, <1>11 DEF IInv

\* The block that leaves is no record that anything relies on.
LEMMA RetractStep ==
  ASSUME IInv, event = NoEvent, tip # Genesis, Retract,
         event' \in {NoEvent, [kind |-> "disconnect", block |-> tip]}
                    \cup [kind : {"reset"}, block : Block]
  PROVE  IInv'
<1>1. tip \in Block /\ tip' = Parent[tip] /\ tip' \in Block
  BY TreeFacts DEF IInv, TypeOK, Retract
<1>2. Main' = Main \ {tip}
  BY <1>1, Taken1 DEF Main
<1>3. /\ UNCHANGED <<goal, index, asked, prunes, extras, missed, failed>>
      /\ crossed' = (crossed \/ Reading) /\ left' = (left \/ Parent[tip] = Genesis)
  BY DEF Retract
<1>4. run.stage \notin {"adding", "removing"}
  BY Quiet
<1>5. crossed \in BOOLEAN /\ left \in BOOLEAN
  BY DEF IInv, TypeOK
<1>6. ~left' => ~left /\ Height[tip] # 1
  BY <1>1, <1>3, FirstParent
<1>7. TypeOK'
  <2>1. crossed' \in BOOLEAN /\ left' \in BOOLEAN
    BY <1>3, <1>5 DEF Reading
  <2>2. event' \in Event \cup {NoEvent}
    BY <1>1 DEF Event
  <2> QED
    BY <1>1, <1>3, <2>1, <2>2 DEF IInv, TypeOK, index
<1>8. Levels'
  BY <1>3 DEF IInv, Levels, Recorded, index
<1>9. OneBranch'
  BY <1>3 DEF IInv, OneBranch, Recorded, index
<1>10. EventInv'
  BY <1>6 DEF EventInv
<1>11. StageInv'
  BY <1>3, <1>4 DEF IInv, StageInv, Full, Recorded, index
<1>12. FirstInv'
  BY <1>1, <1>2, <1>3, <1>6 DEF IInv, FirstInv, Levels, Recorded, index
<1>13. SyncInv'
  BY <1>3 DEF SyncInv, Reading, index
<1> QED
  BY <1>7, <1>8, <1>9, <1>10, <1>11, <1>12, <1>13 DEF IInv

LEMMA ChainSteps ==
  ASSUME IInv, ChainStep
  PROVE  IInv'
<1>1. tip \in Block /\ goal \in Block
  BY DEF IInv, TypeOK
<1>2. CASE Connect
  BY <1>2, ConnectStep
<1>3. CASE Disconnect
  <2>1. tip # Genesis
    BY <1>1, <1>3, TreeFacts DEF Disconnect
  <2> QED
    BY <1>3, <2>1, RetractStep DEF Disconnect
<1>4. CASE ResetRound
  <2>1. tip # Genesis
    BY <1>1, <1>4, TreeAssumption DEF ResetRound, Main
  <2>2. event' \in {NoEvent} \cup [kind : {"reset"}, block : Block]
    BY <1>1, <1>4 DEF ResetRound
  <2> QED
    BY <1>4, <2>1, <2>2, RetractStep DEF ResetRound
<1> QED
  BY <1>2, <1>3, <1>4 DEF ChainStep

\* The lock is taken.
LEMMA LockStep ==
  ASSUME IInv, NEW b \in Block, SetBest(b) \/ Reset(b)
  PROVE  IInv'
<1>1. /\ UNCHANGED <<tip, event, index, asked, prunes, crossed, left, missed, failed>>
      /\ goal' = b /\ extras' \in 0..MaxExtras
  BY IndexerAssumption DEF SetBest, Reset, IInv, TypeOK
<1>2. TypeOK'
  BY <1>1 DEF IInv, TypeOK, index
<1>3. Levels' /\ OneBranch' /\ EventInv'
  BY <1>1 DEF IInv, Levels, OneBranch, EventInv, Recorded, index
<1>4. StageInv'
  BY <1>1 DEF IInv, StageInv, Full, Recorded, index
<1>5. FirstInv' /\ SyncInv'
  BY <1>1 DEF IInv, FirstInv, SyncInv, Main, Recorded, index
<1> QED
  BY <1>2, <1>3, <1>4, <1>5 DEF IInv

----------------------------------------------------------------------------
\* The index takes a step; the chain keeps its blocks.

Still == UNCHANGED <<tip, goal, crossed, left, prunes>>

LEMMA EventKept ==
  ASSUME IInv, Still, event' \in {event, NoEvent}
  PROVE  EventInv' /\ event' \in Event \cup {NoEvent}
BY DEF IInv, EventInv, Still, TypeOK

\* The records stay as they are.
LEMMA RecordsKept ==
  ASSUME IInv, Still, UNCHANGED hashes
  PROVE  Levels' /\ OneBranch'
BY DEF IInv, Levels, OneBranch, Recorded, Still

\* The step under way has ended, and the records are as they were.
LEMMA Ended ==
  ASSUME IInv, Still, UNCHANGED <<hashes, height, asked>>, event' \in {event, NoEvent},
         run' = Idle, {syncing', batch', missed', failed'} \subseteq BOOLEAN,
         failed => failed', extras' \in 0..MaxExtras
  PROVE  IInv'
<1>1. Levels' /\ OneBranch' /\ EventInv' /\ event' \in Event \cup {NoEvent}
  BY EventKept, RecordsKept
<1>2. TypeOK'
  BY <1>1, Reach DEF IInv, TypeOK, Still, Stages
<1>3. StageInv' /\ SyncInv'
  BY DEF StageInv, SyncInv
<1>4. FirstInv'
  BY DEF IInv, FirstInv, Main, Recorded, Still
<1> QED
  BY <1>1, <1>2, <1>3, <1>4 DEF IInv

LEMMA UnwrittenStep ==
  ASSUME IInv, Still, Unwritten, UNCHANGED <<asked, missed>>, event' \in {event, NoEvent}
  PROVE  IInv'
<1>1. extras' \in 0..MaxExtras /\ missed' \in BOOLEAN
  BY IndexerAssumption DEF Unwritten, IInv, TypeOK
<1>2. UNCHANGED <<hashes, height>> /\ run' = Idle /\ batch' = TRUE /\ failed' = TRUE
      /\ syncing' \in BOOLEAN
  BY DEF Unwritten, Ends
<1> QED
  BY <1>1, <1>2, Ended

\* A block on top of the last record.
LEMMA Added ==
  ASSUME IInv, Still, NEW b \in Block, NEW next, Add(b, next), Full,
         Height[b] = height + 1, crossed \/ left \/ Parent[b] = hashes[height]
  PROVE  /\ height' = height + 1 /\ hashes' \in [0..height' -> Block]
         /\ Full' /\ Levels' /\ OneBranch'
         /\ hashes'[height'] = b
         /\ \A h \in 0..height : hashes'[h] = hashes[h] /\ Recorded(h)
<1>1. DOMAIN hashes = 0..height /\ height \in Nat
  BY Reach DEF IInv
<1>2. SetTip(b) /\ height' = height + 1
  BY DEF Add
<1>3. /\ hashes' \in [0..Height[b] -> Block] /\ hashes'[Height[b]] = b
      /\ \A h \in 0..(Height[b] - 1) : hashes'[h] = hashes[h]
      /\ Levels'
  BY <1>1, <1>2, Tipped DEF IInv, Recorded
<1>4. \A h \in 0..height : hashes'[h] = hashes[h] /\ Recorded(h)
  BY <1>1, <1>3 DEF Recorded
<1>5. DOMAIN hashes' = 0..(height + 1)
  BY <1>3
<1>6. Full'
  BY <1>1, <1>2, <1>5 DEF Full, Recorded
<1>7. OneBranch'
  <2> SUFFICES ASSUME ~crossed', ~left'
               PROVE  /\ hashes'[0] = Genesis
                      /\ \A h \in DOMAIN hashes' \ {0} : Parent[hashes'[h]] = hashes'[h - 1]
    BY DEF OneBranch
  <2>1. ~crossed /\ ~left
    BY DEF Still
  <2>2. hashes[0] = Genesis /\ \A h \in 1..height : Parent[hashes[h]] = hashes[h - 1]
    BY <2>1, <1>1 DEF IInv, OneBranch
  <2>3. hashes'[0] = Genesis
    BY <2>2, <1>1, <1>4
  <2>4. \A h \in 1..height : Parent[hashes'[h]] = hashes'[h - 1]
    BY <2>2, <1>1, <1>4
  <2>5. Parent[hashes'[height + 1]] = hashes'[(height + 1) - 1]
    BY <2>1, <1>1, <1>3, <1>4
  <2> QED
    BY <2>3, <2>4, <2>5, <1>1, <1>5
<1> QED
  BY <1>2, <1>3, <1>4, <1>6, <1>7

\* The last record is taken off.
LEMMA Removed ==
  ASSUME IInv, Still, NEW next, Remove(next), Full, height > 0
  PROVE  /\ hashes' \in [0..(height - 1) -> Block]
         /\ \A h \in 0..(height - 1) : hashes'[h] = hashes[h] /\ Recorded(h)
         /\ Levels' /\ OneBranch'
<1>1. DOMAIN hashes = 0..height /\ height \in Nat
  BY Reach DEF IInv
<1>2. hashes[height - 1] \in Block /\ Height[hashes[height - 1]] = height - 1
  BY <1>1, Reach DEF IInv, Levels
<1>3. SetTip(hashes[height - 1])
  BY DEF Remove
<1>4. \A h \in 0..(Height[hashes[height - 1]] - 1) : Recorded(h)
  BY <1>1, <1>2 DEF Recorded
<1>5. /\ hashes' \in [0..(height - 1) -> Block] /\ hashes'[height - 1] = hashes[height - 1]
      /\ \A h \in 0..((height - 1) - 1) : hashes'[h] = hashes[h]
      /\ Levels'
  <2>1. Levels /\ TypeOK
    BY DEF IInv
  <2> HIDE DEF SetTip, Levels
  <2> QED
    BY <1>2, <1>3, <1>4, <2>1, Tipped
<1>6. \A h \in 0..(height - 1) : hashes'[h] = hashes[h] /\ Recorded(h)
  BY <1>1, <1>5 DEF Recorded
<1>7. OneBranch'
  BY <1>1, <1>5, <1>6 DEF IInv, OneBranch, Still
<1> QED
  BY <1>5, <1>6, <1>7

\* A sync begins at the last record.
LEMMA Begun ==
  ASSUME IInv, Still, UNCHANGED <<hashes, height, batch, extras, failed>>,
         event' \in {event, NoEvent}, Begin, asked' \in BOOLEAN
  PROVE  IInv'
<1>1. Levels' /\ OneBranch' /\ EventInv' /\ event' \in Event \cup {NoEvent}
  BY EventKept, RecordsKept
<1>2. height \in Nat /\ Recorded(0) /\ Genesis \in Main
  BY TreeFacts DEF IInv, TypeOK, Levels, Main
<1>3. /\ syncing' = TRUE /\ missed' = FALSE
      /\ \/ height = 0 /\ run' = At("forward", 0, NoBlock)
         \/ height >= 1 /\ run' = At("look", height, NoBlock)
  BY <1>2 DEF Begin
<1>4. TypeOK'
  <2>1. run' \in [stage : Stages, at : 0..height, block : Block \cup {NoBlock}]
    BY <1>2, <1>3 DEF Stages
  <2> QED
    BY <1>1, <1>3, <2>1 DEF IInv, TypeOK, Still
<1>5. StageInv'
  BY <1>2, <1>3 DEF StageInv, Full, Recorded
<1>6. FirstInv'
  BY <1>3 DEF IInv, FirstInv, Main, Recorded, Still
<1>7. SyncInv'
  BY <1>2, <1>3 DEF IInv, SyncInv, OneBranch, Main, Still
<1> QED
  BY <1>1, <1>4, <1>5, <1>6, <1>7 DEF IInv

LEMMA DroppedStep ==
  ASSUME IInv, Dropped
  PROVE  IInv'
<1>1. /\ UNCHANGED <<tip, goal, index, asked, prunes, extras, crossed, left, failed>>
      /\ event' = NoEvent /\ missed' \in BOOLEAN
      /\ run.stage \notin {"adding", "removing"}
  BY DEF Dropped, IInv, TypeOK
<1>2. Still
  BY <1>1 DEF Still
<1>3. Levels' /\ OneBranch' /\ EventInv' /\ event' \in Event \cup {NoEvent}
  BY <1>1, <1>2, EventKept, RecordsKept DEF index
<1>4. TypeOK'
  BY <1>1, <1>3 DEF IInv, TypeOK, index
<1>5. StageInv'
  BY <1>1 DEF IInv, StageInv, Full, Recorded, index
<1>6. FirstInv' /\ SyncInv'
  BY <1>1 DEF IInv, FirstInv, SyncInv, Main, Recorded, index
<1> QED
  BY <1>3, <1>4, <1>5, <1>6 DEF IInv

LEMMA TakenStep ==
  ASSUME IInv, Taken
  PROVE  IInv'
<1>1. /\ UNCHANGED <<chain, hashes, height, batch, asked, prunes, extras, crossed, left,
                     failed>>
      /\ syncing' = TRUE /\ missed' \in BOOLEAN
  BY DEF Taken, IInv, TypeOK
<1>2. event \in Event /\ event.kind \in {"connect", "disconnect"} /\ Full
  BY DEF Taken, IInv, TypeOK, Event, Full
<1>3. event.block \in Block /\ Height[event.block] \in Nat /\ height \in Nat
  BY <1>2, TreeFacts DEF IInv, TypeOK, Event
<1>4. \/ /\ run' = At("removing", 0, NoBlock) /\ Height[event.block] = height
      \/ /\ run' = At("adding", 0, NoBlock) /\ Height[event.block] = height + 1
         /\ Parent[event.block] = hashes[height]
  BY <1>3 DEF Taken, Fits
<1>5. Still
  BY <1>1 DEF Still, chain
<1>6. Levels' /\ OneBranch' /\ EventInv' /\ event' \in Event \cup {NoEvent}
  BY <1>1, <1>5, EventKept, RecordsKept DEF chain
<1>7. TypeOK'
  <2>1. run' \in [stage : Stages, at : 0..height, block : Block \cup {NoBlock}]
    BY <1>3, <1>4 DEF Stages
  <2> QED
    BY <1>1, <1>6, <2>1 DEF IInv, TypeOK, chain
<1>8. StageInv'
  BY <1>1, <1>2, <1>4 DEF StageInv, Full, Recorded, chain
<1>9. FirstInv' /\ SyncInv'
  BY <1>1, <1>4 DEF IInv, FirstInv, SyncInv, Main, Recorded, chain
<1> QED
  BY <1>6, <1>7, <1>8, <1>9 DEF IInv

\* The flag stays set, but no step was under way.
LEMMA ThrownStep ==
  ASSUME IInv, Thrown
  PROVE  IInv'
<1>1. run = Idle
  BY DEF Thrown, IInv, TypeOK
<1>2. /\ Still /\ UNCHANGED <<hashes, height, asked, missed, failed, batch, extras>>
      /\ run' = Idle /\ syncing' = TRUE /\ event' = NoEvent
  BY <1>1 DEF Thrown, Still
<1> QED
  BY <1>2, Ended DEF IInv, TypeOK

LEMMA StartSteps ==
  ASSUME IInv, Started \/ StartSync
  PROVE  IInv'
<1>1. CASE Started
  <2>1. Still /\ Begin /\ UNCHANGED <<hashes, height, batch, extras, failed, asked>>
        /\ event' = NoEvent
    BY <1>1 DEF Started, Still
  <2> QED
    BY <2>1, Begun DEF IInv, TypeOK
<1>2. CASE StartSync /\ ~syncing
  <2>1. Still /\ Begin /\ UNCHANGED <<hashes, height, batch, extras, failed>>
        /\ event' = event /\ asked' = TRUE
    BY <1>2 DEF StartSync, Still, chain
  <2> QED
    BY <2>1, Begun
<1>3. CASE StartSync /\ syncing
  <2>1. UNCHANGED <<chain, index, missed, prunes, extras, crossed, left, failed>>
        /\ asked' = TRUE
    BY <1>3 DEF StartSync, index
  <2>2. TypeOK'
    BY <2>1 DEF IInv, TypeOK, chain, index
  <2>3. Levels' /\ OneBranch' /\ EventInv'
    BY <2>1 DEF IInv, Levels, OneBranch, EventInv, Recorded, chain, index
  <2>4. StageInv'
    BY <2>1 DEF IInv, StageInv, Full, Recorded, chain, index
  <2>5. FirstInv' /\ SyncInv'
    BY <2>1 DEF IInv, FirstInv, SyncInv, Main, Recorded, chain, index
  <2> QED
    BY <2>2, <2>3, <2>4, <2>5 DEF IInv
<1> QED
  BY <1>1, <1>2, <1>3 DEF IInv, TypeOK

\* The batch is written for an event: a block that is connected is on the main
\* chain, and one that is disconnected is not the first.
LEMMA AddEventStep ==
  ASSUME IInv, AddEvent
  PROVE  IInv'
<1>1. Still /\ event' = NoEvent /\ UNCHANGED <<asked, missed>> /\ run.stage = "adding"
  BY DEF AddEvent, Still
<1>2. CASE Unwritten
  BY <1>1, <1>2, UnwrittenStep
<1>3. CASE Add(event.block, Idle) /\ UNCHANGED extras
  <2> DEFINE b == event.block
  <2>1. /\ event.kind \in {"connect", "disconnect"} /\ Full
        /\ Height[b] = height + 1 /\ Parent[b] = hashes[height]
    BY <1>1 DEF IInv, StageInv
  <2>2. event \in Event /\ b \in Block
    BY <2>1 DEF IInv, TypeOK, Event
  <2>3. /\ height' = height + 1 /\ hashes' \in [0..height' -> Block]
        /\ Full' /\ Levels' /\ OneBranch' /\ hashes'[height'] = b
        /\ \A h \in 0..height : hashes'[h] = hashes[h] /\ Recorded(h)
    BY <1>1, <1>3, <2>1, <2>2, Added
  <2>4. run' = Idle /\ syncing' = FALSE /\ UNCHANGED <<batch, failed>>
    BY <1>3 DEF Add
  <2>5. EventInv' /\ event' \in Event \cup {NoEvent}
    BY <1>1, EventKept
  <2>6. TypeOK'
    <3>1. height' \in Nat /\ run' \in [stage : Stages, at : 0..height', block : Block \cup {NoBlock}]
      BY <2>3, <2>4 DEF IInv, TypeOK, Stages
    <3> QED
      BY <1>1, <1>3, <2>3, <2>4, <2>5, <3>1 DEF IInv, TypeOK, Still
  <2>7. StageInv' /\ SyncInv'
    BY <2>4 DEF StageInv, SyncInv
  <2>8. FirstInv'
    <3> SUFFICES ASSUME ~left', Recorded(1)' PROVE hashes'[1] \in Main'
      BY <2>4 DEF FirstInv
    <3>1. ~left /\ Main' = Main
      BY <1>1 DEF Still, Main
    <3>2. height \in Nat
      BY DEF IInv, TypeOK
    <3>3. CASE height = 0
      <4>1. event.kind = "connect" /\ b = tip
        BY <2>1, <3>1, <3>3 DEF IInv, EventInv
      <4>2. b \in Main
        BY <2>2, <4>1, TreeFacts DEF Main
      <4> QED
        BY <2>3, <3>1, <3>3, <4>2
    <3>4. CASE height >= 1
      <4>1. hashes'[1] = hashes[1] /\ Recorded(1)
        BY <2>3, <3>2, <3>4
      <4> QED
        BY <3>1, <4>1 DEF IInv, FirstInv
    <3> QED
      BY <3>2, <3>3, <3>4
  <2> QED
    BY <2>3, <2>5, <2>6, <2>7, <2>8 DEF IInv
<1> QED
  BY <1>2, <1>3 DEF AddEvent

\* The last record is above the genesis block.
LEMMA RemoveEventStep ==
  ASSUME IInv, RemoveEvent
  PROVE  IInv'
<1>1. Still /\ event' = NoEvent /\ UNCHANGED <<asked, missed>> /\ run.stage = "removing"
  BY DEF RemoveEvent, Still
<1>2. CASE Unwritten
  BY <1>1, <1>2, UnwrittenStep
<1>3. CASE Remove(Idle) /\ UNCHANGED extras
  <2>1. Full /\ event \in Event /\ event.block # Genesis /\ Height[event.block] = height
    BY <1>1 DEF IInv, StageInv, EventInv, TypeOK, Event
  <2>2. height \in Nat /\ height > 0
    BY <2>1, TreeFacts DEF IInv, TypeOK, Event
  <2>3. /\ hashes' \in [0..(height - 1) -> Block] /\ Levels' /\ OneBranch'
        /\ \A h \in 0..(height - 1) : hashes'[h] = hashes[h] /\ Recorded(h)
    BY <1>1, <1>3, <2>1, <2>2, Removed
  <2>4. /\ run' = Idle /\ batch' \in BOOLEAN /\ syncing' \in BOOLEAN /\ failed' \in BOOLEAN
        /\ height' \in {height, height - 1} /\ (failed' \/ height' = height - 1)
    BY <1>1, <1>3 DEF Remove, Ends, IInv, TypeOK
  <2>5. EventInv' /\ event' \in Event \cup {NoEvent}
    BY <1>1, EventKept
  <2>6. TypeOK'
    <3>1. height' \in Nat /\ run' \in [stage : Stages, at : 0..height', block : Block \cup {NoBlock}]
      BY <2>2, <2>4 DEF Stages
    <3>2. \E r \in {height', height' - 1} : hashes' \in [0..r -> Block] /\ (failed' \/ r = height')
      BY <2>2, <2>3, <2>4
    <3> QED
      BY <1>1, <1>3, <2>4, <2>5, <3>1, <3>2 DEF IInv, TypeOK, Still
  <2>7. StageInv' /\ SyncInv'
    BY <2>4 DEF StageInv, SyncInv
  <2>8. FirstInv'
    <3>1. DOMAIN hashes' = 0..(height - 1)
      BY <2>3
    <3>2. Recorded(1)' => hashes'[1] = hashes[1] /\ Recorded(1)
      BY <2>2, <2>3, <3>1 DEF Recorded
    <3> QED
      BY <1>1, <2>4, <3>2 DEF IInv, FirstInv, Main, Still
  <2> QED
    BY <2>3, <2>5, <2>6, <2>7, <2>8 DEF IInv
<1> QED
  BY <1>2, <1>3 DEF RemoveEvent

\* The search ends at a record on the main chain, or at the genesis block.
LEMMA LookStep ==
  ASSUME IInv, Look
  PROVE  IInv'
<1>1. /\ Still /\ UNCHANGED <<event, hashes, height, batch, asked, extras, missed, failed>>
      /\ run.stage = "look" /\ run # Idle
  BY DEF Look, Still, chain
<1>2. CASE ~Recorded(run.at)
  <2>1. run' = Idle /\ syncing' = FALSE
    BY <1>2 DEF Look
  <2> QED
    BY <1>1, <2>1, Ended DEF IInv, TypeOK
<1>3. CASE Recorded(run.at)
  <2>1. run.at \in 1..height /\ height \in Nat /\ Full /\ syncing
    BY <1>1, <1>3 DEF IInv, StageInv, TypeOK, Full
  <2>2. \/ IsMain(hashes[run.at]) /\ run' = At("back", run.at, NoBlock)
        \/ run' = At("back", 0, NoBlock)
        \/ run.at # 1 /\ run' = At("look", run.at - 1, NoBlock)
    BY <1>3 DEF Look, Goes
  <2>3. Levels' /\ OneBranch' /\ EventInv' /\ event' \in Event \cup {NoEvent}
    BY <1>1, EventKept, RecordsKept
  <2>4. TypeOK'
    <3>1. run' \in [stage : Stages, at : 0..height, block : Block \cup {NoBlock}]
      BY <2>1, <2>2 DEF Stages
    <3>2. syncing' = syncing
      BY <1>3 DEF Look
    <3> QED
      BY <1>1, <2>1, <2>3, <3>1, <3>2 DEF IInv, TypeOK, Still
  <2>5. StageInv'
    BY <1>1, <2>1, <2>2 DEF StageInv, Full, Recorded
  <2>6. FirstInv'
    BY <1>1, <2>2 DEF IInv, FirstInv, Main, Recorded, Still
  <2>7. SyncInv'
    BY <1>1, <2>2 DEF SyncInv, IsMain, Main, Still
  <2> QED
    BY <2>3, <2>4, <2>5, <2>6, <2>7 DEF IInv
<1> QED
  BY <1>2, <1>3

\* The rollback ends at the record that the search found, or at height 1.
LEMMA RollbackStep ==
  ASSUME IInv, Rollback
  PROVE  IInv'
<1>1. /\ Still /\ UNCHANGED <<event, asked, missed>> /\ run.stage = "back" /\ run # Idle
  BY DEF Rollback, Still, chain
<1>2. /\ Full /\ height \in Nat /\ run.at \in 0..height /\ syncing
      /\ run \in [stage : Stages, at : 0..height, block : Block \cup {NoBlock}]
  BY <1>1 DEF IInv, StageInv, TypeOK
<1>3. CASE Unwritten
  BY <1>1, <1>3, UnwrittenStep
<1>4. CASE Above(run.at) /\ Remove(run) /\ UNCHANGED extras
  <2>1. height > 1 /\ run.at <= height - 1
    BY <1>2, <1>4 DEF Above
  <2>2. /\ hashes' \in [0..(height - 1) -> Block] /\ Levels' /\ OneBranch'
        /\ \A h \in 0..(height - 1) : hashes'[h] = hashes[h] /\ Recorded(h)
    BY <1>1, <1>2, <1>4, <2>1, Removed
  <2>3. /\ batch' \in BOOLEAN /\ failed' \in BOOLEAN
        /\ \/ run' = Idle /\ syncing' \in BOOLEAN /\ height' = height /\ failed'
           \/ run' = run /\ syncing' = TRUE /\ height' = height - 1
    <3>1. CASE prunes
      BY <1>1, <1>4, <3>1 DEF Remove, Ends, IInv, TypeOK
    <3>2. CASE ~prunes
      <4>1. run' = run /\ height' = height - 1 /\ UNCHANGED <<batch, failed>>
            /\ syncing' = (run # Idle)
        BY <1>4, <3>2 DEF Remove
      <4> HIDE DEF Idle
      <4>2. syncing' = TRUE
        BY <1>1, <4>1, Zenon
      <4> QED
        BY <4>1, <4>2 DEF IInv, TypeOK
    <3> QED
      BY <3>1, <3>2
  <2>4. EventInv' /\ event' \in Event \cup {NoEvent}
    BY <1>1, EventKept
  <2>5. DOMAIN hashes' = 0..(height - 1)
    BY <2>2
  <2>6. TypeOK'
    <3>1. height' \in Nat /\ (run' # Idle => syncing')
      BY <1>2, <2>1, <2>3
    <3>2. run' \in [stage : Stages, at : 0..height', block : Block \cup {NoBlock}]
      BY <1>2, <2>1, <2>3 DEF Stages
    <3>3. \E r \in {height', height' - 1} : hashes' \in [0..r -> Block] /\ (failed' \/ r = height')
      BY <1>2, <2>1, <2>2, <2>3
    <3> QED
      BY <1>1, <1>4, <2>3, <2>4, <3>1, <3>2, <3>3 DEF IInv, TypeOK, Still
  <2>7. StageInv'
    BY <1>1, <1>2, <2>1, <2>3, <2>5 DEF StageInv, Full, Recorded
  <2>8. FirstInv'
    BY <1>1, <2>1, <2>2, <2>3, <1>2 DEF IInv, FirstInv, Main, Still
  <2>9. SyncInv'
    BY <1>1, <1>2, <2>1, <2>2, <2>3 DEF IInv, SyncInv, Main, Still
  <2> QED
    BY <2>2, <2>4, <2>6, <2>7, <2>8, <2>9 DEF IInv
<1>5. CASE /\ ~Above(run.at) /\ Goes("forward", 0, NoBlock)
           /\ UNCHANGED <<hashes, height, syncing, batch, failed, extras>>
  <2>1. run' = At("forward", 0, NoBlock)
    BY <1>5 DEF Goes
  <2>2. Levels' /\ OneBranch' /\ EventInv' /\ event' \in Event \cup {NoEvent}
    BY <1>1, <1>5, EventKept, RecordsKept
  <2>3. TypeOK'
    <3>1. run' \in [stage : Stages, at : 0..height, block : Block \cup {NoBlock}]
      BY <1>2, <2>1 DEF Stages
    <3> QED
      BY <1>1, <1>2, <1>5, <2>2, <3>1 DEF IInv, TypeOK, Still
  <2>4. StageInv'
    BY <1>2, <1>5, <2>1 DEF StageInv, Full, Recorded
  <2>5. FirstInv'
    BY <1>1, <1>5, <2>1 DEF IInv, FirstInv, Main, Recorded, Still
  <2>6. SyncInv'
    <3> SUFFICES ASSUME ~crossed, ~left PROVE hashes[height] \in Main
      BY <1>1, <1>5, <2>1 DEF SyncInv, Main, Still
    <3>1. CASE height = 0
      BY <3>1, TreeFacts DEF IInv, TypeOK, OneBranch, Main
    <3>2. CASE run.at > 0 /\ height # 0
      <4>1. hashes[run.at] \in Main
        BY <1>1, <3>2 DEF IInv, SyncInv
      <4>2. run.at = height
        BY <1>2, <1>5, <3>2 DEF Above
      <4> QED
        BY <4>1, <4>2
    <3>3. CASE run.at = 0 /\ height # 0
      <4>1. height = 1
        BY <1>2, <1>5, <3>3 DEF Above
      <4> QED
        BY <1>2, <4>1 DEF IInv, FirstInv, Full
    <3> QED
      BY <1>2, <3>1, <3>2, <3>3
  <2> QED
    BY <2>2, <2>3, <2>4, <2>5, <2>6 DEF IInv
<1> QED
  BY <1>3, <1>4, <1>5 DEF Rollback

LEMMA LoadStep ==
  ASSUME IInv, Load
  PROVE  IInv'
<1>1. /\ Still /\ run.stage = "forward" /\ run # Idle
      /\ UNCHANGED <<event, hashes, height, syncing, batch, asked, extras, missed, failed>>
  BY DEF Load, Still, chain
<1>2. tip \in Block /\ Main \subseteq Block /\ height \in Nat /\ syncing /\ Full
  BY <1>1, TreeFacts DEF IInv, TypeOK, StageInv, Main
<1>3. \/ \E b \in Main : Height[b] = height + 1 /\ run' = At("loaded", 0, b)
      \/ run' = At("done", 0, NoBlock)
  BY DEF Load, Goes
<1>4. Levels' /\ OneBranch' /\ EventInv' /\ event' \in Event \cup {NoEvent}
  BY <1>1, EventKept, RecordsKept
<1>5. TypeOK'
  <2>1. run' \in [stage : Stages, at : 0..height, block : Block \cup {NoBlock}]
    BY <1>2, <1>3 DEF Stages
  <2> QED
    BY <1>1, <1>2, <1>4, <2>1 DEF IInv, TypeOK, Still
<1>6. StageInv'
  BY <1>1, <1>2, <1>3 DEF StageInv, Full, Recorded
<1>7. FirstInv'
  BY <1>1, <1>3 DEF IInv, FirstInv, Main, Recorded, Still
<1>8. SyncInv'
  BY <1>1, <1>3 DEF IInv, SyncInv, Main, Still
<1> QED
  BY <1>4, <1>5, <1>6, <1>7, <1>8 DEF IInv

\* The parent of the block is the only one of its height on the main chain.
LEMMA RollforwardStep ==
  ASSUME IInv, Rollforward
  PROVE  IInv'
<1>1. Still /\ UNCHANGED <<event, asked, missed>> /\ run.stage = "loaded"
  BY DEF Rollforward, Still, chain
<1>2. CASE Unwritten
  BY <1>1, <1>2, UnwrittenStep
<1>3. CASE Add(run.block, At("forward", 0, NoBlock)) /\ UNCHANGED extras
  <2> DEFINE b == run.block
  <2>1. b \in Block /\ Height[b] = height + 1 /\ Full /\ height \in Nat /\ tip \in Block
    BY <1>1 DEF IInv, StageInv, TypeOK
  <2>2. b # Genesis /\ Parent[b] \in Block /\ Height[Parent[b]] = height
    BY <2>1, TreeFacts
  <2>3. ASSUME ~crossed, ~left PROVE Parent[b] = hashes[height]
    <3>1. b \in Main /\ hashes[height] \in Main
      BY <1>1, <2>3 DEF IInv, SyncInv
    <3>2. Height[hashes[height]] = height
      BY <2>1 DEF IInv, Levels, Full, Recorded
    <3>3. Parent[b] \in Anc[tip]
      <4>1. Height[Parent[b]] <= Height[b] /\ Parent[b] \in Anc[b]
        BY <2>1, <2>2, TreeFacts
      <4>2. Anc[b] \subseteq Anc[tip]
        BY <2>1, <3>1, AncestryFacts DEF Main
      <4> QED
        BY <4>1, <4>2
    <3> QED
      BY <2>1, <2>2, <3>1, <3>2, <3>3, OneAtHeight DEF Main
  <2>4. /\ height' = height + 1 /\ hashes' \in [0..height' -> Block]
        /\ Full' /\ Levels' /\ OneBranch' /\ hashes'[height'] = b
        /\ \A h \in 0..height : hashes'[h] = hashes[h] /\ Recorded(h)
    BY <1>1, <1>3, <2>1, <2>3, Added
  <2>5. run' = At("forward", 0, NoBlock) /\ syncing' = TRUE /\ UNCHANGED <<batch, failed>>
    BY <1>3 DEF Add
  <2>6. EventInv' /\ event' \in Event \cup {NoEvent}
    BY <1>1, EventKept
  <2>7. TypeOK'
    <3>1. height' \in Nat /\ run' \in [stage : Stages, at : 0..height', block : Block \cup {NoBlock}]
      BY <2>1, <2>4, <2>5 DEF Stages
    <3> QED
      BY <1>1, <1>3, <2>4, <2>5, <2>6, <3>1 DEF IInv, TypeOK, Still
  <2>8. StageInv'
    BY <2>4, <2>5 DEF StageInv
  <2>9. FirstInv'
    <3> SUFFICES ASSUME ~left', Recorded(1)' PROVE hashes'[1] \in Main'
      BY <2>5 DEF FirstInv
    <3>1. ~left /\ Main' = Main
      BY <1>1 DEF Still, Main
    <3>2. CASE height = 0
      BY <1>1, <2>1, <2>4, <3>1, <3>2 DEF IInv, FirstInv
    <3>3. CASE height >= 1
      <4>1. hashes'[1] = hashes[1] /\ Recorded(1)
        BY <2>1, <2>4, <3>3
      <4> QED
        BY <3>1, <4>1 DEF IInv, FirstInv
    <3> QED
      BY <2>1, <3>2, <3>3
  <2>10. SyncInv'
    BY <1>1, <2>4, <2>5 DEF IInv, SyncInv, Main, Still
  <2> QED
    BY <2>4, <2>6, <2>7, <2>8, <2>9, <2>10 DEF IInv
<1> QED
  BY <1>2, <1>3 DEF Rollforward

LEMMA SyncEndsStep ==
  ASSUME IInv, SyncEnds
  PROVE  IInv'
<1>1. /\ Still /\ UNCHANGED <<event, hashes, height, batch, asked, extras, missed, failed>>
      /\ run' = Idle /\ syncing' = FALSE
  BY DEF SyncEnds, Synced, Still, chain
<1> QED
  BY <1>1, Ended DEF IInv, TypeOK

LEMMA IndexSteps ==
  ASSUME IInv, IndexStep
  PROVE  IInv'
BY DroppedStep, TakenStep, ThrownStep, StartSteps, AddEventStep, RemoveEventStep, LookStep,
   RollbackStep, LoadStep, RollforwardStep, SyncEndsStep DEF IndexStep

\* The height of the last record is the height after a restart.
LEMMA RestartStep ==
  ASSUME IInv, Restart
  PROVE  IInv'
<1>1. /\ UNCHANGED <<tip, hashes, prunes, crossed, left>> /\ event' = NoEvent /\ goal' = tip
      /\ height' = CHOOSE r \in DOMAIN hashes : r + 1 \notin DOMAIN hashes
      /\ syncing' = FALSE /\ batch' = FALSE /\ run' = Idle /\ asked' = FALSE
      /\ missed' = FALSE /\ failed' = FALSE
  BY DEF Restart
<1>2. PICK r : r \in Nat /\ DOMAIN hashes = 0..r /\ hashes \in [0..r -> Block]
  <2>1. PICK r \in {height, height - 1} : hashes \in [0..r -> Block]
    BY DEF IInv, TypeOK
  <2>2. DOMAIN hashes = 0..r /\ height \in Nat
    BY <2>1 DEF IInv, TypeOK
  <2>3. 0 \in 0..r
    BY <2>2 DEF IInv, Levels, Recorded
  <2>4. r \in Nat
    BY <2>2, <2>3
  <2> QED
    BY <2>1, <2>2, <2>4
<1>3. height' = r
  <2>1. \E q \in DOMAIN hashes : q + 1 \notin DOMAIN hashes
    BY <1>2
  <2>2. height' \in DOMAIN hashes /\ height' + 1 \notin DOMAIN hashes
    BY <1>1, <2>1
  <2>3. DOMAIN hashes = 0..r /\ r \in Nat
    BY <1>2
  <2>4. \A k \in 0..r : k + 1 \notin 0..r => k = r
    BY <2>3
  <2> QED
    BY <2>2, <2>3, <2>4, Zenon
<1>4. TypeOK'
  <2>1. run' \in [stage : Stages, at : 0..height', block : Block \cup {NoBlock}]
    <3>1. 0 \in 0..r
      BY <1>2
    <3>2. 0 \in 0..height'
      BY <1>3, <3>1, Zenon
    <3>3. run' = [stage |-> "idle", at |-> 0, block |-> NoBlock]
      BY <1>1
    <3> QED
      BY <3>2, <3>3 DEF Stages
  <2>2. extras' \in 0..MaxExtras
    BY IndexerAssumption DEF Restart, IInv, TypeOK
  <2>3. \E q \in {height', height' - 1} : hashes' \in [0..q -> Block] /\ (failed' \/ q = height')
    BY <1>1, <1>2, <1>3
  <2> QED
    BY <1>1, <1>2, <1>3, <2>1, <2>2, <2>3 DEF IInv, TypeOK
<1>5. Levels' /\ OneBranch'
  BY <1>1 DEF IInv, Levels, OneBranch, Recorded
<1>6. EventInv' /\ StageInv' /\ SyncInv'
  BY <1>1 DEF EventInv, StageInv, SyncInv
<1>7. FirstInv'
  BY <1>1 DEF IInv, FirstInv, Main, Recorded
<1> QED
  BY <1>4, <1>5, <1>6, <1>7 DEF IInv

----------------------------------------------------------------------------

LEMMA InitIInv == Init => IInv
<1> SUFFICES ASSUME Init PROVE IInv
  OBVIOUS
<1>1. hashes = [h \in {0} |-> Genesis] /\ height = 0 /\ run = Idle /\ event = NoEvent
  BY DEF Init
<1>2. DOMAIN hashes = {0} /\ hashes[0] = Genesis /\ {0} = 0..0
  BY <1>1
<1>3. hashes \in [0..0 -> Block]
  BY <1>1, <1>2, TreeFacts
<1>4. TypeOK
  <2>1. run \in [stage : Stages, at : 0..height, block : Block \cup {NoBlock}]
    BY <1>1 DEF Stages
  <2>2. \E r \in {height, height - 1} : hashes \in [0..r -> Block] /\ (failed \/ r = height)
    BY <1>1, <1>3
  <2>3. extras \in 0..MaxExtras
    BY IndexerAssumption DEF Init
  <2>4. tip \in Block /\ goal \in Block /\ prunes \in BOOLEAN /\ asked = FALSE
        /\ crossed = FALSE /\ left = FALSE /\ missed = FALSE /\ failed = FALSE
        /\ syncing = FALSE /\ batch = FALSE
    BY DEF Init
  <2> QED
    BY <1>1, <2>1, <2>2, <2>3, <2>4 DEF TypeOK
<1>5. Levels /\ OneBranch
  BY <1>2, TreeFacts DEF Levels, OneBranch, Recorded
<1>6. EventInv /\ StageInv /\ SyncInv
  BY <1>1 DEF EventInv, StageInv, SyncInv
<1>7. FirstInv
  BY <1>1, <1>2 DEF FirstInv, Recorded
<1> QED
  BY <1>4, <1>5, <1>6, <1>7 DEF IInv

LEMMA NextIInv == IInv /\ [Next]_vars => IInv'
<1> SUFFICES ASSUME IInv, [Next]_vars PROVE IInv'
  OBVIOUS
<1>1. ASSUME NEW b \in Block, SetBest(b) \/ Reset(b) PROVE IInv'
  BY <1>1, LockStep
<1>2. CASE ChainStep
  BY <1>2, ChainSteps
<1>3. CASE IndexStep
  BY <1>3, IndexSteps
<1>4. CASE Restart
  BY <1>4, RestartStep
<1>5. CASE UNCHANGED vars
  <2>1. UNCHANGED <<tip, goal, event, hashes, height, syncing, batch, run, asked, prunes,
                    extras, crossed, left, missed, failed>>
    BY <1>5 DEF vars, chain, index
  <2> QED
    BY <2>1 DEF IInv, TypeOK, Levels, EventInv, StageInv, FirstInv, SyncInv, OneBranch, Full,
                Recorded, Main
<1> QED
  BY <1>1, <1>2, <1>3, <1>4, <1>5 DEF Next

\* The invariant that the two theorems rest on holds in every state the index and the
\* chain can reach.
THEOREM Inductive == Spec => []IInv
BY InitIInv, NextIInv, PTL DEF Spec

\* The types: the records end at this.height, or one below it after a pruneBlock
\* has thrown, and a step is under way only while syncing is set.
THEOREM TypeCorrect == Spec => []TypeOK
<1>1. IInv => TypeOK
  BY DEF IInv
<1> QED
  BY <1>1, Inductive, PTL

\* The records are a branch of the block tree whatever events are dropped or taken
\* for their opposite, whatever batches fail and wherever the process ends, until
\* the chain takes back a block under a sync, or its first block.
THEOREM AlwaysOneBranch == Spec => []OneBranch
<1>1. IInv => OneBranch
  BY DEF IInv
<1> QED
  BY <1>1, Inductive, PTL
=============================================================================
