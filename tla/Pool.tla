--------------------------------- MODULE Pool ---------------------------------
(***************************************************************************)
(* How the pool of lib/net/pool.js downloads the chain from its outbound   *)
(* peers (lib/net/peer.js): the loader, headers up to the checkpoints, then *)
(* getblocks, the maps of requested blocks, compact blocks, closing and    *)
(* refilling, and the chain being reset meanwhile.                         *)
(*                                                                         *)
(* The network has one chain, so a block is its height.  Remote nodes keep *)
(* to the protocol and answer at once; what they send stays on the wire    *)
(* until it is read.  `lock' is the queue of pool.locker; the lock of the  *)
(* chain is held while a block is added and while the chain is reset, and  *)
(* a locator waits for it.                                                 *)
(***************************************************************************)
EXTENDS Naturals, FiniteSets, FiniteSetsExt, Sequences, SequencesExt

CONSTANTS
  Peer,          \* addresses that the host list gives
  None,
  Top,           \* bound: the highest block
  Known,         \* the height of the network at the start
  Recent,        \* blocks from here on are recent enough to be synced
  Checkpoints,   \* network.checkpoints
  MaxHeaders,    \* headers in one packet
  MaxHashes,     \* hashes that one getblocks is answered with
  MaxInv,        \* MAX_INV: blocks that resolveHeaders asks for at once
  MaxRequest,    \* MAX_BLOCK_REQUEST: blocks that may be asked of a peer
  Compact,       \* blocks that are sent as compact blocks
  MaxCloses,     \* bound: connections lost
  MaxResets,     \* bound: resets of the chain
  ResetTo        \* bound: the heights it is reset to

ASSUME PoolAssumption ==
  /\ None \notin Peer /\ IsFiniteSet(Peer)
  /\ {Top, Known, Recent, MaxHeaders, MaxHashes, MaxInv, MaxRequest, MaxCloses,
      MaxResets} \subseteq Nat
  /\ Known <= Top /\ MaxHeaders > 0 /\ MaxHashes > 0 /\ MaxInv > 0
  /\ MaxInv < MaxRequest /\ MaxHashes < MaxRequest
  /\ Checkpoints \subseteq 1..(Recent - 1) /\ Checkpoints # {}
  /\ ResetTo \subseteq 0..Top /\ Compact \subseteq 1..Top
  \* A node sends its last ten blocks as compact blocks; checkpoints are older,
  \* and a peer may have 15 under way.
  /\ \A n \in Compact, c \in Checkpoints : c < n
  /\ Cardinality(Compact) <= 15

VARIABLES
  best,          \* the height of the network
  tip, orphans, synced,            \* the chain
  resetting,     \* it holds its lock, between the `reset' event and purgeOrphans
  checkpoints,   \* whether headers are being synced
  headers,       \* headerChain from `first' to `last', headerNext as `next'
                 \* (0: null), headerTip as `target'
  link,          \* none, connecting, up (peer.handshake)
  load,          \* peers.load
  syncing,       \* peers whose peer.syncing is set
  asked,         \* peer.blockMap
  blockMap,      \* pool.blockMap
  half,          \* peer.compactBlocks
  compactBlocks, \* pool.compactBlocks
  wire,          \* what each peer has sent, unread
  cont,          \* hashContinue of each remote node (0: null)
  job,           \* the packet of each peer that waits for the lock, or what the
                 \* holder of the lock has still to do of his
  items,         \* the hashes of his inv that are to be asked for
  lock,          \* pool.locker
  adding,        \* the first of `lock' is in chain.add
  asking,        \* peers whose sendSync waits for a locator
  resync,        \* calls of resync that do, by their argument
  refill,        \* pendingRefill
  closes, resets,
  blamed,        \* history: a handler destroyed a peer
  disturbed,     \* history: the headers were reset with answers to come, or the
                 \* orphans purged while one was being resolved
  crowded        \* history: more headers up to a checkpoint, or more announced
                 \* blocks, than may be asked of a peer

chain == <<tip, orphans, synced, resetting>>
header == <<checkpoints, headers>>
requests == <<asked, blockMap, half, compactBlocks>>
peers == <<link, load, syncing, asking>>
handling == <<job, items, lock, adding>>
remote == <<wire, cont>>
bounds == <<best, closes, resets>>
history == <<blamed, disturbed, crowded>>
vars == <<chain, header, requests, peers, handling, remote, resync, refill, bounds,
          history>>

Blocks == 1..Top
LastCheckpoint == Max(Checkpoints)
Msg == [kind : {"headers", "inv", "block", "cmpct", "blocktxn"}, from : Blocks, to : Blocks]
Idle == [kind |-> "idle", from |-> 0, to |-> 0]
\* In handleBlockInv and resolveOrphan: the hashes that are left, and whether the
\* first waits for a locator, to find its root or to ask for more.
Left ==
  [kind : {"hashes"}, from : 1..(Top + 1), to : Blocks]
    \cup [kind : {"root", "more"}, from : Blocks, to : Blocks]
NoHeaders == [first |-> 0, last |-> 0, next |-> 0, target |-> 0]

TypeOK ==
  /\ <<best, tip>> \in (0..Top) \X (0..Top)
  /\ orphans \subseteq Blocks /\ synced \in BOOLEAN /\ resetting \in BOOLEAN
  /\ checkpoints \in BOOLEAN
  /\ headers \in [first : 0..(Top + 1), last : 0..Top, next : 0..Top,
                  target : Checkpoints \cup {0}]
  /\ link \in [Peer -> {"none", "connecting", "up"}]
  /\ load \in Peer \cup {None}
  /\ syncing \subseteq Peer /\ asking \subseteq Peer
  /\ asked \in [Peer -> SUBSET Blocks] /\ blockMap \subseteq Blocks
  /\ half \in [Peer -> SUBSET Blocks] /\ compactBlocks \subseteq Blocks
  /\ wire \in [Peer -> Seq(Msg)] /\ cont \in [Peer -> 0..Top]
  /\ job \in [Peer -> Msg \cup Left \cup {Idle}] /\ items \subseteq Blocks
  /\ lock \in Seq(Peer) /\ adding \in BOOLEAN
  /\ resync \subseteq BOOLEAN /\ refill \in BOOLEAN
  /\ closes \in 0..MaxCloses /\ resets \in 0..MaxResets
  /\ {blamed, disturbed, crowded} \subseteq BOOLEAN

----------------------------------------------------------------------------
\* What remote nodes answer.

Packet(kind, a, b) == [kind |-> kind, from |-> a, to |-> b]
Some(kind, a, b) == IF a <= b THEN <<Packet(kind, a, b)>> ELSE <<>>

\* getheaders from h, to stop; an empty answer is not sent.
GetHeaders(h, stop) == Some("headers", h + 1, Min({stop, best, h + MaxHeaders}))

\* getblocks from h, up to but not including stop, page by page.
PageEnd(h, stop) == Min({stop - 1, best, h + MaxHashes})
GetBlocks(h, stop) == Some("inv", h + 1, PageEnd(h, stop))
NoStop == Top + 1

\* A page that is full ends with the block to continue from.
Continued(c, h, stop) ==
  IF PageEnd(h, stop) = h + MaxHashes THEN h + MaxHashes ELSE c

\* getdata; when it has that block, the node announces its tip after it.
Block(n) == Packet(IF n \in Compact THEN "cmpct" ELSE "block", n, n)
InOrder(S) == CHOOSE s \in SetToSeqs(S) : \A i, j \in DOMAIN s : i < j => s[i] < s[j]
GetData(S) == LET s == InOrder(S) IN [i \in DOMAIN s |-> Block(s[i])]
Delivery(p, S) ==
  IF cont[p] \notin S THEN GetData(S)
  ELSE GetData({n \in S : n <= cont[p]}) \o <<Packet("inv", best, best)>>
         \o GetData({n \in S : n > cont[p]})

Sent(p, packets) == wire' = [wire EXCEPT ![p] = @ \o packets]

SentGetBlocks(p, h, stop) ==
  /\ Sent(p, GetBlocks(h, stop))
  /\ cont' = [cont EXCEPT ![p] = Continued(@, h, stop)]

SentGetData(p, S) ==
  /\ Sent(p, Delivery(p, S))
  /\ cont' = [cont EXCEPT ![p] = IF @ \in S THEN 0 ELSE @]

----------------------------------------------------------------------------
\* Headers.

\* getNextTip.
NextTip(h) == Min({c \in Checkpoints : c > h})

\* Mutant of ResetChain: the headers of the lost loader stay.
ResetChainKept(t) == UNCHANGED <<checkpoints, headers>>

\* resetChain, with the chain at t.
ResetChain(t) ==
  /\ checkpoints' = (t < LastCheckpoint)
  /\ headers' = IF t < LastCheckpoint
                THEN [first |-> t, last |-> t, next |-> 0, target |-> NextTip(t)]
                ELSE NoHeaders

\* resolveHeaders: the blocks to ask for, MaxInv at most, and what is left.
Unresolved(hs) ==
  IF hs.next = 0 THEN {} ELSE hs.next..Min({hs.last, hs.next + MaxInv - 1})
NextLeft(hs) ==
  IF hs.next = 0 \/ hs.next + MaxInv > hs.last THEN 0 ELSE hs.next + MaxInv

----------------------------------------------------------------------------
\* Peers.

\* isSyncable, with loader l.
Syncable(p, l) == link[p] = "up" /\ (p = l \/ synced)

\* sendLocator to the peers `to', answered.
Locator == IF checkpoints THEN GetHeaders(tip, headers.target) ELSE GetBlocks(tip, NoStop)
Located(to) ==
  /\ wire' = [p \in Peer |-> wire[p] \o (IF p \in to THEN Locator ELSE <<>>)]
  /\ cont' = [p \in Peer |-> IF p \in to /\ ~checkpoints
                             THEN Continued(cont[p], tip, NoStop) ELSE cont[p]]

\* Mutant of Asked: nor is whether another peer was asked.
AskedAgain(p, S) ==
  /\ asked' = [asked EXCEPT ![p] = @ \cup S]
  /\ blockMap' = blockMap \cup S

\* getBlock: what is asked of nobody is asked of p.
Asked(p, S) ==
  /\ asked' = [asked EXCEPT ![p] = @ \cup (S \ blockMap)]
  /\ blockMap' = blockMap \cup S

\* What getBlock does not allow.
TooMany(p, S) ==
  S \ blockMap # {} /\ Cardinality(asked[p] \cup (S \ blockMap)) >= MaxRequest

\* resolveBlock.
Resolved(p, n) ==
  /\ asked' = [asked EXCEPT ![p] = @ \ {n}]
  /\ blockMap' = blockMap \ {n}

\* removePeer.
Removed(p) ==
  /\ link' = [link EXCEPT ![p] = "none"]
  /\ load' = IF load = p THEN None ELSE load
  /\ asked' = [asked EXCEPT ![p] = {}] /\ blockMap' = blockMap \ asked[p]
  /\ half' = [half EXCEPT ![p] = {}] /\ compactBlocks' = compactBlocks \ half[p]

\* Mutant of Closed: the pool is not filled again.
ClosedForGood(p, t, full, r) ==
  /\ Removed(p)
  /\ syncing' = syncing \ {p} /\ asking' = asking \ {p}
  /\ wire' = [wire EXCEPT ![p] = <<>>] /\ cont' = [cont EXCEPT ![p] = 0]
  /\ IF load = p /\ checkpoints THEN ResetChain(t) ELSE UNCHANGED header
  /\ resync' = IF full /\ asked[p] # {} THEN r \cup {TRUE} ELSE r
  /\ UNCHANGED refill

\* handleClose of peer.destroy, with the chain at t.  r: what resync has by then.
Closed(p, t, full, r) ==
  /\ Removed(p)
  /\ syncing' = syncing \ {p} /\ asking' = asking \ {p}
  /\ wire' = [wire EXCEPT ![p] = <<>>] /\ cont' = [cont EXCEPT ![p] = 0]
  /\ IF load = p /\ checkpoints THEN ResetChain(t) ELSE UNCHANGED header
  /\ resync' = IF full /\ asked[p] # {} THEN r \cup {TRUE} ELSE r
  /\ refill' = TRUE

\* getBlock closes p, of which it has just noted the request.
Overrun(p, t, full, r) == Closed(p, t, full, IF full THEN r \cup {TRUE} ELSE r)

Init ==
  /\ best = Known /\ tip = 0 /\ orphans = {} /\ synced = FALSE /\ resetting = FALSE
  /\ checkpoints = TRUE
  /\ headers = [first |-> 0, last |-> 0, next |-> 0, target |-> NextTip(0)]
  /\ link = [p \in Peer |-> "none"] /\ load = None
  /\ syncing = {} /\ asking = {}
  /\ asked = [p \in Peer |-> {}] /\ blockMap = {}
  /\ half = [p \in Peer |-> {}] /\ compactBlocks = {}
  /\ wire = [p \in Peer |-> <<>>] /\ cont = [p \in Peer |-> 0]
  /\ job = [p \in Peer |-> Idle] /\ items = {} /\ lock = <<>> /\ adding = FALSE
  /\ resync = {} /\ refill = TRUE
  /\ closes = 0 /\ resets = 0
  /\ blamed = FALSE /\ disturbed = FALSE /\ crowded = FALSE

\* fillOutbound: addLoader takes a peer there is or dials one, then addOutbound
\* dials the rest.  An address is dialled again once its old packet is handled.
Fill ==
  /\ refill
  /\ LET there == {p \in Peer : link[p] # "none"}
         free == {p \in Peer \ there : job[p] = Idle}
     IN /\ there \cup free # {}
        /\ refill' = (there \cup free # Peer)
        /\ link' = [p \in Peer |-> IF p \in free THEN "connecting" ELSE link[p]]
        /\ IF load # None THEN UNCHANGED <<load, syncing, asking>>
           ELSE \E l \in IF there # {} THEN there ELSE free :
                  /\ load' = l
                  /\ IF Syncable(l, l) /\ l \notin syncing
                     THEN syncing' = syncing \cup {l} /\ asking' = asking \cup {l}
                     ELSE UNCHANGED <<syncing, asking>>
  /\ UNCHANGED <<chain, header, requests, handling, remote, resync, bounds, history>>

\* handleOpen: a loader that is not there yet gives way.
Open(p) ==
  /\ link[p] = "connecting"
  /\ link' = [link EXCEPT ![p] = "up"]
  /\ LET l == IF load # None /\ link[load] = "up" THEN load ELSE p
     IN /\ load' = l
        /\ IF p = l \/ synced
           THEN syncing' = syncing \cup {p} /\ asking' = asking \cup {p}
           ELSE UNCHANGED <<syncing, asking>>
  /\ UNCHANGED <<chain, header, requests, handling, remote, resync, refill, bounds, history>>

\* sendSync has its locator.
SendSync(p) ==
  /\ p \in asking /\ ~adding /\ ~resetting
  /\ asking' = asking \ {p}
  /\ IF Syncable(p, load) THEN Located({p}) ELSE UNCHANGED remote
  /\ UNCHANGED <<chain, header, requests, link, load, syncing, handling, resync, refill,
                 bounds, history>>

\* resync has its.
Resync(force) ==
  /\ force \in resync /\ ~adding /\ ~resetting
  /\ resync' = resync \ {force}
  /\ LET to == {p \in Peer : Syncable(p, load) /\ (force \/ p \notin syncing)}
     IN /\ syncing' = syncing \cup to
        /\ Located(to)
  /\ UNCHANGED <<chain, header, requests, link, load, asking, handling, refill, bounds,
                 history>>

----------------------------------------------------------------------------
\* Reading packets, one of each peer at a time.

Read(p, kinds) ==
  /\ link[p] = "up" /\ job[p] = Idle
  /\ wire[p] # <<>> /\ Head(wire[p]).kind \in kinds

Lock(p, m) == job' = [job EXCEPT ![p] = m] /\ lock' = Append(lock, p)

Unlock(p) ==
  /\ job' = [job EXCEPT ![p] = Idle] /\ items' = {}
  /\ lock' = Tail(lock) /\ adding' = FALSE

\* headers, inv and block wait for the lock.
Receive(p) ==
  /\ Read(p, {"headers", "inv", "block"})
  /\ Lock(p, Head(wire[p]))
  /\ wire' = [wire EXCEPT ![p] = Tail(@)]
  /\ UNCHANGED <<chain, header, requests, peers, items, adding, cont, resync, refill,
                 bounds, history>>

\* handleCmpctBlock, of blocks that were asked for (blockMode 0), with a
\* mempool that fills the block or does not.
ReceiveCompact(p) ==
  /\ Read(p, {"cmpct"})
  /\ LET n == Head(wire[p]).from
         rest == Tail(wire[p])
     IN \/ /\ n \in compactBlocks
           /\ wire' = [wire EXCEPT ![p] = rest]
           /\ UNCHANGED <<header, requests, peers, job, lock, cont, resync, refill, history>>
        \/ /\ n \notin compactBlocks /\ n \notin asked[p]
           /\ Closed(p, tip, synced, resync) /\ blamed' = TRUE
           /\ UNCHANGED <<job, lock, disturbed, crowded>>
        \/ /\ n \in asked[p] \ compactBlocks
           /\ \/ /\ Lock(p, Packet("block", n, n))
                 /\ wire' = [wire EXCEPT ![p] = rest]
                 /\ UNCHANGED <<half, compactBlocks>>
              \/ /\ half' = [half EXCEPT ![p] = @ \cup {n}]
                 /\ compactBlocks' = compactBlocks \cup {n}
                 /\ wire' = [wire EXCEPT ![p] = rest \o <<Packet("blocktxn", n, n)>>]
                 /\ UNCHANGED <<job, lock>>
           /\ UNCHANGED <<header, asked, blockMap, peers, cont, resync, refill, history>>
  /\ UNCHANGED <<chain, items, adding, bounds>>

\* handleBlockTxn.  What an honest node sends is what was missing, so fillMissing
\* fails for none and no ban score grows.
ReceiveTxn(p) ==
  /\ Read(p, {"blocktxn"})
  /\ wire' = [wire EXCEPT ![p] = Tail(@)]
  /\ LET n == Head(wire[p]).from
     IN IF n \in half[p]
        THEN /\ half' = [half EXCEPT ![p] = @ \ {n}]
             /\ compactBlocks' = compactBlocks \ {n}
             /\ Lock(p, Packet("block", n, n))
        ELSE UNCHANGED <<half, compactBlocks, job, lock>>
  /\ UNCHANGED <<chain, header, asked, blockMap, peers, items, adding, cont, resync, refill,
                 bounds, history>>

----------------------------------------------------------------------------
\* Under the lock.

Holds(p, kind) == lock # <<>> /\ Head(lock) = p /\ job[p].kind = kind /\ ~adding

\* The packet is ignored, or its peer is gone.
Ignored(p, kind) ==
  \/ kind = "headers" /\ (~checkpoints \/ load # p)
  \/ kind = "inv" /\ (checkpoints \/ link[p] # "up" \/ (~synced /\ load # p))
  \/ kind = "block" /\ link[p] # "up"

Ignore(p) ==
  /\ Holds(p, job[p].kind) /\ Ignored(p, job[p].kind)
  /\ Unlock(p)
  /\ UNCHANGED <<chain, header, requests, peers, remote, resync, refill, bounds, history>>

\* handleHeaders.  At the checkpoint the blocks of its headers are asked for.
HandleHeaders(p) ==
  /\ Holds(p, "headers") /\ ~Ignored(p, "headers")
  /\ LET m == job[p]
         hs == [headers EXCEPT !.last = m.to, !.next = IF @ = 0 THEN m.from ELSE @]
         S == Unresolved(hs)
     IN \/ /\ m.from # headers.last + 1
           /\ Closed(p, tip, synced, resync) /\ blamed' = TRUE
           /\ UNCHANGED <<disturbed, crowded>>
        \/ /\ m.from = headers.last + 1 /\ headers.target \in m.from..m.to
           /\ crowded' = (crowded \/ headers.target - headers.first > MaxRequest)
           /\ IF TooMany(p, S)
              THEN Overrun(p, tip, synced, resync) /\ blamed' = TRUE
              ELSE /\ headers' = [hs EXCEPT !.first = @ + 1, !.next = NextLeft(hs)]
                   /\ Asked(p, S) /\ SentGetData(p, S \ blockMap)
                   /\ UNCHANGED <<checkpoints, half, compactBlocks, peers, resync, refill,
                                  blamed>>
           /\ UNCHANGED disturbed
        \/ /\ m.from = headers.last + 1 /\ headers.target \notin m.from..m.to
           /\ headers' = hs
           /\ Sent(p, GetHeaders(m.to, headers.target))
           /\ UNCHANGED <<checkpoints, requests, peers, cont, resync, refill, history>>
  /\ Unlock(p)
  /\ UNCHANGED <<chain, bounds>>

\* hasBlock: it waits for the lock, or the chain has it.
HasBlock(n) ==
  n <= tip \/ \E q \in ToSet(lock) : job[q] = Packet("block", n, n)

\* getOrphanRoot.
Root(n, os) == CHOOSE r \in os : r <= n /\ r..n \subseteq os /\ r - 1 \notin os

Leave(p, kind, n) == job' = [job EXCEPT ![p] = [@ EXCEPT !.kind = kind, !.from = n]]

\* handleBlockInv, hash by hash: an orphan is resolved, what is not there is to be
\* asked for, and the last, if it is there, is continued from.
HandleHash(p) ==
  /\ \/ Holds(p, "inv") /\ ~Ignored(p, "inv")
     \/ Holds(p, "hashes")
  /\ LET n == job[p].from
     IN /\ n <= job[p].to
        /\ IF n \in orphans THEN Leave(p, "root", n) /\ UNCHANGED items
           ELSE IF ~HasBlock(n) THEN Leave(p, "hashes", n + 1) /\ items' = items \cup {n}
           ELSE IF n = job[p].to THEN Leave(p, "more", n) /\ UNCHANGED items
           ELSE Leave(p, "hashes", n + 1) /\ UNCHANGED items
  /\ UNCHANGED <<chain, header, requests, peers, lock, adding, remote, resync, refill,
                 bounds, history>>

\* resolveOrphan has its locator: assert(root) fails for what is an orphan no more,
\* and readPacket destroys the peer.
ResolveOrphan(p) ==
  /\ Holds(p, "root") /\ ~resetting
  /\ LET n == job[p].from
     IN \/ /\ n \in orphans
           /\ Leave(p, "hashes", n + 1)
           /\ IF link[p] = "up" THEN SentGetBlocks(p, tip, Root(n, orphans))
              ELSE UNCHANGED remote
           /\ UNCHANGED <<header, requests, peers, items, lock, adding, resync, refill,
                          history>>
        \/ /\ n \notin orphans /\ link[p] = "up"
           /\ Closed(p, tip, synced, resync) /\ blamed' = TRUE
           /\ Unlock(p) /\ UNCHANGED <<disturbed, crowded>>
        \/ /\ n \notin orphans /\ link[p] # "up"
           /\ Unlock(p)
           /\ UNCHANGED <<header, requests, peers, remote, resync, refill, history>>
  /\ UNCHANGED <<chain, bounds>>

\* getBlocks has its locator.
ContinueFrom(p) ==
  /\ Holds(p, "more") /\ ~resetting
  /\ Leave(p, "hashes", job[p].from + 1)
  /\ IF link[p] = "up" THEN SentGetBlocks(p, job[p].from, NoStop) ELSE UNCHANGED remote
  /\ UNCHANGED <<chain, header, requests, peers, items, lock, adding, resync, refill, bounds,
                 history>>

\* No hash is left: getBlock, unless the peer is gone.
RequestItems(p) ==
  /\ Holds(p, "hashes") /\ job[p].from > job[p].to
  /\ \/ /\ link[p] = "up" /\ TooMany(p, items)
        /\ Overrun(p, tip, synced, resync) /\ blamed' = TRUE /\ crowded' = TRUE
        /\ UNCHANGED disturbed
     \/ /\ link[p] = "up" /\ ~TooMany(p, items)
        /\ Asked(p, items) /\ SentGetData(p, items \ blockMap)
        /\ UNCHANGED <<header, half, compactBlocks, peers, resync, refill, history>>
     \/ /\ link[p] # "up"
        /\ UNCHANGED <<header, requests, peers, remote, resync, refill, history>>
  /\ Unlock(p)
  /\ UNCHANGED <<chain, bounds>>

\* _addBlock, up to chain.add.
AddBlock(p) ==
  /\ Holds(p, "block") /\ ~Ignored(p, "block")
  /\ LET n == job[p].from
     IN IF n \in asked[p]
        THEN /\ Resolved(p, n) /\ adding' = TRUE
             /\ UNCHANGED <<header, half, compactBlocks, peers, job, items, lock, remote,
                            resync, refill, history>>
        ELSE /\ Closed(p, tip, synced, resync) /\ blamed' = TRUE
             /\ Unlock(p) /\ UNCHANGED <<disturbed, crowded>>
  /\ UNCHANGED <<chain, bounds>>

\* The chain after chain.add: n connects with the orphans on it.
Connected(n) == Max({m \in n..Top : (n + 1)..m \subseteq orphans})

\* resolveChain, after n was connected and the chain is at t.  r: as in Closed.
ResolveChain(p, n, t, full, r) ==
  IF ~checkpoints \/ load # p
  THEN /\ resync' = r
       /\ UNCHANGED <<header, requests, peers, remote, refill, history>>
  ELSE IF n # headers.first
  THEN Closed(p, t, full, r) /\ blamed' = TRUE /\ UNCHANGED <<disturbed, crowded>>
  ELSE IF n \notin {LastCheckpoint, headers.target} /\ TooMany(p, Unresolved(headers))
  THEN Overrun(p, t, full, r) /\ blamed' = TRUE /\ UNCHANGED <<disturbed, crowded>>
  ELSE /\ IF n = LastCheckpoint
          THEN /\ checkpoints' = FALSE /\ headers' = NoHeaders
               /\ SentGetBlocks(p, n, NoStop)
               /\ UNCHANGED <<asked, blockMap>>
          ELSE IF n = headers.target
          THEN /\ headers' = [headers EXCEPT !.target = NextTip(n)]
               /\ Sent(p, GetHeaders(n, NextTip(n)))
               /\ UNCHANGED <<checkpoints, asked, blockMap, cont>>
          ELSE /\ headers' = [headers EXCEPT !.first = @ + 1, !.next = NextLeft(headers)]
               /\ Asked(p, Unresolved(headers))
               /\ SentGetData(p, Unresolved(headers) \ blockMap)
               /\ UNCHANGED checkpoints
       /\ resync' = r
       /\ UNCHANGED <<half, compactBlocks, peers, refill, history>>

\* The rest of _addBlock.
AddedBlock(p) ==
  /\ adding /\ ~resetting /\ Head(lock) = p
  /\ LET n == job[p].from
         t == Connected(n)
         full == synced \/ t >= Recent
     IN \/ /\ n <= tip \/ n \in orphans     \* duplicate
           /\ Unlock(p)
           /\ UNCHANGED <<chain, header, requests, peers, remote, resync, refill, history>>
        \/ /\ n = tip + 1
           /\ tip' = t /\ orphans' = orphans \ n..t /\ synced' = full
           /\ ResolveChain(p, n, t, full,
                           IF full /\ ~synced THEN resync \cup {FALSE} ELSE resync)
           /\ Unlock(p)
           /\ UNCHANGED resetting
        \/ /\ n > tip + 1 /\ n \notin orphans
           /\ orphans' = orphans \cup {n}
           /\ IF checkpoints THEN Unlock(p)
              ELSE Leave(p, "root", n) /\ adding' = FALSE /\ UNCHANGED <<items, lock>>
           /\ UNCHANGED <<tip, synced, resetting, header, requests, peers, remote, resync,
                          refill, history>>
  /\ UNCHANGED bounds

----------------------------------------------------------------------------
\* The network, the timers and the user.

\* A block is found, and announced.
Mine ==
  /\ best < Top
  /\ best' = best + 1
  /\ wire' = [p \in Peer |->
                wire[p] \o (IF link[p] = "up"
                            THEN <<Packet("inv", best + 1, best + 1)>> ELSE <<>>)]
  /\ UNCHANGED <<chain, header, requests, peers, handling, cont, resync, refill, closes,
                 resets, history>>

\* A connection is lost, or fails.
Close(p) ==
  /\ link[p] # "none" /\ closes < MaxCloses
  /\ closes' = closes + 1
  /\ Closed(p, tip, synced, resync)
  /\ disturbed' = (disturbed \/ (load = p /\ checkpoints /\ adding))
  /\ UNCHANGED <<chain, handling, best, resets, blamed, crowded>>

\* maybeTimeout: a loader that sends nothing, or a block that does not come.
Stall(p) ==
  /\ link[p] = "up" /\ wire[p] = <<>> /\ job[p] = Idle /\ p \notin asking
  /\ \/ load = p /\ p \in syncing /\ ~synced
     \/ synced /\ asked[p] # {}
  /\ Closed(p, tip, synced, resync)
  /\ UNCHANGED <<chain, handling, bounds, history>>

\* chain.reset, up to the `reset' event and what the pool does on it.  A reset that
\* gets the lock of the chain before a block that waits for it comes before AddBlock.
Reset(h) ==
  /\ ~adding /\ ~resetting /\ resets < MaxResets /\ h < tip
  /\ resets' = resets + 1
  /\ tip' = h /\ synced' = FALSE /\ resetting' = TRUE
  /\ IF checkpoints THEN ResetChain(h) ELSE UNCHANGED header
  /\ disturbed' = (disturbed \/ checkpoints)
  /\ resync' = resync \cup {TRUE}
  /\ UNCHANGED <<orphans, requests, peers, handling, remote, refill, best, closes, blamed,
                 crowded>>

\* The rest of it: purgeOrphans and maybeSync.
PurgeOrphans ==
  /\ resetting /\ resetting' = FALSE
  /\ orphans' = {}
  /\ synced' = (tip >= Recent)
  /\ resync' = IF tip >= Recent THEN resync \cup {FALSE} ELSE resync
  /\ disturbed' = (disturbed \/ \E p \in Peer : job[p].kind = "root")
  /\ UNCHANGED <<tip, header, requests, peers, handling, remote, refill, bounds, blamed,
                 crowded>>

----------------------------------------------------------------------------
Handle(p) ==
  \/ Open(p) \/ SendSync(p)
  \/ Receive(p) \/ ReceiveCompact(p) \/ ReceiveTxn(p)
  \/ Ignore(p) \/ HandleHeaders(p)
  \/ HandleHash(p) \/ ResolveOrphan(p) \/ ContinueFrom(p) \/ RequestItems(p)
  \/ AddBlock(p) \/ AddedBlock(p)

Next ==
  \/ Fill \/ Mine \/ PurgeOrphans
  \/ \E p \in Peer : Handle(p) \/ Close(p) \/ Stall(p)
  \/ \E force \in BOOLEAN : Resync(force)
  \/ \E h \in ResetTo : Reset(h)

Spec == Init /\ [][Next]_vars

\* Sockets are read, locks are taken in turn and timers go off.
FairSpec ==
  /\ Spec
  /\ WF_vars(Fill) /\ WF_vars(PurgeOrphans)
  /\ \A force \in BOOLEAN : WF_vars(Resync(force))
  /\ \A p \in Peer : WF_vars(Handle(p)) /\ WF_vars(Stall(p))

----------------------------------------------------------------------------
\* Properties.

\* A block is asked of one peer at a time and reassembled from one, and the maps
\* of the pool are those of its peers together: what resolveBlock, removePeer and
\* handleBlockTxn assert, whoever closes while his blocks are under way.
Together(map, of) ==
  /\ map = UNION {of[p] : p \in Peer}
  /\ \A p, q \in Peer : p # q => of[p] \cap of[q] = {}

RequestsAgree == Together(blockMap, asked) /\ Together(compactBlocks, half)

\* No handler destroys a peer that keeps to the protocol, unless the headers were
\* reset while its answers were on the way, the orphans were purged under it, or
\* there is more to ask it for than getBlock allows.
HonestKept == blamed => disturbed \/ crowded

\* The chain comes to what the network has and stays there, whatever
\* connections are lost and however it is reset.
CatchesUp == <>[](tip = best)
=============================================================================
