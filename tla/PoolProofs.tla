----------------------------- MODULE PoolProofs -----------------------------
(***************************************************************************)
(* Proofs about the pool, for any peers, checkpoints and blocks, however   *)
(* many connections are lost and however often the chain is reset.         *)
(*                                                                         *)
(* RequestsAgree: each step asks one peer, hears from one peer or drops    *)
(* one, and each of the three keeps a map of the pool together with the    *)
(* maps of its peers.                                                      *)
(*                                                                         *)
(* HonestKept: a handler destroys a peer for a block that was not asked of *)
(* it, for headers that do not follow the last, for a block that is not    *)
(* the next of the headers, for more requests than there may be and for an *)
(* orphan that is none.  The first is excluded by WireInv, which says what *)
(* may be on the wire of a peer and under the lock, and the last by        *)
(* RootInv; the others, while the checkpoints are synced and nothing was   *)
(* reset under them, by Syncing, which says where the loader and the       *)
(* headers are and how many blocks are asked for.                          *)
(***************************************************************************)
EXTENDS Pool, TLAPS, FiniteSetTheorems, SequenceTheorems, WellFoundedInduction

\* The maps of the peers are functions of them.
Maps == asked = [p \in Peer |-> asked[p]] /\ half = [p \in Peer |-> half[p]]

IInv == Maps /\ RequestsAgree

----------------------------------------------------------------------------
\* Lemmas on a map m of the pool and the maps f of its peers.

\* What is in no map may be added to one (getBlock, handleCmpctBlock).
LEMMA TogetherAdd ==
  ASSUME NEW m, NEW f, f = [q \in Peer |-> f[q]], NEW p \in Peer, NEW S,
         Together(m, f)
  PROVE  Together(m \cup S, [f EXCEPT ![p] = @ \cup (S \ m)])
<1> DEFINE g == [f EXCEPT ![p] = @ \cup (S \ m)]
<1>1. \A q \in Peer : g[q] = IF q = p THEN f[q] \cup (S \ m) ELSE f[q]
  OBVIOUS
<1>2. m \cup S = UNION {g[q] : q \in Peer}
  BY <1>1 DEF Together
<1>3. \A q \in Peer : f[q] \subseteq m
  BY DEF Together
<1>4. \A q, r \in Peer : q # r => g[q] \cap g[r] = {}
  BY <1>1, <1>3 DEF Together
<1> QED
  BY <1>2, <1>4 DEF Together

\* What leaves the map of a peer leaves that of the pool (resolveBlock,
\* removePeer, handleBlockTxn).
LEMMA TogetherRemove ==
  ASSUME NEW m, NEW f, f = [q \in Peer |-> f[q]], NEW p \in Peer, NEW S,
         S \subseteq f[p], Together(m, f)
  PROVE  Together(m \ S, [f EXCEPT ![p] = @ \ S])
<1> DEFINE g == [f EXCEPT ![p] = @ \ S]
<1>1. \A q \in Peer : g[q] = IF q = p THEN f[q] \ S ELSE f[q]
  OBVIOUS
<1>2. \A q \in Peer : g[q] = f[q] \ S
  BY <1>1 DEF Together
<1>3. m \ S = UNION {g[q] : q \in Peer}
  BY <1>2 DEF Together
<1>4. \A q, r \in Peer : q # r => g[q] \cap g[r] = {}
  BY <1>2 DEF Together
<1> QED
  BY <1>3, <1>4 DEF Together

----------------------------------------------------------------------------
\* The steps as the requests see them.

Same == UNCHANGED requests

Ask(p, S) == Asked(p, S) /\ UNCHANGED <<half, compactBlocks>>

Hear(p, n) == n \in asked[p] /\ Resolved(p, n) /\ UNCHANGED <<half, compactBlocks>>

Halve(p, n) ==
  /\ n \notin compactBlocks
  /\ half' = [half EXCEPT ![p] = @ \cup {n}] /\ compactBlocks' = compactBlocks \cup {n}
  /\ UNCHANGED <<asked, blockMap>>

Complete(p, n) ==
  /\ n \in half[p]
  /\ half' = [half EXCEPT ![p] = @ \ {n}] /\ compactBlocks' = compactBlocks \ {n}
  /\ UNCHANGED <<asked, blockMap>>

Requests(p) ==
  \/ Same \/ Removed(p)
  \/ \E S : Ask(p, S)
  \/ \E n : Hear(p, n) \/ Halve(p, n) \/ Complete(p, n)

LEMMA HandleRequests ==
  ASSUME NEW p \in Peer, Handle(p)
  PROVE  Requests(p)
<1>1. CASE Open(p)
  BY <1>1 DEF Open, Requests, Same, requests
<1>2. CASE SendSync(p)
  BY <1>2 DEF SendSync, Requests, Same, requests
<1>3. CASE Receive(p)
  BY <1>3 DEF Receive, Requests, Same, requests
<1>4. CASE ReceiveCompact(p)
  BY <1>4 DEF ReceiveCompact, Closed, Requests, Same, Halve, requests
<1>5. CASE ReceiveTxn(p)
  BY <1>5 DEF ReceiveTxn, Requests, Same, Complete, requests
<1>6. CASE Ignore(p)
  BY <1>6 DEF Ignore, Requests, Same, requests
<1>7. CASE HandleHeaders(p)
  <2>1. \A t, full, r : Overrun(p, t, full, r) \/ Closed(p, t, full, r) => Removed(p)
    BY DEF Overrun, Closed
  <2> QED
    BY <1>7, <2>1 DEF HandleHeaders, Requests, Same, Ask, requests
<1>8. CASE HandleHash(p)
  BY <1>8 DEF HandleHash, Requests, Same
<1>9. CASE ResolveOrphan(p)
  BY <1>9 DEF ResolveOrphan, Closed, Requests, Same
<1>10. CASE ContinueFrom(p)
  BY <1>10 DEF ContinueFrom, Requests, Same
<1>11. CASE RequestItems(p)
  <2>1. \A t, full, r : Overrun(p, t, full, r) => Removed(p)
    BY DEF Overrun, Closed
  <2> QED
    BY <1>11, <2>1 DEF RequestItems, Requests, Same, Ask
<1>12. CASE AddBlock(p)
  BY <1>12 DEF AddBlock, Closed, Requests, Hear
<1>13. CASE AddedBlock(p)
  <2>1. \A t, full, r : Overrun(p, t, full, r) \/ Closed(p, t, full, r) => Removed(p)
    BY DEF Overrun, Closed
  <2>2. ASSUME NEW n, NEW t, NEW full, NEW r, ResolveChain(p, n, t, full, r)
        PROVE  Requests(p)
    BY <2>1, <2>2 DEF ResolveChain, Requests, Same, Ask, requests
  <2> QED
    BY <1>13, <2>2 DEF AddedBlock, Requests, Same
<1> QED
  BY <1>1, <1>2, <1>3, <1>4, <1>5, <1>6, <1>7, <1>8, <1>9, <1>10, <1>11, <1>12, <1>13
  DEF Handle

LEMMA NextRequests ==
  ASSUME [Next]_vars
  PROVE  Same \/ \E p \in Peer : Requests(p)
<1>1. CASE Fill
  BY <1>1 DEF Fill, Same
<1>2. CASE Mine
  BY <1>2 DEF Mine, Same
<1>3. ASSUME NEW p \in Peer, Handle(p) PROVE Requests(p)
  BY <1>3, HandleRequests
<1>4. ASSUME NEW p \in Peer, Close(p) \/ Stall(p) PROVE Requests(p)
  BY <1>4 DEF Close, Stall, Closed, Requests
<1>5. ASSUME NEW force \in BOOLEAN, Resync(force) PROVE Same
  BY <1>5 DEF Resync, Same
<1>6. ASSUME NEW h \in ResetTo, Reset(h) PROVE Same
  BY <1>6 DEF Reset, Same
<1>7. CASE PurgeOrphans
  BY <1>7 DEF PurgeOrphans, Same
<1>8. CASE UNCHANGED vars
  BY <1>8 DEF vars, Same
<1> QED
  BY <1>1, <1>2, <1>3, <1>4, <1>5, <1>6, <1>7, <1>8 DEF Next

----------------------------------------------------------------------------
LEMMA IInvInit == Init => IInv
  BY DEF Init, IInv, Maps, RequestsAgree, Together

LEMMA IInvRequests ==
  ASSUME IInv, NEW p \in Peer, Requests(p)
  PROVE  IInv'
<1> USE DEF IInv, Maps, RequestsAgree
<1>1. CASE Same
  BY <1>1 DEF Same, requests, Together
<1>2. CASE Removed(p)
  <2>1. asked' = [asked EXCEPT ![p] = @ \ asked[p]] /\ blockMap' = blockMap \ asked[p]
    BY <1>2 DEF Removed
  <2>2. half' = [half EXCEPT ![p] = @ \ half[p]] /\ compactBlocks' = compactBlocks \ half[p]
    BY <1>2 DEF Removed
  <2>3. Together(blockMap', asked')
    BY <2>1, TogetherRemove
  <2>4. Together(compactBlocks', half')
    BY <2>2, TogetherRemove
  <2> QED
    BY <2>1, <2>2, <2>3, <2>4 DEF Together
<1>3. ASSUME NEW S, Ask(p, S) PROVE IInv'
  <2>1. Together(blockMap', asked')
    BY <1>3, TogetherAdd DEF Ask, Asked
  <2>2. Together(compactBlocks', half')
    BY <1>3 DEF Ask
  <2>3. Maps'
    BY <1>3 DEF Ask, Asked
  <2> QED
    BY <2>1, <2>2, <2>3
<1>4. ASSUME NEW n, Hear(p, n) PROVE IInv'
  <2>1. Together(blockMap', asked')
    BY <1>4, TogetherRemove DEF Hear, Resolved
  <2>2. Together(compactBlocks', half')
    BY <1>4 DEF Hear
  <2>3. Maps'
    BY <1>4 DEF Hear, Resolved
  <2> QED
    BY <2>1, <2>2, <2>3
<1>5. ASSUME NEW n, Halve(p, n) PROVE IInv'
  <2>1. half' = [half EXCEPT ![p] = @ \cup ({n} \ compactBlocks)]
    BY <1>5 DEF Halve
  <2>2. Together(compactBlocks', half')
    BY <1>5, <2>1, TogetherAdd DEF Halve
  <2>3. Together(blockMap', asked')
    BY <1>5 DEF Halve
  <2>4. Maps'
    BY <1>5 DEF Halve
  <2> QED
    BY <2>2, <2>3, <2>4
<1>6. ASSUME NEW n, Complete(p, n) PROVE IInv'
  <2>1. Together(compactBlocks', half')
    BY <1>6, TogetherRemove DEF Complete
  <2>2. Together(blockMap', asked')
    BY <1>6 DEF Complete
  <2>3. Maps'
    BY <1>6 DEF Complete
  <2> QED
    BY <2>1, <2>2, <2>3
<1> QED
  BY <1>1, <1>2, <1>3, <1>4, <1>5, <1>6 DEF Requests

LEMMA IInvNext == IInv /\ [Next]_vars => IInv'
<1> SUFFICES ASSUME IInv, [Next]_vars PROVE IInv'
  OBVIOUS
<1>1. CASE Same
  BY <1>1 DEF Same, requests, IInv, Maps, RequestsAgree, Together
<1>2. ASSUME NEW p \in Peer, Requests(p) PROVE IInv'
  BY <1>2, IInvRequests
<1> QED
  BY <1>1, <1>2, NextRequests

\* No block is ever asked of two peers, and the maps of the pool are those of its
\* peers together: the assertions of resolveBlock, removePeer and handleBlockTxn.
THEOREM RequestsAlwaysAgree == Spec => []RequestsAgree
<1>1. IInv => RequestsAgree
  BY DEF IInv
<1> QED
  BY IInvInit, IInvNext, <1>1, PTL DEF Spec

----------------------------------------------------------------------------
\* Lemmas on numbers.

LEMMA Least ==
  ASSUME NEW T \in SUBSET Nat, T # {}
  PROVE  \E x \in T : \A y \in T : x <= y
<1>1. IsWellFoundedOn(OpToRel(<, Nat), Nat)
  BY NatLessThanWellFounded
<1>2. PICK x \in T : \A y \in T : ~(<<y, x>> \in OpToRel(<, Nat))
  BY <1>1, WFMin
<1>3. \A y \in T : ~(y < x)
  BY <1>2 DEF OpToRel
<1> QED
  BY <1>3

LEMMA Greatest ==
  ASSUME NEW n \in Nat, NEW S \in SUBSET (0..n), S # {}
  PROVE  \E x \in S : \A y \in S : y <= x
<1> DEFINE T == {n - i : i \in S}
<1>1. PICK t \in T : \A u \in T : t <= u
  <2>1. \A i \in S : n - i \in Nat
    OBVIOUS
  <2>2. T \in SUBSET Nat /\ T # {}
    BY <2>1
  <2> HIDE DEF T
  <2> QED
    BY <2>2, Least
<1>2. PICK x \in S : t = n - x
  OBVIOUS
<1>3. \A y \in S : n - x <= n - y
  BY <1>1, <1>2
<1> QED
  BY <1>3

LEMMA MinIs ==
  ASSUME NEW T \in SUBSET Nat, T # {}
  PROVE  Min(T) \in T /\ \A y \in T : Min(T) <= y
BY Least DEF Min

LEMMA MaxIs ==
  ASSUME NEW n \in Nat, NEW T \in SUBSET (0..n), T # {}
  PROVE  Max(T) \in T /\ \A y \in T : y <= Max(T)
BY Greatest DEF Max

LEMMA Numbers ==
  /\ Top \in Nat /\ Known \in Nat /\ Recent \in Nat /\ MaxHeaders \in Nat \ {0}
  /\ MaxHashes \in Nat \ {0} /\ MaxInv \in Nat \ {0}
  /\ MaxRequest \in Nat /\ MaxInv < MaxRequest
  /\ Checkpoints \in SUBSET Nat /\ \A c \in Checkpoints : 0 < c /\ c < Recent
  /\ Checkpoints \in SUBSET (0..Recent)
BY PoolAssumption

LEMMA LastIs ==
  /\ LastCheckpoint \in Checkpoints /\ \A c \in Checkpoints : c <= LastCheckpoint
  /\ LastCheckpoint \in Nat /\ 0 < LastCheckpoint /\ LastCheckpoint < Recent
<1>1. Checkpoints # {}
  BY PoolAssumption
<1>2. LastCheckpoint \in Checkpoints /\ \A c \in Checkpoints : c <= LastCheckpoint
  BY <1>1, Numbers, MaxIs DEF LastCheckpoint
<1> QED
  BY <1>2, Numbers

LEMMA NextTipIs ==
  ASSUME NEW h \in Nat, h < LastCheckpoint
  PROVE  /\ NextTip(h) \in Checkpoints /\ NextTip(h) \in Nat /\ h < NextTip(h)
         /\ NextTip(h) <= LastCheckpoint
         /\ \A c \in Checkpoints : h < c => NextTip(h) <= c
<1> DEFINE T == {c \in Checkpoints : c > h}
<1>1. T \in SUBSET Nat /\ T # {}
  BY Numbers, LastIs
<1>2. Min(T) \in T /\ \A y \in T : Min(T) <= y
  BY <1>1, MinIs
<1> QED
  BY <1>2, Numbers, LastIs DEF NextTip

\* The checkpoint ahead stays the same until it is reached.
LEMMA NextTipSame ==
  ASSUME NEW h \in Nat, NEW n \in Nat, h < LastCheckpoint, h <= n, n < NextTip(h)
  PROVE  n < LastCheckpoint /\ NextTip(n) = NextTip(h)
<1>1. /\ NextTip(h) \in Checkpoints /\ NextTip(h) <= LastCheckpoint /\ NextTip(h) \in Nat
      /\ \A c \in Checkpoints : h < c => NextTip(h) <= c
  BY NextTipIs
<1>2. n < LastCheckpoint
  BY <1>1, LastIs
<1>3. /\ NextTip(n) \in Checkpoints /\ n < NextTip(n) /\ NextTip(n) \in Nat
      /\ \A c \in Checkpoints : n < c => NextTip(n) <= c
  BY <1>2, NextTipIs
<1> QED
  BY <1>1, <1>2, <1>3

----------------------------------------------------------------------------
\* Lemmas on sequences.

LEMMA BlocksFinite ==
  ASSUME NEW S \in SUBSET Blocks
  PROVE  S \in SUBSET Nat /\ IsFiniteSet(S)
<1>1. IsFiniteSet(1..Top)
  BY Numbers, FS_Interval
<1>2. IsFiniteSet(S)
  BY <1>1, FS_Subset DEF Blocks
<1>3. S \in SUBSET Nat
  BY Numbers DEF Blocks
<1> QED
  BY <1>2, <1>3

\* A finite set of numbers can be put in order.
Sorted(s) == \A i, j \in DOMAIN s : i < j => s[i] < s[j]

LEMMA Sortable ==
  ASSUME NEW S \in SUBSET Blocks
  PROVE  \E s \in [1..Cardinality(S) -> S] : Sorted(s)
<1>0. S \in SUBSET Nat /\ IsFiniteSet(S)
  BY BlocksFinite
<1> DEFINE Bad == {n \in Nat : \E T \in SUBSET S : Cardinality(T) = n
                                 /\ ~\E s \in [1..n -> T] : Sorted(s)}
<1>1. SUFFICES ASSUME Bad # {} PROVE FALSE
  BY <1>0, FS_CardinalityType
<1>2. PICK n \in Bad : \A m \in Bad : n <= m
  BY <1>1, Least
<1>3. PICK T \in SUBSET S : Cardinality(T) = n /\ ~\E s \in [1..n -> T] : Sorted(s)
  BY <1>2
<1>4. IsFiniteSet(T) /\ n \in Nat
  BY <1>0, <1>2, FS_Subset
<1>5. T # {}
  <2> SUFFICES ASSUME T = {} PROVE FALSE
    OBVIOUS
  <2>1. n = 0
    BY <1>3, FS_EmptySet
  <2>2. <<>> \in [1..0 -> T] /\ Sorted(<<>>)
    BY DEF Sorted
  <2> QED
    BY <1>3, <2>1, <2>2
<1>6. PICK x \in T : \A y \in T : y <= x
  <2>1. T \in SUBSET (0..Top)
    BY Numbers DEF Blocks
  <2> QED
    BY <1>5, <2>1, Numbers, Greatest
<1>7. Cardinality(T \ {x}) = n - 1 /\ Cardinality(T \ {x}) \in Nat
  BY <1>3, <1>4, <1>6, FS_RemoveElement, FS_CardinalityType
<1>8. PICK s \in [1..(n - 1) -> T \ {x}] : Sorted(s)
  <2>1. n - 1 \notin Bad
    BY <1>2, <1>4, <1>7
  <2> QED
    BY <1>7, <2>1
<1> DEFINE t == [i \in 1..n |-> IF i = n THEN x ELSE s[i]]
<1>9. t \in [1..n -> T]
  BY <1>4, <1>6, <1>8
<1>10. Sorted(t)
  <2> SUFFICES ASSUME NEW i \in 1..n, NEW j \in 1..n, i < j PROVE t[i] < t[j]
    BY DEF Sorted
  <2>1. i \in 1..(n - 1) /\ i # n
    BY <1>4
  <2>2. t[i] = s[i] /\ s[i] \in T \ {x}
    BY <1>8, <2>1
  <2>5. s[i] \in Nat /\ x \in Nat /\ s[i] <= x /\ s[i] # x
    BY <1>0, <1>6, <2>2
  <2>3. CASE j = n
    BY <2>2, <2>3, <2>5
  <2>4. CASE j # n
    BY <1>4, <1>8, <2>1, <2>2, <2>4 DEF Sorted
  <2> QED
    BY <2>3, <2>4
<1> QED
  BY <1>3, <1>9, <1>10

LEMMA InOrderIs ==
  ASSUME NEW S \in SUBSET Blocks
  PROVE  /\ InOrder(S) \in Seq(S) /\ InOrder(S) \in [1..Len(InOrder(S)) -> S]
         /\ \A i, j \in 1..Len(InOrder(S)) : i < j => InOrder(S)[i] < InOrder(S)[j]
         /\ \A n \in S : \E i \in 1..Len(InOrder(S)) : InOrder(S)[i] = n
<1>1. S \in SUBSET Nat /\ IsFiniteSet(S)
  BY BlocksFinite
<1>2. Cardinality(S) \in Nat
  BY <1>1, FS_CardinalityType
<1>3. PICK s \in [1..Cardinality(S) -> S] : Sorted(s)
  BY <1>1, Sortable
<1>4. \A t \in [1..Cardinality(S) -> S] :
        Sorted(t) => \A i, j \in 1..Cardinality(S) : i # j => t[i] # t[j]
  <2> SUFFICES ASSUME NEW t \in [1..Cardinality(S) -> S], Sorted(t),
                      NEW i \in 1..Cardinality(S), NEW j \in 1..Cardinality(S), i # j
               PROVE  t[i] # t[j]
    OBVIOUS
  <2>1. t[i] \in Nat /\ t[j] \in Nat
    BY <1>1
  <2> QED
    BY <1>2, <2>1 DEF Sorted
<1>5. s \in SetToSeqs(S)
  BY <1>3, <1>4 DEF SetToSeqs
<1>6. InOrder(S) \in SetToSeqs(S) /\ Sorted(InOrder(S))
  BY <1>3, <1>5 DEF InOrder, Sorted
<1> DEFINE o == InOrder(S)
<1>7. o \in [1..Cardinality(S) -> S] /\ o \in Seq(S) /\ Len(o) = Cardinality(S)
  BY <1>2, <1>6 DEF SetToSeqs
<1>8. o \in Injection(1..Cardinality(S), S)
  BY <1>4, <1>6, <1>7 DEF Injection, IsInjective
<1>9. o \in Surjection(1..Cardinality(S), S)
  <2>1. Cardinality(1..Cardinality(S)) = Cardinality(S)
    BY <1>2, FS_Interval
  <2> QED
    BY <1>1, <1>8, <2>1, FS_Injection
<1>10. \A n \in S : \E i \in 1..Cardinality(S) : o[i] = n
  BY <1>9 DEF Surjection
<1> QED
  BY <1>6, <1>7, <1>10 DEF Sorted

----------------------------------------------------------------------------
\* What is on a wire.

Carriers == {"block", "cmpct", "blocktxn"}
Plain(w) == \A i \in 1..Len(w) : w[i].kind = "inv"
NoCarriers(w) == \A i \in 1..Len(w) : w[i].kind \notin Carriers

\* Each packet with a block is for one of A of its own.
Distinct(w, A) ==
  \A i \in 1..Len(w) : w[i].kind \in Carriers =>
    /\ w[i].from \in A
    /\ \A j \in 1..Len(w) : w[j].kind \in Carriers /\ i # j => w[i].from # w[j].from

\* There is a full block for each of A, in order, and no headers.
InLine(w, A) ==
  /\ \A i \in 1..Len(w) :
       /\ w[i].kind \in {"inv", "block"}
       /\ w[i].kind = "block" =>
            /\ w[i].from \in A
            /\ \A j \in 1..Len(w) : w[j].kind = "block" /\ i < j => w[i].from < w[j].from
  /\ \A n \in A : \E i \in 1..Len(w) : w[i].kind = "block" /\ w[i].from = n

\* Headers follow the last there is, up to the checkpoint ahead, and once.
Follows(m, last, target) == m.from = last + 1 /\ m.from <= m.to /\ m.to <= target

Announces(w, last, target) ==
  \A i \in 1..Len(w) :
    /\ w[i].kind \in {"inv", "headers"}
    /\ w[i].kind = "headers" =>
         Follows(w[i], last, target) /\ \A j \in 1..Len(w) : w[j].kind = "headers" => j = i

LEMMA MsgNat == \A m \in Msg : m.from \in Nat /\ m.to \in Nat
BY Numbers DEF Msg, Blocks

LEMMA Joined ==
  ASSUME NEW w \in Seq(Msg), NEW s \in Seq(Msg)
  PROVE  /\ w \o s \in Seq(Msg) /\ Len(w \o s) = Len(w) + Len(s)
         /\ Len(w) \in Nat /\ Len(s) \in Nat
         /\ \A i \in 1..Len(w) : (w \o s)[i] = w[i] /\ w[i] \in Msg
         /\ \A i \in 1..Len(s) : (w \o s)[Len(w) + i] = s[i] /\ s[i] \in Msg
         /\ \A i \in 1..Len(w \o s) :
              i \in 1..Len(w) \/ \E k \in 1..Len(s) : i = Len(w) + k
<1>1. /\ w \o s \in Seq(Msg) /\ Len(w \o s) = Len(w) + Len(s)
      /\ Len(w) \in Nat /\ Len(s) \in Nat
  OBVIOUS
<1>2. \A i \in 1..Len(w) : (w \o s)[i] = w[i] /\ w[i] \in Msg
  OBVIOUS
<1>3. \A i \in 1..Len(s) : (w \o s)[Len(w) + i] = s[i] /\ s[i] \in Msg
  OBVIOUS
<1>4. ASSUME NEW i \in 1..Len(w \o s), i \notin 1..Len(w)
      PROVE  \E k \in 1..Len(s) : i = Len(w) + k
  <2>1. i - Len(w) \in 1..Len(s) /\ i = Len(w) + (i - Len(w))
    BY <1>1, <1>4
  <2> QED
    BY <2>1
<1> QED
  BY <1>1, <1>2, <1>3, <1>4

LEMMA Tailed ==
  ASSUME NEW w \in Seq(Msg), w # <<>>
  PROVE  /\ Tail(w) \in Seq(Msg) /\ Head(w) = w[1] /\ Head(w) \in Msg
         /\ Len(w) \in Nat \ {0} /\ Len(Tail(w)) = Len(w) - 1
         /\ \A i \in 1..Len(Tail(w)) : i + 1 \in 1..Len(w) /\ Tail(w)[i] = w[i + 1]
         /\ \A i \in 1..Len(w) : w[i] \in Msg
OBVIOUS

LEMMA DistinctMore ==
  ASSUME NEW w, NEW A, NEW B, Distinct(w, A), A \subseteq B
  PROVE  Distinct(w, B)
BY DEF Distinct

LEMMA DistinctJoin ==
  ASSUME NEW w \in Seq(Msg), NEW s \in Seq(Msg), NEW A, NEW B,
         Distinct(w, A), Distinct(s, B), A \cap B = {}
  PROVE  Distinct(w \o s, A \cup B)
<1> DEFINE v == w \o s
<1> HIDE DEF v
<1>1. /\ \A i \in 1..Len(w) : v[i] = w[i]
      /\ \A k \in 1..Len(s) : v[Len(w) + k] = s[k]
      /\ \A i \in 1..Len(v) : i \in 1..Len(w) \/ \E k \in 1..Len(s) : i = Len(w) + k
  BY Joined DEF v
<1>2. ASSUME NEW i \in 1..Len(v), v[i].kind \in Carriers
      PROVE  v[i].from \in A \cup B
  <2>1. CASE i \in 1..Len(w)
    BY <1>1, <1>2, <2>1 DEF Distinct
  <2>2. ASSUME NEW k \in 1..Len(s), i = Len(w) + k PROVE v[i].from \in B
    <3>1. v[i] = s[k]
      BY <1>1, <2>2
    <3> QED
      BY <1>2, <3>1 DEF Distinct
  <2> QED
    BY <1>1, <2>1, <2>2
<1>3. ASSUME NEW i \in 1..Len(v), NEW j \in 1..Len(v), i # j,
             v[i].kind \in Carriers, v[j].kind \in Carriers
      PROVE  v[i].from # v[j].from
  <2>1. CASE i \in 1..Len(w) /\ j \in 1..Len(w)
    BY <1>1, <1>3, <2>1 DEF Distinct
  <2>2. ASSUME i \in 1..Len(w), NEW k \in 1..Len(s), j = Len(w) + k
        PROVE  v[i].from # v[j].from
    BY <1>1, <1>3, <2>2 DEF Distinct
  <2>3. ASSUME j \in 1..Len(w), NEW k \in 1..Len(s), i = Len(w) + k
        PROVE  v[i].from # v[j].from
    BY <1>1, <1>3, <2>3 DEF Distinct
  <2>4. ASSUME NEW k \in 1..Len(s), i = Len(w) + k, NEW l \in 1..Len(s), j = Len(w) + l
        PROVE  v[i].from # v[j].from
    <3>1. k # l
      BY <1>3, <2>4
    <3>2. v[i] = s[k] /\ v[j] = s[l]
      BY <1>1, <2>4
    <3> QED
      BY <1>3, <3>1, <3>2 DEF Distinct
  <2> QED
    BY <1>1, <2>1, <2>2, <2>3, <2>4
<1>4. Distinct(v, A \cup B)
  BY <1>2, <1>3 DEF Distinct
<1> QED
  BY <1>4 DEF v

LEMMA PlainJoin ==
  ASSUME NEW w \in Seq(Msg), NEW s \in Seq(Msg), NoCarriers(s), NEW A, Distinct(w, A)
  PROVE  Distinct(w \o s, A)
<1>1. Distinct(s, {})
  BY DEF Distinct, NoCarriers
<1>2. Distinct(w \o s, A \cup {})
  BY <1>1, DistinctJoin
<1> QED
  BY <1>2, DistinctMore

LEMMA DistinctTail ==
  ASSUME NEW w \in Seq(Msg), w # <<>>, NEW A, Distinct(w, A)
  PROVE  /\ Distinct(Tail(w), A)
         /\ Head(w).kind \in Carriers =>
              Head(w).from \in A /\ Distinct(Tail(w), A \ {Head(w).from})
<1> DEFINE v == Tail(w)
<1> HIDE DEF v
<1>1. /\ Len(w) \in Nat \ {0} /\ Len(v) = Len(w) - 1 /\ Head(w) = w[1]
      /\ \A i \in 1..Len(v) : i + 1 \in 1..Len(w) /\ v[i] = w[i + 1]
  BY Tailed DEF v
<1>3. Distinct(v, A)
  <2>1. ASSUME NEW i \in 1..Len(v), v[i].kind \in Carriers
        PROVE  v[i].from \in A
    BY <1>1, <2>1 DEF Distinct
  <2>2. ASSUME NEW i \in 1..Len(v), NEW j \in 1..Len(v), i # j,
               v[i].kind \in Carriers, v[j].kind \in Carriers
        PROVE  v[i].from # v[j].from
    <3>1. /\ i + 1 \in 1..Len(w) /\ j + 1 \in 1..Len(w) /\ i + 1 # j + 1
          /\ v[i] = w[i + 1] /\ v[j] = w[j + 1]
      BY <1>1, <2>2
    <3> QED
      BY <2>2, <3>1 DEF Distinct
  <2> QED
    BY <2>1, <2>2 DEF Distinct
<1>4. ASSUME Head(w).kind \in Carriers
      PROVE  Head(w).from \in A /\ Distinct(v, A \ {Head(w).from})
  <2>1. 1 \in 1..Len(w) /\ \A i \in 1..Len(v) : i + 1 # 1
    BY <1>1
  <2>2. \A i \in 1..Len(v) : v[i].kind \in Carriers => v[i].from # w[1].from
    BY <1>1, <1>4, <2>1 DEF Distinct
  <2>3. Head(w).from \in A
    BY <1>1, <1>4, <2>1 DEF Distinct
  <2> QED
    BY <1>1, <1>3, <2>2, <2>3 DEF Distinct
<1> QED
  BY <1>3, <1>4 DEF v

LEMMA PacketType ==
  ASSUME NEW n \in Blocks, NEW k \in {"block", "cmpct", "blocktxn"}
  PROVE  /\ <<Packet(k, n, n)>> \in Seq(Msg) /\ Len(<<Packet(k, n, n)>>) = 1
         /\ <<Packet(k, n, n)>>[1] = Packet(k, n, n)
         /\ Distinct(<<Packet(k, n, n)>>, {n})
<1>1. Packet(k, n, n) \in Msg
  BY DEF Packet, Msg
<1>2. Packet(k, n, n).from = n
  BY DEF Packet
<1> QED
  BY <1>1, <1>2 DEF Distinct

LEMMA GetDataIs ==
  ASSUME NEW S \in SUBSET Blocks
  PROVE  /\ GetData(S) \in Seq(Msg) /\ Distinct(GetData(S), S)
         /\ (\A n \in S, c \in Compact : n # c) => InLine(GetData(S), S)
<1> DEFINE o == InOrder(S)
           g == GetData(S)
<1>1. /\ o \in Seq(S) /\ o \in [1..Len(o) -> S] /\ Len(o) \in Nat
      /\ \A i, j \in 1..Len(o) : i < j => o[i] < o[j]
      /\ \A n \in S : \E i \in 1..Len(o) : o[i] = n
  BY InOrderIs, LenProperties
<1>2. g = [i \in 1..Len(o) |-> Block(o[i])]
  BY <1>1 DEF GetData
<1> HIDE DEF o, g
<1>3. ASSUME NEW n \in Blocks
      PROVE  /\ Block(n) \in Msg /\ Block(n).from = n
             /\ Block(n).kind \in {"block", "cmpct"} /\ (n \notin Compact => Block(n).kind = "block")
  BY DEF Block, Packet, Msg
<1>4. /\ g \in Seq(Msg) /\ Len(g) = Len(o)
      /\ \A i \in 1..Len(g) : g[i] = Block(o[i]) /\ o[i] \in S /\ o[i] \in Nat
  <2>1. \A i \in 1..Len(o) : o[i] \in S /\ o[i] \in Nat /\ o[i] \in Blocks
    BY <1>1, BlocksFinite
  <2>2. \A i \in 1..Len(o) : Block(o[i]) \in Msg
    BY <1>3, <2>1
  <2>3. g \in Seq(Msg) /\ Len(g) = Len(o)
    BY <1>1, <1>2, <2>2
  <2> QED
    BY <1>2, <2>1, <2>3
<1>5. Distinct(g, S)
  BY <1>1, <1>3, <1>4 DEF Distinct
<1>6. ASSUME \A n \in S, c \in Compact : n # c
      PROVE  InLine(g, S)
  <2>1. \A i \in 1..Len(g) : g[i].kind = "block" /\ g[i].from = o[i]
    BY <1>3, <1>4, <1>6
  <2> QED
    BY <1>1, <1>4, <2>1 DEF InLine
<1> QED
  BY <1>4, <1>5, <1>6 DEF g

\* The block for the least of A comes first.
LEMMA InLineTail ==
  ASSUME NEW w \in Seq(Msg), w # <<>>, NEW A, InLine(w, A)
  PROVE  /\ Head(w).kind \in {"inv", "block"}
         /\ Head(w).kind = "inv" => InLine(Tail(w), A)
         /\ Head(w).kind = "block" =>
              /\ Head(w).from \in A /\ \A n \in A : Head(w).from <= n
              /\ InLine(Tail(w), A \ {Head(w).from})
<1> DEFINE v == Tail(w)
<1> HIDE DEF v
<1>1. /\ Len(w) \in Nat \ {0} /\ Len(v) = Len(w) - 1 /\ Head(w) = w[1] /\ v \in Seq(Msg)
      /\ \A i \in 1..Len(v) : i + 1 \in 1..Len(w) /\ v[i] = w[i + 1]
      /\ \A i \in 1..Len(w) : w[i].from \in Nat
  BY Tailed, MsgNat DEF v
<1>2. ASSUME NEW i \in 1..Len(w), i # 1
      PROVE  i - 1 \in 1..Len(v) /\ v[i - 1] = w[i] /\ 1 < i
  <2>1. i - 1 \in 1..Len(v) /\ (i - 1) + 1 = i
    BY <1>1, <1>2
  <2>2. v[i - 1] = w[(i - 1) + 1]
    BY <1>1, <2>1
  <2> QED
    BY <1>1, <1>2, <2>1, <2>2
<1>3. 1 \in 1..Len(w)
  BY <1>1
<1>4. ASSUME NEW i \in 1..Len(v)
      PROVE  /\ v[i].kind \in {"inv", "block"}
             /\ v[i].kind = "block" =>
                  /\ v[i].from \in A
                  /\ \A j \in 1..Len(v) : v[j].kind = "block" /\ i < j => v[i].from < v[j].from
  <2>1. i + 1 \in 1..Len(w) /\ v[i] = w[i + 1]
    BY <1>1
  <2>2. v[i].kind \in {"inv", "block"} /\ (v[i].kind = "block" => v[i].from \in A)
    BY <2>1 DEF InLine
  <2>3. ASSUME v[i].kind = "block", NEW j \in 1..Len(v), v[j].kind = "block", i < j
        PROVE  v[i].from < v[j].from
    <3>1. j + 1 \in 1..Len(w) /\ v[j] = w[j + 1] /\ i + 1 < j + 1
      BY <1>1, <2>3
    <3> QED
      BY <2>1, <2>3, <3>1 DEF InLine
  <2> QED
    BY <2>2, <2>3
<1>5. ASSUME Head(w).kind = "inv"
      PROVE  InLine(v, A)
  <2>1. ASSUME NEW n \in A
        PROVE  \E i \in 1..Len(v) : v[i].kind = "block" /\ v[i].from = n
    <3>1. PICK i \in 1..Len(w) : w[i].kind = "block" /\ w[i].from = n
      BY DEF InLine
    <3>2. i # 1
      BY <1>1, <1>5, <3>1
    <3> QED
      BY <1>2, <3>1, <3>2
  <2> QED
    BY <1>4, <2>1 DEF InLine
<1>6. ASSUME Head(w).kind = "block"
      PROVE  /\ Head(w).from \in A /\ \A n \in A : Head(w).from <= n
             /\ InLine(v, A \ {Head(w).from})
  <2>1. Head(w).from \in A
    BY <1>1, <1>3, <1>6 DEF InLine
  <2>2. \A i \in 1..Len(w) : w[i].kind = "block" /\ i # 1 => Head(w).from < w[i].from
    <3> TAKE i \in 1..Len(w)
    <3>1. i # 1 => 1 < i
      BY <1>1
    <3> QED
      BY <1>1, <1>3, <1>6, <3>1 DEF InLine
  <2>3. ASSUME NEW n \in A
        PROVE  /\ Head(w).from <= n
               /\ n # Head(w).from => \E i \in 1..Len(v) : v[i].kind = "block" /\ v[i].from = n
    <3>1. PICK i \in 1..Len(w) : w[i].kind = "block" /\ w[i].from = n
      BY DEF InLine
    <3>2. CASE i = 1
      BY <1>1, <3>1, <3>2
    <3>3. CASE i # 1
      BY <1>1, <1>2, <1>3, <2>2, <3>1, <3>3
    <3> QED
      BY <3>2, <3>3
  <2>4. \A i \in 1..Len(v) : v[i].kind = "block" => v[i].from # Head(w).from
    <3> TAKE i \in 1..Len(v)
    <3>1. i + 1 \in 1..Len(w) /\ v[i] = w[i + 1] /\ i + 1 # 1
      BY <1>1
    <3> QED
      BY <1>1, <1>3, <2>2, <3>1
  <2> QED
    BY <1>4, <2>1, <2>3, <2>4 DEF InLine
<1>7. Head(w).kind \in {"inv", "block"}
  BY <1>1, <1>3 DEF InLine
<1> QED
  BY <1>5, <1>6, <1>7 DEF v

LEMMA InLineJoin ==
  ASSUME NEW w \in Seq(Msg), NEW s \in Seq(Msg), NEW A,
         (InLine(w, A) /\ Plain(s)) \/ (Plain(w) /\ InLine(s, A))
  PROVE  InLine(w \o s, A)
<1> DEFINE v == w \o s
<1> HIDE DEF v
<1>1. /\ \A i \in 1..Len(w) : v[i] = w[i] /\ i \in 1..Len(v)
      /\ \A k \in 1..Len(s) : v[Len(w) + k] = s[k] /\ Len(w) + k \in 1..Len(v)
      /\ \A i \in 1..Len(v) : i \in 1..Len(w) \/ \E k \in 1..Len(s) : i = Len(w) + k
      /\ Len(w) \in Nat /\ Len(s) \in Nat
  BY Joined DEF v
<1>2. \A n \in A : \E i \in 1..Len(v) : v[i].kind = "block" /\ v[i].from = n
  <2> TAKE n \in A
  <2>1. CASE InLine(w, A)
    BY <1>1, <2>1 DEF InLine
  <2>2. CASE InLine(s, A)
    <3>1. PICK k \in 1..Len(s) : s[k].kind = "block" /\ s[k].from = n
      BY <2>2 DEF InLine
    <3>2. v[Len(w) + k] = s[k] /\ Len(w) + k \in 1..Len(v)
      BY <1>1
    <3> QED
      BY <3>1, <3>2
  <2> QED
    BY <2>1, <2>2
<1>3. ASSUME InLine(w, A), Plain(s) PROVE InLine(v, A)
  <2>1. ASSUME NEW i \in 1..Len(v)
        PROVE  v[i].kind \in {"inv", "block"} /\ (v[i].kind = "block" => i \in 1..Len(w))
    <3>1. CASE i \in 1..Len(w)
      BY <1>1, <1>3, <3>1 DEF InLine
    <3>2. ASSUME NEW k \in 1..Len(s), i = Len(w) + k PROVE v[i].kind = "inv"
      BY <1>1, <1>3, <3>2 DEF Plain
    <3> QED
      BY <1>1, <3>1, <3>2
  <2>2. ASSUME NEW i \in 1..Len(v), v[i].kind = "block"
        PROVE  /\ v[i].from \in A
               /\ \A j \in 1..Len(v) : v[j].kind = "block" /\ i < j => v[i].from < v[j].from
    <3>1. i \in 1..Len(w) /\ v[i] = w[i]
      BY <1>1, <2>1, <2>2
    <3>2. ASSUME NEW j \in 1..Len(v), v[j].kind = "block", i < j
          PROVE  v[i].from < v[j].from
      <4>1. j \in 1..Len(w) /\ v[j] = w[j]
        BY <1>1, <2>1, <3>2
      <4> QED
        BY <1>3, <2>2, <3>1, <3>2, <4>1 DEF InLine
    <3>3. v[i].from \in A
      BY <1>3, <2>2, <3>1 DEF InLine
    <3> QED
      BY <3>2, <3>3
  <2> QED
    BY <1>2, <2>1, <2>2 DEF InLine
<1>4. ASSUME Plain(w), InLine(s, A) PROVE InLine(v, A)
  <2>1. ASSUME NEW i \in 1..Len(v)
        PROVE  \/ v[i].kind = "inv"
               \/ \E k \in 1..Len(s) : i = Len(w) + k /\ v[i] = s[k] /\ s[k].kind = "block"
    <3>1. CASE i \in 1..Len(w)
      BY <1>1, <1>4, <3>1 DEF Plain
    <3>2. ASSUME NEW k \in 1..Len(s), i = Len(w) + k
          PROVE  v[i] = s[k] /\ (v[i].kind = "inv" \/ s[k].kind = "block")
      <4>1. v[i] = s[k]
        BY <1>1, <3>2
      <4> QED
        BY <1>4, <4>1 DEF InLine
    <3> QED
      BY <1>1, <3>1, <3>2
  <2>2. ASSUME NEW i \in 1..Len(v), v[i].kind = "block"
        PROVE  /\ v[i].from \in A
               /\ \A j \in 1..Len(v) : v[j].kind = "block" /\ i < j => v[i].from < v[j].from
    <3>1. PICK k \in 1..Len(s) : i = Len(w) + k /\ v[i] = s[k] /\ s[k].kind = "block"
      BY <2>1, <2>2
    <3>2. v[i].from \in A
      BY <1>4, <3>1 DEF InLine
    <3>3. ASSUME NEW j \in 1..Len(v), v[j].kind = "block", i < j
          PROVE  v[i].from < v[j].from
      <4>1. PICK l \in 1..Len(s) : j = Len(w) + l /\ v[j] = s[l] /\ s[l].kind = "block"
        BY <2>1, <3>3
      <4>2. k < l
        BY <1>1, <3>1, <3>3, <4>1
      <4> QED
        BY <1>4, <3>1, <4>1, <4>2 DEF InLine
    <3> QED
      BY <3>2, <3>3
  <2>3. \A i \in 1..Len(v) : v[i].kind \in {"inv", "block"}
    BY <2>1
  <2> QED
    BY <1>2, <2>2, <2>3 DEF InLine
<1>5. InLine(v, A)
  BY <1>3, <1>4
<1> QED
  BY <1>5 DEF v

\* What is asked for later comes after what was asked for.
LEMMA InLineMore ==
  ASSUME NEW w \in Seq(Msg), NEW s \in Seq(Msg), NEW A, NEW B,
         InLine(w, A), InLine(s, B), \A a \in A, b \in B : a < b
  PROVE  InLine(w \o s, A \cup B)
<1> DEFINE v == w \o s
<1> HIDE DEF v
<1>1. /\ \A i \in 1..Len(w) : v[i] = w[i] /\ i \in 1..Len(v)
      /\ \A k \in 1..Len(s) : v[Len(w) + k] = s[k] /\ Len(w) + k \in 1..Len(v)
      /\ \A i \in 1..Len(v) : i \in 1..Len(w) \/ \E k \in 1..Len(s) : i = Len(w) + k
      /\ Len(w) \in Nat /\ Len(s) \in Nat
  BY Joined DEF v
<1>2. \A n \in A \cup B : \E i \in 1..Len(v) : v[i].kind = "block" /\ v[i].from = n
  <2>1. ASSUME NEW n \in A
        PROVE  \E i \in 1..Len(v) : v[i].kind = "block" /\ v[i].from = n
    BY <1>1, <2>1 DEF InLine
  <2>2. ASSUME NEW n \in B
        PROVE  \E i \in 1..Len(v) : v[i].kind = "block" /\ v[i].from = n
    <3>1. PICK k \in 1..Len(s) : s[k].kind = "block" /\ s[k].from = n
      BY <2>2 DEF InLine
    <3>2. v[Len(w) + k] = s[k] /\ Len(w) + k \in 1..Len(v)
      BY <1>1
    <3> QED
      BY <3>1, <3>2
  <2> QED
    BY <2>1, <2>2
<1>3. ASSUME NEW i \in 1..Len(v)
      PROVE  \/ i \in 1..Len(w) /\ v[i] = w[i]
             \/ \E k \in 1..Len(s) : i = Len(w) + k /\ v[i] = s[k]
  BY <1>1
<1>4. ASSUME NEW i \in 1..Len(v)
      PROVE  /\ v[i].kind \in {"inv", "block"}
             /\ v[i].kind = "block" => v[i].from \in A \cup B
  BY <1>3 DEF InLine
<1>5. ASSUME NEW i \in 1..Len(v), NEW j \in 1..Len(v), i < j,
             v[i].kind = "block", v[j].kind = "block"
      PROVE  v[i].from < v[j].from
  <2>1. CASE i \in 1..Len(w) /\ v[i] = w[i]
    <3>1. CASE j \in 1..Len(w) /\ v[j] = w[j]
      BY <1>5, <2>1, <3>1 DEF InLine
    <3>2. ASSUME NEW l \in 1..Len(s), j = Len(w) + l, v[j] = s[l]
          PROVE  v[i].from < v[j].from
      <4>1. v[i].from \in A /\ v[j].from \in B
        BY <1>5, <2>1, <3>2 DEF InLine
      <4> QED
        BY <4>1
    <3> QED
      BY <1>3, <3>1, <3>2
  <2>2. ASSUME NEW k \in 1..Len(s), i = Len(w) + k, v[i] = s[k]
        PROVE  v[i].from < v[j].from
    <3>1. PICK l \in 1..Len(s) : j = Len(w) + l /\ v[j] = s[l]
      <4>1. j \notin 1..Len(w)
        BY <1>1, <1>5, <2>2
      <4> QED
        BY <1>3, <4>1
    <3>2. k < l
      BY <1>1, <1>5, <2>2, <3>1
    <3> QED
      BY <1>5, <2>2, <3>1, <3>2 DEF InLine
  <2> QED
    BY <1>3, <2>1, <2>2
<1>6. InLine(v, A \cup B)
  BY <1>2, <1>4, <1>5 DEF InLine
<1> QED
  BY <1>6 DEF v

LEMMA AnnouncesTail ==
  ASSUME NEW w \in Seq(Msg), w # <<>>,
         NEW last, NEW target, Announces(w, last, target)
  PROVE  /\ Announces(Tail(w), last, target) /\ Head(w).kind \in {"inv", "headers"}
         /\ Head(w).kind = "headers" => Follows(Head(w), last, target) /\ Plain(Tail(w))
<1> DEFINE v == Tail(w)
<1> HIDE DEF v
<1>1. /\ Len(w) \in Nat \ {0} /\ Len(v) = Len(w) - 1 /\ Head(w) = w[1] /\ Len(v) \in Nat
      /\ \A i \in 1..Len(v) : i + 1 \in 1..Len(w) /\ v[i] = w[i + 1]
  BY Tailed DEF v
<1>2. 1 \in 1..Len(w)
  BY <1>1
<1>3. ASSUME NEW i \in 1..Len(v)
      PROVE  /\ v[i].kind \in {"inv", "headers"}
             /\ Head(w).kind = "headers" => v[i].kind = "inv"
             /\ v[i].kind = "headers" =>
                  Follows(v[i], last, target) /\ \A j \in 1..Len(v) : v[j].kind = "headers" => j = i
  <2>1. i + 1 \in 1..Len(w) /\ v[i] = w[i + 1] /\ i + 1 # 1
    BY <1>1
  <2>2. ASSUME v[i].kind = "headers", NEW j \in 1..Len(v), v[j].kind = "headers"
        PROVE  j = i
    <3>1. j + 1 \in 1..Len(w) /\ v[j] = w[j + 1]
      BY <1>1
    <3>2. j + 1 = i + 1
      BY <2>1, <2>2, <3>1 DEF Announces
    <3> QED
      BY <1>1, <3>2
  <2>3. v[i].kind \in {"inv", "headers"} /\ (v[i].kind = "headers" => Follows(v[i], last, target))
    BY <2>1 DEF Announces
  <2>4. Head(w).kind = "headers" => v[i].kind # "headers"
    BY <1>1, <1>2, <2>1 DEF Announces
  <2> QED
    BY <2>2, <2>3, <2>4
<1>4. Announces(v, last, target) /\ (Head(w).kind = "headers" => Plain(v))
  BY <1>3 DEF Announces, Plain
<1>5. Head(w).kind \in {"inv", "headers"} /\ (Head(w).kind = "headers" => Follows(Head(w), last, target))
  BY <1>1, <1>2 DEF Announces
<1> QED
  BY <1>4, <1>5 DEF v

LEMMA PlainParts ==
  ASSUME NEW w \in Seq(Msg), Plain(w), NEW last, NEW target
  PROVE  /\ NoCarriers(w) /\ Announces(w, last, target) /\ Distinct(w, {}) /\ InLine(w, {})
         /\ w # <<>> => Plain(Tail(w)) /\ Head(w).kind = "inv"
<1>1. NoCarriers(w) /\ Announces(w, last, target) /\ Distinct(w, {}) /\ InLine(w, {})
  BY DEF Plain, NoCarriers, Announces, Distinct, InLine, Carriers
<1>2. ASSUME w # <<>> PROVE Plain(Tail(w)) /\ Head(w).kind = "inv"
  BY <1>2, Tailed DEF Plain
<1> QED
  BY <1>1, <1>2

LEMMA PlainJoined ==
  ASSUME NEW w \in Seq(Msg), NEW s \in Seq(Msg), Plain(s), NEW last, NEW target
  PROVE  /\ Plain(w) => Plain(w \o s)
         /\ Announces(w, last, target) => Announces(w \o s, last, target)
<1> DEFINE v == w \o s
<1> HIDE DEF v
<1>1. /\ \A i \in 1..Len(w) : v[i] = w[i]
      /\ \A k \in 1..Len(s) : v[Len(w) + k] = s[k]
      /\ \A i \in 1..Len(v) : i \in 1..Len(w) \/ \E k \in 1..Len(s) : i = Len(w) + k
  BY Joined DEF v
<1>2. \A i \in 1..Len(v) : (i \in 1..Len(w) /\ v[i] = w[i]) \/ v[i].kind = "inv"
  BY <1>1 DEF Plain
<1>3. (Plain(w) => Plain(v)) /\ (Announces(w, last, target) => Announces(v, last, target))
  BY <1>2 DEF Plain, Announces
<1> QED
  BY <1>3 DEF v

LEMMA PlainTwice ==
  ASSUME NEW w \in Seq(Msg), NEW s \in Seq(Msg), Plain(w), Plain(s)
  PROVE  w \o s \in Seq(Msg) /\ Plain(w \o s)
BY PlainJoined

----------------------------------------------------------------------------
\* What remote nodes answer.

LEMMA SomeIs ==
  ASSUME NEW k \in {"headers", "inv"}, NEW a \in Nat \ {0}, NEW b \in Int, b <= Top
  PROVE  /\ Some(k, a, b) \in Seq(Msg) /\ NoCarriers(Some(k, a, b))
         /\ k = "inv" => Plain(Some(k, a, b))
         /\ \A target \in Nat : b <= target => Announces(Some(k, a, b), a - 1, target)
<1>1. CASE a <= b
  <2>1. Packet(k, a, b) \in Msg /\ Packet(k, a, b).kind = k
    BY <1>1, Numbers DEF Packet, Msg, Blocks
  <2>2. Packet(k, a, b).from = a /\ Packet(k, a, b).to = b
    BY DEF Packet
  <2>3. Some(k, a, b) = <<Packet(k, a, b)>>
    BY <1>1 DEF Some
  <2>4. /\ Some(k, a, b) \in Seq(Msg) /\ Len(Some(k, a, b)) = 1
        /\ Some(k, a, b)[1] = Packet(k, a, b)
    BY <2>1, <2>3
  <2>5. NoCarriers(Some(k, a, b)) /\ (k = "inv" => Plain(Some(k, a, b)))
    BY <2>1, <2>4 DEF NoCarriers, Plain, Carriers
  <2>6. ASSUME NEW target \in Nat, b <= target
        PROVE  Announces(Some(k, a, b), a - 1, target)
    BY <1>1, <2>1, <2>2, <2>4, <2>6 DEF Announces, Follows
  <2> QED
    BY <2>4, <2>5, <2>6
<1>2. CASE ~(a <= b)
  <2>1. Some(k, a, b) = <<>>
    BY <1>2 DEF Some
  <2> QED
    BY <2>1 DEF NoCarriers, Plain, Announces
<1> QED
  BY <1>1, <1>2

LEMMA GetHeadersIs ==
  ASSUME best \in 0..Top, NEW h \in Nat, NEW stop \in Nat
  PROVE  /\ GetHeaders(h, stop) \in Seq(Msg) /\ NoCarriers(GetHeaders(h, stop))
         /\ Announces(GetHeaders(h, stop), h, stop)
<1> DEFINE T == {stop, best, h + MaxHeaders}
<1>1. T \in SUBSET Nat /\ T # {} /\ Top \in Nat
  BY Numbers
<1>2. Min(T) \in Nat /\ Min(T) <= stop /\ Min(T) <= best
  BY <1>1, MinIs
<1> HIDE DEF T
<1>3. Min(T) <= Top /\ h + 1 \in Nat \ {0} /\ (h + 1) - 1 = h
  BY <1>1, <1>2
<1>4. GetHeaders(h, stop) = Some("headers", h + 1, Min(T))
  BY DEF GetHeaders, T
<1>5. /\ GetHeaders(h, stop) \in Seq(Msg) /\ NoCarriers(GetHeaders(h, stop))
      /\ \A target \in Nat : Min(T) <= target =>
           Announces(GetHeaders(h, stop), (h + 1) - 1, target)
  BY <1>2, <1>3, <1>4, SomeIs
<1> QED
  BY <1>2, <1>3, <1>5

LEMMA GetBlocksIs ==
  ASSUME best \in 0..Top, NEW h \in Nat, NEW stop \in Nat \ {0}
  PROVE  /\ GetBlocks(h, stop) \in Seq(Msg) /\ Plain(GetBlocks(h, stop))
         /\ \A c \in 0..best : Continued(c, h, stop) \in 0..best
<1> DEFINE T == {stop - 1, best, h + MaxHashes}
<1>1. T \in SUBSET Nat /\ T # {} /\ Top \in Nat /\ MaxHashes \in Nat
  BY Numbers
<1>2. Min(T) \in Nat /\ Min(T) <= best
  BY <1>1, MinIs
<1> HIDE DEF T
<1>3. PageEnd(h, stop) = Min(T)
  BY DEF PageEnd, T
<1>4. Min(T) <= Top /\ h + 1 \in Nat \ {0} /\ Min(T) \in Int
  BY <1>1, <1>2
<1>5. GetBlocks(h, stop) = Some("inv", h + 1, Min(T))
  BY <1>3 DEF GetBlocks
<1>6. GetBlocks(h, stop) \in Seq(Msg) /\ Plain(GetBlocks(h, stop))
  BY <1>4, <1>5, SomeIs
<1>7. ASSUME NEW c \in 0..best
      PROVE  Continued(c, h, stop) \in 0..best
  <2>1. CASE Min(T) = h + MaxHashes
    <3>1. Continued(c, h, stop) = Min(T)
      BY <1>3, <2>1 DEF Continued
    <3> QED
      BY <1>2, <3>1
  <2>2. CASE Min(T) # h + MaxHashes
    <3>1. Continued(c, h, stop) = c
      BY <1>3, <2>2 DEF Continued
    <3> QED
      BY <3>1
  <2> QED
    BY <2>1, <2>2
<1> QED
  BY <1>6, <1>7

\* What is sent for getdata, with the announcement of the tip or without.
LEMMA DeliveryIs ==
  ASSUME best \in 0..Top, NEW p \in Peer, cont[p] \in 0..best, NEW S \in SUBSET Blocks
  PROVE  /\ Delivery(p, S) \in Seq(Msg) /\ Distinct(Delivery(p, S), S)
         /\ cont[p] = 0 => Delivery(p, S) = GetData(S)
<1>1. CASE cont[p] \notin S
  <2>1. Delivery(p, S) = GetData(S)
    BY <1>1 DEF Delivery
  <2> QED
    BY <2>1, GetDataIs
<1>2. CASE cont[p] \in S
  <2> DEFINE A == {n \in S : n <= cont[p]}
             B == {n \in S : n > cont[p]}
             a == GetData(A)
             b == GetData(B)
             v == <<Packet("inv", best, best)>>
  <2>1. cont[p] # 0 /\ best \in Blocks
    BY <1>2, Numbers DEF Blocks
  <2>2. A \in SUBSET Blocks /\ B \in SUBSET Blocks
    OBVIOUS
  <2>3. A \cap B = {} /\ A \cup B = S
    <3>1. \A n \in S : n \in Nat /\ cont[p] \in Nat
      BY <1>2, Numbers DEF Blocks
    <3> QED
      BY <3>1
  <2>4. /\ a \in Seq(Msg) /\ Distinct(a, A)
        /\ b \in Seq(Msg) /\ Distinct(b, B)
    BY <2>2, GetDataIs
  <2>5. v \in Seq(Msg) /\ NoCarriers(v)
    <3>1. Packet("inv", best, best) \in Msg /\ Packet("inv", best, best).kind = "inv"
      BY <2>1 DEF Packet, Msg
    <3>2. v \in Seq(Msg) /\ Len(v) = 1 /\ v[1] = Packet("inv", best, best)
      BY <3>1
    <3> QED
      BY <3>1, <3>2 DEF NoCarriers, Carriers
  <2>6. Delivery(p, S) = (a \o v) \o b
    BY <1>2 DEF Delivery
  <2> HIDE DEF A, B, a, b, v
  <2>7. a \o v \in Seq(Msg) /\ Distinct(a \o v, A)
    BY <2>4, <2>5, PlainJoin, Joined
  <2>8. (a \o v) \o b \in Seq(Msg) /\ Distinct((a \o v) \o b, A \cup B)
    BY <2>3, <2>4, <2>7, DistinctJoin, Joined
  <2> QED
    BY <2>1, <2>3, <2>6, <2>8
<1> QED
  BY <1>1, <1>2

LEMMA LocatorIs ==
  ASSUME best \in 0..Top, tip \in 0..Top, headers.target \in Nat
  PROVE  /\ Locator \in Seq(Msg) /\ NoCarriers(Locator)
         /\ checkpoints => Announces(Locator, tip, headers.target)
<1>1. tip \in Nat /\ NoStop \in Nat \ {0}
  BY Numbers DEF NoStop
<1>2. CASE checkpoints
  BY <1>1, <1>2, GetHeadersIs DEF Locator
<1>3. CASE ~checkpoints
  <2>1. GetBlocks(tip, NoStop) \in Seq(Msg) /\ Plain(GetBlocks(tip, NoStop))
    BY <1>1, GetBlocksIs
  <2> QED
    BY <1>3, <2>1, PlainParts DEF Locator
<1> QED
  BY <1>2, <1>3

\* The line of orphans below one has a first.
LEMMA RootIs ==
  ASSUME NEW os \in SUBSET Blocks, NEW n \in os
  PROVE  Root(n, os) \in Nat \ {0}
<1> DEFINE T == {r \in os : r <= n /\ r..n \subseteq os}
<1>1. \A k \in os : k \in Nat /\ k > 0
  BY Numbers DEF Blocks
<1>2. n \in T /\ T \in SUBSET Nat
  BY <1>1
<1>3. PICK r \in T : \A k \in T : r <= k
  BY <1>2, Least
<1>4. r - 1 \notin os
  <2> SUFFICES ASSUME r - 1 \in os PROVE FALSE
    OBVIOUS
  <2>1. (r - 1)..n \subseteq os
    <3> SUFFICES ASSUME NEW k \in (r - 1)..n PROVE k \in os
      OBVIOUS
    <3>1. k = r - 1 \/ k \in r..n
      BY <1>1
    <3> QED
      BY <3>1
  <2>2. r - 1 \in T
    BY <1>1, <2>1
  <2> QED
    BY <1>1, <1>3, <2>2
<1>5. \E x \in os : x <= n /\ x..n \subseteq os /\ x - 1 \notin os
  BY <1>3, <1>4
<1>6. Root(n, os) \in os
  BY <1>5 DEF Root
<1> QED
  BY <1>1, <1>6

----------------------------------------------------------------------------
\* The invariant of the packets on their way.

Data ==
  /\ best \in 0..Top /\ tip \in 0..Top /\ orphans \subseteq Blocks
  /\ checkpoints \in BOOLEAN /\ synced \in BOOLEAN /\ resetting \in BOOLEAN
  /\ headers \in [first : Nat, last : 0..Top, next : Nat, target : Nat]
  /\ checkpoints => headers.target \in Checkpoints
  /\ link \in [Peer -> {"none", "connecting", "up"}] /\ load \in Peer \cup {None}
  /\ asked \in [Peer -> SUBSET Blocks] /\ half \in [Peer -> SUBSET Blocks]
  /\ wire \in [Peer -> Seq(Msg)] /\ cont \in [Peer -> 0..best]
  /\ syncing \subseteq Peer /\ asking \subseteq Peer

Jobs == Msg \cup Left \cup {Idle}
LeftKinds == {"hashes", "root", "more"}

Types ==
  /\ Data
  /\ adding \in BOOLEAN /\ items \subseteq Blocks
  /\ job \in [Peer -> Jobs] /\ lock \in Seq(Peer)

\* Who waits for the lock has one place in its queue, and a packet.  What is left of
\* an inv is of the holder of the lock.
LockInv ==
  /\ \A i, j \in 1..Len(lock) : i # j => lock[i] # lock[j]
  /\ \A p \in Peer : job[p] # Idle <=> \E i \in 1..Len(lock) : lock[i] = p
  /\ adding => lock # <<>> /\ job[Head(lock)].kind = "block"
  /\ \A p \in Peer : job[p].kind \in LeftKinds =>
                      lock # <<>> /\ Head(lock) = p /\ ~adding

\* An address is not dialled while a packet of its old connection waits, and the
\* loader is a peer there is.
LinkInv ==
  /\ \A p \in Peer : job[p] # Idle => link[p] # "connecting"
  /\ load # None => link[load] # "none"

\* A block of p that waits for the lock and that p was asked for.
Waits(p) == job[p].kind = "block" /\ link[p] = "up" /\ ~(adding /\ Head(lock) = p)
Pending(p) == IF Waits(p) THEN {job[p].from} ELSE {}

PeerWire(p) ==
  /\ link[p] # "up" => wire[p] = <<>>
  /\ Pending(p) \subseteq asked[p]
  /\ Distinct(wire[p], asked[p] \ Pending(p))

WireInv == \A p \in Peer : PeerWire(p)

Base == Types /\ LockInv /\ LinkInv /\ WireInv

----------------------------------------------------------------------------
\* The lock.

LEMMA IdleIsNone ==
  /\ Idle \notin Msg /\ \A m \in Msg : m # Idle
  /\ Idle \notin Left /\ \A m \in Left : m # Idle
  /\ Idle.kind = "idle" /\ Idle.kind \notin {"headers", "inv", "block"}
  /\ Idle.kind \notin LeftKinds
BY DEF Idle, Msg, Left, LeftKinds

LEMMA KindIs ==
  /\ \A m \in Msg : m.kind \notin LeftKinds
  /\ \A m \in Left :
       /\ m.kind \in LeftKinds /\ m.kind \notin {"headers", "inv", "block"}
       /\ m.from \in 1..(Top + 1) /\ m.to \in Blocks
       /\ m.kind # "hashes" => m.from \in Blocks
  /\ \A m \in Jobs :
       /\ m.kind \in LeftKinds => m \in Left
       /\ m.kind \in {"headers", "inv", "block"} => m \in Msg
BY Numbers DEF Msg, Left, LeftKinds, Jobs, Idle, Blocks

LockGrows(p) ==
  /\ job[p] = Idle /\ link[p] = "up"
  /\ \E m \in Msg : Lock(p, m)
  /\ adding' = adding /\ items' = items

LockShrinks(p) == lock # <<>> /\ Head(lock) = p /\ Unlock(p)

LockHeld(p) ==
  /\ lock # <<>> /\ Head(lock) = p /\ job[p].kind = "block"
  /\ adding' = TRUE /\ job' = job /\ lock' = lock /\ items' = items

LockKept(p) ==
  /\ lock # <<>> /\ Head(lock) = p
  /\ \E m \in Left : job' = [job EXCEPT ![p] = m]
  /\ adding' = FALSE /\ lock' = lock /\ items' \subseteq Blocks

LockSame == job' = job /\ lock' = lock /\ adding' = adding /\ items' = items

LEMMA LockStep ==
  ASSUME Types, LockInv, NEW p \in Peer,
         LockSame \/ LockGrows(p) \/ LockShrinks(p) \/ LockHeld(p) \/ LockKept(p)
  PROVE  /\ LockInv' /\ lock' \in Seq(Peer) /\ job' \in [Peer -> Jobs]
         /\ adding' \in BOOLEAN /\ items' \subseteq Blocks
         /\ \A q \in Peer \ {p} : job'[q] = job[q]
<1>0. /\ \A i, j \in 1..Len(lock) : i # j => lock[i] # lock[j]
      /\ lock \in Seq(Peer) /\ job \in [Peer -> Jobs] /\ adding \in BOOLEAN
      /\ items \subseteq Blocks
      /\ \A m \in Msg : m \in Jobs
      /\ \A m \in Left : m \in Jobs
      /\ Idle \in Jobs
  BY DEF LockInv, Types, Data, Jobs
<1>1. CASE LockSame
  BY <1>0, <1>1 DEF LockSame, LockInv
<1>2. CASE LockHeld(p)
  <2>1. /\ lock # <<>> /\ Head(lock) = p /\ job[p].kind = "block"
        /\ adding' = TRUE /\ job' = job /\ lock' = lock /\ items' = items
    BY <1>2 DEF LockHeld
  <2>2. \A q \in Peer : job[q].kind \notin LeftKinds
    BY <2>1 DEF LockInv, LeftKinds
  <2>3. LockInv'
    BY <1>0, <2>1, <2>2 DEF LockInv
  <2> QED
    BY <1>0, <2>1, <2>3
<1>3. CASE LockGrows(p)
  <2>1. PICK m \in Msg : job' = [job EXCEPT ![p] = m] /\ lock' = Append(lock, p)
    BY <1>3 DEF LockGrows, Lock
  <2>2. /\ lock' \in Seq(Peer) /\ Len(lock') = Len(lock) + 1 /\ Len(lock) \in Nat
        /\ \A i \in 1..Len(lock) : lock'[i] = lock[i] /\ i \in 1..Len(lock')
        /\ lock'[Len(lock) + 1] = p
        /\ \A i \in 1..Len(lock') : i \in 1..Len(lock) \/ i = Len(lock) + 1
        /\ Len(lock) + 1 \in 1..Len(lock')
    BY <1>0, <2>1
  <2>3. \A i \in 1..Len(lock) : lock[i] # p
    BY <1>3 DEF LockGrows, LockInv
  <2>4. \A i, j \in 1..Len(lock') : i # j => lock'[i] # lock'[j]
    <3> TAKE i, j \in 1..Len(lock')
    <3>1. CASE i \in 1..Len(lock) /\ j \in 1..Len(lock)
      BY <1>0, <2>2, <3>1
    <3>2. CASE i = Len(lock) + 1 /\ j \in 1..Len(lock)
      BY <2>2, <2>3, <3>2
    <3>3. CASE j = Len(lock) + 1 /\ i \in 1..Len(lock)
      BY <2>2, <2>3, <3>3
    <3> QED
      BY <2>2, <3>1, <3>2, <3>3
  <2>5. ASSUME NEW q \in Peer
        PROVE  job'[q] # Idle <=> \E i \in 1..Len(lock') : lock'[i] = q
    <3>1. CASE q = p
      BY <1>0, <2>1, <2>2, <3>1, IdleIsNone
    <3>2. CASE q # p
      <4>1. job'[q] = job[q]
        BY <1>0, <2>1, <3>2
      <4>2. (\E i \in 1..Len(lock') : lock'[i] = q) <=> \E i \in 1..Len(lock) : lock[i] = q
        BY <2>2, <3>2
      <4> QED
        BY <4>1, <4>2 DEF LockInv
    <3> QED
      BY <3>1, <3>2
  <2>6. adding' => lock' # <<>> /\ job'[Head(lock')].kind = "block"
    <3> SUFFICES ASSUME adding PROVE lock' # <<>> /\ job'[Head(lock')].kind = "block"
      BY <1>3 DEF LockGrows
    <3>1. lock # <<>> /\ job[Head(lock)].kind = "block"
      BY DEF LockInv
    <3>2. Head(lock') = Head(lock) /\ Head(lock) = lock[1] /\ 1 \in 1..Len(lock) /\ lock' # <<>>
      BY <1>0, <2>1, <3>1
    <3>3. Head(lock) # p /\ Head(lock) \in Peer
      BY <1>0, <2>3, <3>2
    <3> QED
      BY <1>0, <2>1, <3>1, <3>2, <3>3
  <2>7. ASSUME NEW q \in Peer, job'[q].kind \in LeftKinds
        PROVE  lock' # <<>> /\ Head(lock') = q /\ ~adding'
    <3>1. q # p
      BY <1>0, <2>1, <2>7, KindIs
    <3>2. job'[q] = job[q]
      BY <1>0, <2>1, <3>1
    <3>3. lock # <<>> /\ Head(lock) = q /\ ~adding
      BY <2>7, <3>2 DEF LockInv
    <3>4. Head(lock') = Head(lock) /\ lock' # <<>>
      BY <1>0, <2>1, <3>3
    <3> QED
      BY <1>3, <3>3, <3>4 DEF LockGrows
  <2>8. job' \in [Peer -> Jobs] /\ adding' \in BOOLEAN /\ items' \subseteq Blocks
    BY <1>0, <1>3, <2>1 DEF LockGrows
  <2>9. \A q \in Peer \ {p} : job'[q] = job[q]
    BY <1>0, <2>1
  <2>10. LockInv'
    BY <2>4, <2>5, <2>6, <2>7 DEF LockInv
  <2> QED
    BY <2>2, <2>8, <2>9, <2>10
<1>4. CASE LockShrinks(p)
  <2>1. /\ lock # <<>> /\ Head(lock) = p /\ job' = [job EXCEPT ![p] = Idle]
        /\ lock' = Tail(lock) /\ adding' = FALSE
    BY <1>4 DEF LockShrinks, Unlock
  <2>2. /\ lock' \in Seq(Peer) /\ Len(lock') = Len(lock) - 1 /\ Len(lock) \in Nat \ {0}
        /\ lock[1] = p
        /\ \A i \in 1..Len(lock') :
             /\ lock'[i] = lock[i + 1] /\ i + 1 \in 1..Len(lock) /\ i + 1 # 1
             /\ i \in Nat /\ 1 \in 1..Len(lock)
    BY <1>0, <2>1
  <2>3. \A i, j \in 1..Len(lock') : i # j => lock'[i] # lock'[j]
    <3> SUFFICES ASSUME NEW i \in 1..Len(lock'), NEW j \in 1..Len(lock'), i # j
                 PROVE  lock'[i] # lock'[j]
      OBVIOUS
    <3>1. /\ i + 1 \in 1..Len(lock) /\ j + 1 \in 1..Len(lock) /\ i + 1 # j + 1
          /\ lock'[i] = lock[i + 1] /\ lock'[j] = lock[j + 1]
      BY <2>2
    <3>2. lock[i + 1] # lock[j + 1]
      BY <1>0, <3>1
    <3> QED
      BY <3>1, <3>2
  <2>4. ASSUME NEW i \in 1..Len(lock')
        PROVE  lock'[i] # p
    <3>1. i + 1 # 1 /\ 1 \in 1..Len(lock) /\ i + 1 \in 1..Len(lock) /\ lock'[i] = lock[i + 1]
      BY <2>2
    <3>2. lock[i + 1] # lock[1]
      BY <1>0, <3>1
    <3> QED
      BY <2>2, <3>1, <3>2
  <2>5. ASSUME NEW q \in Peer
        PROVE  job'[q] # Idle <=> \E i \in 1..Len(lock') : lock'[i] = q
    <3>1. CASE q = p
      BY <1>0, <2>1, <2>4, <3>1
    <3>2. CASE q # p
      <4>1. job'[q] = job[q]
        BY <1>0, <2>1, <3>2
      <4>2. ASSUME NEW i \in 1..Len(lock), lock[i] = q
            PROVE  \E j \in 1..Len(lock') : lock'[j] = q
        <5>1. i # 1
          BY <2>2, <3>2, <4>2
        <5>2. i - 1 \in 1..Len(lock') /\ (i - 1) + 1 = i
          BY <2>2, <5>1
        <5> QED
          BY <2>2, <4>2, <5>2
      <4>3. ASSUME NEW i \in 1..Len(lock'), lock'[i] = q
            PROVE  \E j \in 1..Len(lock) : lock[j] = q
        BY <2>2, <4>3
      <4> QED
        BY <4>1, <4>2, <4>3 DEF LockInv
    <3> QED
      BY <3>1, <3>2
  <2>6. ASSUME NEW q \in Peer, job'[q].kind \in LeftKinds
        PROVE  FALSE
    <3>1. q # p
      BY <1>0, <2>1, <2>6, IdleIsNone
    <3>2. job'[q] = job[q]
      BY <1>0, <2>1, <3>1
    <3> QED
      BY <2>1, <2>6, <3>1, <3>2 DEF LockInv
  <2>7. job' \in [Peer -> Jobs] /\ adding' \in BOOLEAN /\ items' \subseteq Blocks
    BY <1>0, <1>4, <2>1 DEF LockShrinks, Unlock
  <2>8. \A q \in Peer \ {p} : job'[q] = job[q]
    BY <1>0, <2>1
  <2>9. LockInv'
    BY <2>1, <2>3, <2>5, <2>6 DEF LockInv
  <2> QED
    BY <2>2, <2>7, <2>8, <2>9
<1>5. CASE LockKept(p)
  <2>1. PICK m \in Left : job' = [job EXCEPT ![p] = m]
    BY <1>5 DEF LockKept
  <2>2. lock # <<>> /\ Head(lock) = p /\ lock' = lock /\ ~adding' /\ adding' \in BOOLEAN
        /\ items' \subseteq Blocks
    BY <1>5 DEF LockKept
  <2>3. /\ job' \in [Peer -> Jobs] /\ job'[p] = m
        /\ \A q \in Peer \ {p} : job'[q] = job[q]
    BY <1>0, <2>1
  <2>4. \E i \in 1..Len(lock) : lock[i] = p
    <3>1. Len(lock) \in Nat \ {0} /\ lock[1] = p
      BY <1>0, <2>2
    <3> QED
      BY <3>1
  <2>5. ASSUME NEW q \in Peer
        PROVE  job'[q] # Idle <=> \E i \in 1..Len(lock') : lock'[i] = q
    <3>1. CASE q = p
      BY <2>2, <2>3, <2>4, <3>1, IdleIsNone
    <3>2. CASE q # p
      BY <2>2, <2>3, <3>2 DEF LockInv
    <3> QED
      BY <3>1, <3>2
  <2>6. ASSUME NEW q \in Peer, job'[q].kind \in LeftKinds
        PROVE  q = p
    <3> SUFFICES ASSUME q # p PROVE FALSE
      OBVIOUS
    <3>1. job'[q] = job[q]
      BY <2>3
    <3> QED
      BY <2>2, <2>6, <3>1 DEF LockInv
  <2>7. LockInv'
    BY <1>0, <2>2, <2>5, <2>6 DEF LockInv
  <2> QED
    BY <1>0, <2>2, <2>3, <2>7
<1> QED
  BY <1>1, <1>2, <1>3, <1>4, <1>5

----------------------------------------------------------------------------
\* The wires, the requests and the jobs.

LockMove(p) ==
  LockSame \/ LockGrows(p) \/ LockShrinks(p) \/ LockHeld(p) \/ LockKept(p)

LEMMA PendingSame ==
  ASSUME Types, LockInv, NEW p \in Peer, NEW q \in Peer, link'[q] = link[q],
         LockSame \/ (p # q /\ LockMove(p))
  PROVE  Pending(q)' = Pending(q)
<1>1. CASE LockSame
  BY <1>1 DEF LockSame, Pending, Waits
<1>2. CASE p # q /\ LockMove(p)
  <2>1. job'[q] = job[q]
    BY <1>2, LockStep DEF LockMove
  <2>2. (adding' /\ Head(lock') = q) <=> (adding /\ Head(lock) = q)
    <3>1. CASE LockGrows(p)
      <4>1. adding' = adding
        BY <3>1 DEF LockGrows
      <4>2. CASE adding
        <5>1. lock # <<>> /\ lock \in Seq(Peer)
          BY <4>2 DEF LockInv, Types, Data
        <5>2. Head(lock') = Head(lock)
          BY <3>1, <5>1 DEF LockGrows, Lock
        <5> QED
          BY <4>1, <5>2
      <4> QED
        BY <4>1, <4>2
    <3>2. CASE LockShrinks(p)
      BY <1>2, <3>2 DEF LockShrinks, Unlock
    <3>3. CASE LockHeld(p)
      BY <1>2, <3>3 DEF LockHeld
    <3>4. CASE LockSame
      BY <3>4 DEF LockSame
    <3>5. CASE LockKept(p)
      BY <1>2, <3>5 DEF LockKept
    <3> QED
      BY <1>2, <3>1, <3>2, <3>3, <3>4, <3>5 DEF LockMove
  <2> QED
    BY <2>1, <2>2 DEF Pending, Waits
<1> QED
  BY <1>1, <1>2

LEMMA SameWire ==
  ASSUME Types, LockInv, NEW p \in Peer, NEW q \in Peer, PeerWire(q),
         LockSame \/ (p # q /\ LockMove(p)),
         link'[q] = link[q], wire'[q] = wire[q], asked'[q] = asked[q]
  PROVE  PeerWire(q)'
<1>1. Pending(q)' = Pending(q)
  BY PendingSame
<1> QED
  BY <1>1 DEF PeerWire

LEMMA LongerWire ==
  ASSUME Types, NEW q \in Peer, PeerWire(q), Pending(q)' = Pending(q),
         link'[q] = link[q], asked'[q] = asked[q],
         NEW s \in Seq(Msg), NoCarriers(s), wire'[q] = wire[q] \o s,
         link[q] = "up" \/ s = <<>>
  PROVE  PeerWire(q)'
<1>2. wire[q] \in Seq(Msg)
  BY DEF Types, Data
<1>3. Distinct(wire[q] \o s, asked[q] \ Pending(q))
  BY <1>2, PlainJoin DEF PeerWire
<1>4. link[q] # "up" => wire'[q] = <<>>
  BY <1>2 DEF PeerWire
<1> QED
  BY <1>3, <1>4 DEF PeerWire

LEMMA ClosedWire ==
  ASSUME NEW q \in Peer, link'[q] # "up", wire'[q] = <<>>
  PROVE  PeerWire(q)'
BY DEF PeerWire, Pending, Waits, Distinct

\* What removePeer leaves.
LEMMA ResetTypes ==
  ASSUME NEW t \in 0..Top, ResetChain(t)
  PROVE  /\ headers' \in [first : Nat, last : 0..Top, next : Nat, target : Nat]
         /\ checkpoints' \in BOOLEAN /\ (checkpoints' => headers'.target \in Checkpoints)
<1>1. t \in Nat /\ 0 \in 0..Top /\ LastCheckpoint \in Nat
  BY Numbers, LastIs
<1>2. CASE t < LastCheckpoint
  <2>1. NextTip(t) \in Nat /\ NextTip(t) \in Checkpoints
    BY <1>1, <1>2, NextTipIs
  <2> QED
    BY <1>1, <1>2, <2>1 DEF ResetChain
<1>3. CASE ~(t < LastCheckpoint)
  <2>1. checkpoints' \in BOOLEAN /\ ~checkpoints'
    <3>1. checkpoints' = (t < LastCheckpoint)
      BY DEF ResetChain
    <3>2. (t < LastCheckpoint) \in BOOLEAN /\ ~(t < LastCheckpoint)
      BY <1>1, <1>3
    <3> QED
      BY <3>1, <3>2, Zenon
  <2>2. headers' = NoHeaders
    BY <1>1, <1>3 DEF ResetChain
  <2> QED
    BY <1>1, <2>1, <2>2 DEF NoHeaders
<1> QED
  BY <1>2, <1>3

LEMMA ClosedTypes ==
  ASSUME Data, NEW p \in Peer, NEW t \in 0..Top, NEW full, NEW r, Closed(p, t, full, r)
  PROVE  /\ headers' \in [first : Nat, last : 0..Top, next : Nat, target : Nat]
         /\ checkpoints' \in BOOLEAN /\ (checkpoints' => headers'.target \in Checkpoints)
         /\ checkpoints' => checkpoints
         /\ link' \in [Peer -> {"none", "connecting", "up"}] /\ load' \in Peer \cup {None}
         /\ load' = None \/ (load' = load /\ load # p)
         /\ asked' \in [Peer -> SUBSET Blocks] /\ half' \in [Peer -> SUBSET Blocks]
         /\ wire' \in [Peer -> Seq(Msg)] /\ cont' \in [Peer -> 0..best]
         /\ syncing' \subseteq Peer /\ asking' \subseteq Peer
         /\ link'[p] = "none" /\ wire'[p] = <<>> /\ asked'[p] = {}
         /\ \A q \in Peer \ {p} :
              link'[q] = link[q] /\ wire'[q] = wire[q] /\ asked'[q] = asked[q]
<1>1. /\ headers' \in [first : Nat, last : 0..Top, next : Nat, target : Nat]
      /\ checkpoints' \in BOOLEAN /\ (checkpoints' => headers'.target \in Checkpoints)
      /\ checkpoints' => checkpoints
  <2>1. CASE load = p /\ checkpoints
    BY <2>1, ResetTypes DEF Closed
  <2>2. CASE ~(load = p /\ checkpoints)
    BY <2>2 DEF Closed, header, Data
  <2> QED
    BY <2>1, <2>2
<1>2. /\ link' = [link EXCEPT ![p] = "none"] /\ load' = IF load = p THEN None ELSE load
      /\ asked' = [asked EXCEPT ![p] = {}] /\ half' = [half EXCEPT ![p] = {}]
      /\ wire' = [wire EXCEPT ![p] = <<>>] /\ cont' = [cont EXCEPT ![p] = 0]
      /\ syncing' \subseteq syncing /\ asking' \subseteq asking
  BY DEF Closed, Removed
<1>3. /\ link' \in [Peer -> {"none", "connecting", "up"}] /\ link'[p] = "none"
      /\ \A q \in Peer \ {p} : link'[q] = link[q]
  BY <1>2 DEF Data
<1>4. /\ asked' \in [Peer -> SUBSET Blocks] /\ half' \in [Peer -> SUBSET Blocks]
      /\ asked'[p] = {} /\ \A q \in Peer \ {p} : asked'[q] = asked[q]
  BY <1>2 DEF Data
<1>5. <<>> \in Seq(Msg)
  OBVIOUS
<1>6. /\ wire' \in [Peer -> Seq(Msg)] /\ wire'[p] = <<>>
      /\ \A q \in Peer \ {p} : wire'[q] = wire[q]
  BY <1>2, <1>5 DEF Data
<1>7. syncing' \subseteq Peer /\ asking' \subseteq Peer /\ load' \in Peer \cup {None}
  BY <1>2 DEF Data
<1>8. cont' \in [Peer -> 0..best]
  <2>1. cont \in [Peer -> 0..best] /\ 0 \in 0..best
    BY DEF Data
  <2> QED
    BY <1>2, <2>1
<1> QED
  BY <1>1, <1>2, <1>3, <1>4, <1>6, <1>7, <1>8

\* A step for one peer.
LEMMA StepBase ==
  ASSUME Base, NEW p \in Peer, LockMove(p), Data', PeerWire(p)',
         link'[p] = "connecting" => link[p] = "connecting",
         load' # None => link'[load'] # "none",
         \A q \in Peer \ {p} :
           link'[q] = link[q] /\ wire'[q] = wire[q] /\ asked'[q] = asked[q]
  PROVE  Base'
<1>0. Types /\ LockInv /\ LinkInv /\ WireInv /\ Data
  BY DEF Base, Types
<1>1. /\ LockInv' /\ lock' \in Seq(Peer) /\ job' \in [Peer -> Jobs]
      /\ adding' \in BOOLEAN /\ items' \subseteq Blocks
      /\ \A q \in Peer \ {p} : job'[q] = job[q]
  BY <1>0, LockStep DEF LockMove
<1>2. Types'
  BY <1>1 DEF Types
<1>3. ASSUME NEW q \in Peer, q # p PROVE PeerWire(q)'
  BY <1>0, <1>3, SameWire DEF WireInv
<1>4. WireInv'
  BY <1>3 DEF WireInv
<1>5. job'[p] # Idle => link'[p] # "connecting"
  <2> SUFFICES ASSUME link[p] = "connecting" PROVE job'[p] = Idle
    OBVIOUS
  <2>1. job[p] = Idle
    BY <1>0 DEF LinkInv
  <2>2. job[p].kind # "block"
    BY <2>1, IdleIsNone
  <2>3. ~LockKept(p)
    <3> SUFFICES ASSUME LockKept(p) PROVE FALSE
      OBVIOUS
    <3>1. lock # <<>> /\ Head(lock) = p /\ lock \in Seq(Peer)
      BY <1>0 DEF LockKept, Types
    <3>2. 1 \in 1..Len(lock) /\ lock[1] = p
      BY <3>1
    <3> QED
      BY <1>0, <2>1, <3>2 DEF LockInv
  <2> QED
    BY <1>0, <2>1, <2>2, <2>3
    DEF LockMove, LockSame, LockGrows, LockHeld, LockShrinks, Unlock, Types
<1>6. \A q \in Peer : job'[q] # Idle => link'[q] # "connecting"
  BY <1>0, <1>1, <1>5 DEF LinkInv
<1>7. LinkInv'
  BY <1>6 DEF LinkInv
<1> QED
  BY <1>1, <1>2, <1>4, <1>7 DEF Base

\* A peer is closed under a step of the lock of its own.
LEMMA ClosedBase ==
  ASSUME Base, NEW p \in Peer, NEW t \in 0..Top, NEW full, NEW r, Closed(p, t, full, r),
         LockSame \/ LockShrinks(p),
         best' = best, tip' \in 0..Top, orphans' \subseteq Blocks, synced' \in BOOLEAN,
         resetting' \in BOOLEAN
  PROVE  Base'
<1>0. Data /\ LinkInv
  BY DEF Base, Types
<1>1. LockMove(p)
  BY DEF LockMove
<1>2. Data'
  BY <1>0, ClosedTypes DEF Data
<1>3. PeerWire(p)'
  BY <1>0, ClosedTypes, ClosedWire
<1>4. /\ link'[p] = "none"
      /\ load' = None \/ (load' = load /\ load # p)
      /\ \A q \in Peer \ {p} :
           link'[q] = link[q] /\ wire'[q] = wire[q] /\ asked'[q] = asked[q]
  BY <1>0, ClosedTypes
<1>5. load' # None => link'[load'] # "none"
  BY <1>0, <1>4 DEF LinkInv, Data
<1>6. link'[p] = "connecting" => link[p] = "connecting"
  BY <1>4
<1>7. \A q \in Peer \ {p} :
        link'[q] = link[q] /\ wire'[q] = wire[q] /\ asked'[q] = asked[q]
  BY <1>4
<1> QED
  BY <1>1, <1>2, <1>3, <1>5, <1>6, <1>7, StepBase

----------------------------------------------------------------------------
\* Every step keeps Base.

LEMMA BaseParts ==
  ASSUME Base
  PROVE  /\ Types /\ Data /\ LockInv /\ LinkInv
         /\ \A p \in Peer : PeerWire(p)
BY DEF Base, Types, WireInv

\* Peers at once, none of which has a packet under way that changes.
LEMMA AllBase ==
  ASSUME Base, LockSame, Data', load' # None => link'[load'] # "none",
         \A p \in Peer : link'[p] = "connecting" => link[p] = "connecting" \/ job[p] = Idle,
         \A p \in Peer : PeerWire(p)'
  PROVE  Base'
<1>1. Types /\ LockInv /\ LinkInv
  BY BaseParts
<1>2. LockInv' /\ job' = job
  BY <1>1 DEF LockSame, LockInv
<1>3. Types'
  BY <1>1 DEF LockSame, Types
<1>4. LinkInv'
  BY <1>1, <1>2 DEF LinkInv
<1> QED
  BY <1>2, <1>3, <1>4 DEF Base, WireInv

LEMMA FillBase == ASSUME Base, Fill PROVE Base'
<1>1. Types /\ Data /\ LockInv /\ LinkInv /\ \A p \in Peer : PeerWire(p)
  BY BaseParts
<1> DEFINE there == {p \in Peer : link[p] # "none"}
           free == {p \in Peer \ there : job[p] = Idle}
<1>2. /\ link' = [p \in Peer |-> IF p \in free THEN "connecting" ELSE link[p]]
      /\ LockSame
      /\ wire' = wire /\ cont' = cont /\ asked' = asked /\ half' = half /\ best' = best
      /\ chain' = chain /\ header' = header
  BY DEF Fill, LockSame, handling, remote, requests, bounds
<1>3. /\ load' \in Peer \cup {None} /\ syncing' \subseteq Peer /\ asking' \subseteq Peer
      /\ load' # None => load' \in there \cup free \/ (load' = load /\ load # None)
  <2>1. CASE load # None
    BY <1>1, <2>1 DEF Fill, Data
  <2>2. CASE load = None
    <3>1. PICK l \in IF there # {} THEN there ELSE free :
             /\ load' = l
             /\ IF Syncable(l, l) /\ l \notin syncing
                THEN syncing' = syncing \cup {l} /\ asking' = asking \cup {l}
                ELSE UNCHANGED <<syncing, asking>>
      BY <2>2 DEF Fill
    <3>2. l \in Peer /\ l \in there \cup free
      BY <3>1
    <3> QED
      BY <1>1, <3>1, <3>2 DEF Data
  <2> QED
    BY <2>1, <2>2
<1>4. \A p \in Peer : link'[p] = IF p \in free THEN "connecting" ELSE link[p]
  BY <1>2
<1>5. Data'
  <2>1. link' \in [Peer -> {"none", "connecting", "up"}]
    BY <1>1, <1>2 DEF Data
  <2> QED
    BY <1>1, <1>2, <1>3, <2>1 DEF Data, chain, header
<1>6. load' # None => link'[load'] # "none"
  BY <1>1, <1>3, <1>4 DEF LinkInv, Data
<1>7. ASSUME NEW p \in Peer PROVE PeerWire(p)'
  <2>1. CASE p \in free
    <3>1. link'[p] # "up" /\ link[p] # "up" /\ wire'[p] = <<>>
      BY <1>1, <1>2, <1>4, <2>1 DEF PeerWire
    <3> QED
      BY <3>1, ClosedWire
  <2>2. CASE p \notin free
    BY <1>1, <1>2, <1>4, <2>2, SameWire
  <2> QED
    BY <2>1, <2>2
<1> QED
  BY <1>2, <1>4, <1>5, <1>6, <1>7, AllBase

LEMMA OpenBase == ASSUME Base, NEW p \in Peer, Open(p) PROVE Base'
<1>1. Types /\ Data /\ LockInv /\ LinkInv /\ PeerWire(p)
  BY BaseParts
<1>2. /\ link[p] = "connecting" /\ link' = [link EXCEPT ![p] = "up"] /\ LockSame
      /\ wire' = wire /\ cont' = cont /\ asked' = asked /\ half' = half /\ best' = best
      /\ chain' = chain /\ header' = header
      /\ load' = p \/ (load' = load /\ load # None)
  BY DEF Open, LockSame, handling, remote, requests, bounds
<1>3. syncing' \subseteq Peer /\ asking' \subseteq Peer
  BY <1>1 DEF Open, Data
<1>4. /\ link' \in [Peer -> {"none", "connecting", "up"}] /\ link'[p] = "up"
      /\ \A q \in Peer \ {p} : link'[q] = link[q]
  BY <1>1, <1>2 DEF Data
<1>5. Data'
  BY <1>1, <1>2, <1>3, <1>4 DEF Data, chain, header
<1>6. load' # None => link'[load'] # "none"
  BY <1>1, <1>2, <1>4 DEF LinkInv, Data
<1>7. PeerWire(p)'
  <2>1. job'[p] = Idle /\ wire'[p] = <<>>
    BY <1>1, <1>2 DEF LinkInv, PeerWire, LockSame
  <2>2. Pending(p)' = {}
    BY <2>1, IdleIsNone DEF Pending, Waits
  <2> QED
    BY <1>4, <2>1, <2>2 DEF PeerWire, Distinct
<1> QED
  BY <1>2, <1>4, <1>5, <1>6, <1>7, StepBase DEF LockMove

\* What is sent, and where the node is to continue from.
LEMMA SentBlocksIs ==
  ASSUME Data, NEW p \in Peer, NEW h \in Nat, NEW stop \in Nat \ {0},
         SentGetBlocks(p, h, stop)
  PROVE  /\ Sent(p, GetBlocks(h, stop)) /\ cont' \in [Peer -> 0..best]
         /\ GetBlocks(h, stop) \in Seq(Msg) /\ NoCarriers(GetBlocks(h, stop))
<1>1. best \in 0..Top /\ cont \in [Peer -> 0..best]
  BY DEF Data
<1>2. /\ GetBlocks(h, stop) \in Seq(Msg) /\ Plain(GetBlocks(h, stop))
      /\ \A c \in 0..best : Continued(c, h, stop) \in 0..best
  BY <1>1, GetBlocksIs
<1>3. NoCarriers(GetBlocks(h, stop))
  BY <1>2, PlainParts
<1>4. /\ Sent(p, GetBlocks(h, stop))
      /\ cont' = [cont EXCEPT ![p] = Continued(@, h, stop)]
  BY DEF SentGetBlocks
<1>5. cont' \in [Peer -> 0..best]
  BY <1>1, <1>2, <1>4
<1> QED
  BY <1>2, <1>3, <1>4, <1>5

LEMMA SentDataIs ==
  ASSUME Data, NEW p \in Peer, NEW S \in SUBSET Blocks, SentGetData(p, S)
  PROVE  /\ Sent(p, Delivery(p, S)) /\ cont' \in [Peer -> 0..best]
         /\ Delivery(p, S) \in Seq(Msg) /\ Distinct(Delivery(p, S), S)
<1>1. best \in 0..Top /\ cont \in [Peer -> 0..best] /\ 0 \in 0..best
  BY DEF Data
<1>2. /\ Sent(p, Delivery(p, S))
      /\ cont' = [cont EXCEPT ![p] = IF @ \in S THEN 0 ELSE @]
  BY DEF SentGetData
<1>3. cont' \in [Peer -> 0..best]
  BY <1>1, <1>2
<1> QED
  BY <1>1, <1>2, <1>3, DeliveryIs

LEMMA LocatedIs ==
  ASSUME Data, NEW to, Located(to)
  PROVE  /\ wire' = [p \in Peer |-> wire[p] \o (IF p \in to THEN Locator ELSE <<>>)]
         /\ cont' \in [Peer -> 0..best]
<1>1. best \in 0..Top /\ cont \in [Peer -> 0..best] /\ tip \in Nat
      /\ NoStop \in Nat \ {0}
  BY Numbers DEF Data, NoStop
<1>2. \A c \in 0..best : Continued(c, tip, NoStop) \in 0..best
  BY <1>1, GetBlocksIs
<1>3. /\ wire' = [p \in Peer |-> wire[p] \o (IF p \in to THEN Locator ELSE <<>>)]
      /\ cont' = [p \in Peer |-> IF p \in to /\ ~checkpoints
                                 THEN Continued(cont[p], tip, NoStop) ELSE cont[p]]
  BY DEF Located
<1>4. cont' \in [Peer -> 0..best]
  BY <1>1, <1>2, <1>3
<1> QED
  BY <1>3, <1>4

\* What all peers send at once.
LEMMA ManyBase ==
  ASSUME Base, LockSame, link' = link, asked' = asked, load' = load,
         NEW s, \A p \in Peer :
           /\ s[p] \in Seq(Msg) /\ NoCarriers(s[p])
           /\ link[p] = "up" \/ s[p] = <<>>,
         wire' = [p \in Peer |-> wire[p] \o s[p]],
         wire' \in [Peer -> Seq(Msg)] => Data'
  PROVE  Base'
<1>1. Types /\ Data /\ LockInv /\ LinkInv /\ \A p \in Peer : PeerWire(p)
  BY BaseParts
<1>2. \A p \in Peer : wire[p] \in Seq(Msg) /\ wire[p] \o s[p] \in Seq(Msg)
  BY <1>1 DEF Data
<1>3. wire' \in [Peer -> Seq(Msg)]
  BY <1>2
<1>4. ASSUME NEW p \in Peer PROVE PeerWire(p)'
  <2>1. wire'[p] = wire[p] \o s[p]
    OBVIOUS
  <2>2. Pending(p)' = Pending(p)
    BY <1>1, PendingSame
  <2>3. s[p] \in Seq(Msg) /\ NoCarriers(s[p]) /\ (link[p] = "up" \/ s[p] = <<>>)
    OBVIOUS
  <2>4. link'[p] = link[p] /\ asked'[p] = asked[p] /\ PeerWire(p)
    BY <1>1
  <2> QED
    BY <1>1, <2>1, <2>2, <2>3, <2>4, LongerWire
<1>5. load' # None => link'[load'] # "none"
  BY <1>1 DEF LinkInv
<1>6. \A p \in Peer : link'[p] = "connecting" => link[p] = "connecting"
  OBVIOUS
<1> QED
  BY <1>3, <1>4, <1>5, <1>6, AllBase

LEMMA LocatedBase ==
  ASSUME Base, NEW to \in SUBSET Peer, Located(to), \A p \in to : link[p] = "up", LockSame,
         link' = link, asked' = asked, load' = load, half' = half, best' = best,
         chain' = chain, header' = header, syncing' \subseteq Peer, asking' \subseteq Peer
  PROVE  Base'
<1>1. Types /\ Data
  BY BaseParts
<1> DEFINE s == [p \in Peer |-> IF p \in to THEN Locator ELSE <<>>]
<1>2. /\ wire' = [p \in Peer |-> wire[p] \o (IF p \in to THEN Locator ELSE <<>>)]
      /\ cont' \in [Peer -> 0..best]
  BY <1>1, LocatedIs
<1>3. Locator \in Seq(Msg) /\ NoCarriers(Locator)
  BY <1>1, LocatorIs DEF Data
<1>4. <<>> \in Seq(Msg) /\ NoCarriers(<<>>)
  BY DEF NoCarriers
<1>5. \A p \in Peer : s[p] = IF p \in to THEN Locator ELSE <<>>
  OBVIOUS
<1>6. \A p \in Peer :
        /\ s[p] \in Seq(Msg) /\ NoCarriers(s[p])
        /\ link[p] = "up" \/ s[p] = <<>>
  BY <1>3, <1>4, <1>5
<1>7. wire' = [p \in Peer |-> wire[p] \o s[p]]
  BY <1>2, <1>5
<1>8. wire' \in [Peer -> Seq(Msg)] => Data'
  BY <1>1, <1>2 DEF Data, chain, header
<1> HIDE DEF s
<1> QED
  BY <1>6, <1>7, <1>8, ManyBase

LEMMA SendSyncBase == ASSUME Base, NEW p \in Peer, SendSync(p) PROVE Base'
<1>1. Types /\ Data /\ LockInv /\ LinkInv /\ PeerWire(p)
  BY BaseParts
<1>2. /\ link' = link /\ LockSame /\ asked' = asked /\ half' = half /\ best' = best
      /\ chain' = chain /\ header' = header /\ load' = load /\ syncing' = syncing
      /\ asking' = asking \ {p}
  BY DEF SendSync, LockSame, handling, requests, bounds
<1>3. syncing' \subseteq Peer /\ asking' \subseteq Peer
  BY <1>1, <1>2 DEF Data
<1>4. CASE Syncable(p, load)
  <2>1. Located({p}) /\ \A q \in {p} : link[q] = "up"
    BY <1>4 DEF SendSync, Syncable
  <2> QED
    BY <1>2, <1>3, <2>1, LocatedBase
<1>5. CASE ~Syncable(p, load)
  <2>1. wire' = wire /\ cont' = cont
    BY <1>5 DEF SendSync, remote
  <2>2. PeerWire(p)'
    BY <1>1, <1>2, <2>1, SameWire
  <2>3. Data'
    BY <1>1, <1>2, <2>1 DEF Data, chain, header
  <2> QED
    BY <1>1, <1>2, <2>1, <2>2, <2>3, StepBase DEF LockMove, LinkInv
<1> QED
  BY <1>4, <1>5

LEMMA ResyncBase == ASSUME Base, NEW force \in BOOLEAN, Resync(force) PROVE Base'
<1>1. Types /\ Data
  BY BaseParts
<1> DEFINE to == {p \in Peer : Syncable(p, load) /\ (force \/ p \notin syncing)}
<1>2. /\ link' = link /\ LockSame /\ asked' = asked /\ half' = half /\ best' = best
      /\ chain' = chain /\ header' = header /\ load' = load /\ syncing' = syncing \cup to
      /\ asking' = asking /\ Located(to)
  BY DEF Resync, LockSame, handling, requests, bounds
<1>3. to \subseteq Peer /\ \A p \in to : link[p] = "up"
  BY DEF Syncable
<1> HIDE DEF to
<1>4. syncing' \subseteq Peer /\ asking' \subseteq Peer
  BY <1>1, <1>2, <1>3 DEF Data
<1> QED
  BY <1>2, <1>3, <1>4, LocatedBase

LEMMA MineBase == ASSUME Base, Mine PROVE Base'
<1>1. Types /\ Data
  BY BaseParts
<1> DEFINE m == Packet("inv", best + 1, best + 1)
           s == [p \in Peer |-> IF link[p] = "up" THEN <<m>> ELSE <<>>]
<1>2. /\ link' = link /\ LockSame /\ asked' = asked /\ half' = half
      /\ best < Top /\ best' = best + 1
      /\ chain' = chain /\ header' = header /\ load' = load /\ syncing' = syncing
      /\ asking' = asking /\ cont' = cont
      /\ wire' = [p \in Peer |-> wire[p] \o (IF link[p] = "up" THEN <<m>> ELSE <<>>)]
  BY DEF Mine, LockSame, handling, requests, peers
<1>3. m \in Msg /\ m.kind = "inv" /\ best' \in 0..Top /\ cont' \in [Peer -> 0..best']
  <2>1. best \in 0..Top /\ cont \in [Peer -> 0..best] /\ Top \in Nat
    BY <1>1, Numbers DEF Data
  <2>2. 0..best \subseteq 0..(best + 1)
    BY <2>1
  <2>3. cont' \in [Peer -> 0..best']
    BY <1>2, <2>1, <2>2
  <2> QED
    BY <1>2, <2>1, <2>3 DEF Packet, Msg, Blocks
<1> HIDE DEF m
<1>4. <<m>> \in Seq(Msg) /\ NoCarriers(<<m>>)
  BY <1>3 DEF NoCarriers, Carriers
<1>5. <<>> \in Seq(Msg) /\ NoCarriers(<<>>)
  BY DEF NoCarriers
<1>6. \A p \in Peer : s[p] = IF link[p] = "up" THEN <<m>> ELSE <<>>
  OBVIOUS
<1>7. \A p \in Peer :
        /\ s[p] \in Seq(Msg) /\ NoCarriers(s[p])
        /\ link[p] = "up" \/ s[p] = <<>>
  BY <1>4, <1>5, <1>6
<1>8. wire' = [p \in Peer |-> wire[p] \o s[p]]
  BY <1>2, <1>6
<1>9. wire' \in [Peer -> Seq(Msg)] => Data'
  BY <1>1, <1>2, <1>3 DEF Data, chain, header
<1> HIDE DEF s
<1> QED
  BY <1>2, <1>7, <1>8, <1>9, ManyBase

\* A peer with no block that waits.
LEMMA NotWaiting ==
  ASSUME NEW p \in Peer
  PROVE  /\ job[p].kind # "block" => Pending(p) = {}
         /\ link[p] # "up" => Pending(p) = {}
         /\ adding /\ Head(lock) = p => Pending(p) = {}
         /\ job[p] = Idle => Pending(p) = {}
BY IdleIsNone DEF Pending, Waits

LEMMA NotWaitingThen ==
  ASSUME NEW p \in Peer
  PROVE  /\ job'[p].kind # "block" => Pending(p)' = {}
         /\ link'[p] # "up" => Pending(p)' = {}
         /\ adding' /\ Head(lock') = p => Pending(p)' = {}
         /\ job'[p] = Idle => Pending(p)' = {}
BY IdleIsNone DEF Pending, Waits

\* What Unlock and Lock leave.
LEMMA Unlocked ==
  ASSUME Types, NEW p \in Peer, lock # <<>>, Head(lock) = p, Unlock(p)
  PROVE  /\ LockShrinks(p) /\ LockMove(p) /\ job'[p] = Idle /\ Pending(p)' = {}
BY NotWaitingThen DEF LockShrinks, LockMove, Unlock, Types

LEMMA Locked ==
  ASSUME Types, NEW p \in Peer, job[p] = Idle, link[p] = "up", NEW m \in Msg, Lock(p, m),
         adding' = adding, items' = items, link' = link, LockInv
  PROVE  /\ LockGrows(p) /\ LockMove(p) /\ job'[p] = m
         /\ Pending(p)' = IF m.kind = "block" THEN {m.from} ELSE {}
<1>1. job'[p] = m /\ lock' = Append(lock, p)
  BY DEF Lock, Types
<1>2. ~(adding' /\ Head(lock') = p)
  <2> SUFFICES ASSUME adding, Head(lock') = p PROVE FALSE
    OBVIOUS
  <2>1. lock # <<>> /\ job[Head(lock)].kind = "block" /\ lock \in Seq(Peer)
    BY DEF LockInv, Types
  <2>2. Head(lock') = Head(lock)
    BY <1>1, <2>1
  <2> QED
    BY <2>1, <2>2, IdleIsNone
<1> QED
  BY <1>1, <1>2 DEF LockGrows, LockMove, Pending, Waits

\* One packet is read.
LEMMA ReadIs ==
  ASSUME Base, NEW p \in Peer, NEW kinds, Read(p, kinds)
  PROVE  /\ link[p] = "up" /\ job[p] = Idle /\ Pending(p) = {}
         /\ wire[p] \in Seq(Msg) /\ wire[p] # <<>> /\ Head(wire[p]) \in Msg
         /\ Tail(wire[p]) \in Seq(Msg) /\ Head(wire[p]).kind \in kinds
         /\ Head(wire[p]).from \in Blocks
         /\ Distinct(wire[p], asked[p]) /\ Distinct(Tail(wire[p]), asked[p])
         /\ Head(wire[p]).kind \in Carriers =>
              /\ Head(wire[p]).from \in asked[p]
              /\ Distinct(Tail(wire[p]), asked[p] \ {Head(wire[p]).from})
<1>1. PeerWire(p) /\ wire[p] \in Seq(Msg)
  BY BaseParts DEF Data
<1>2. link[p] = "up" /\ job[p] = Idle /\ wire[p] # <<>> /\ Head(wire[p]).kind \in kinds
  BY DEF Read
<1>3. Pending(p) = {}
  BY <1>2, NotWaiting
<1>4. Distinct(wire[p], asked[p])
  BY <1>1, <1>3, DistinctMore DEF PeerWire
<1>5. Tail(wire[p]) \in Seq(Msg) /\ Head(wire[p]) \in Msg
  BY <1>1, <1>2, Tailed
<1>6. Head(wire[p]).from \in Blocks
  BY <1>5 DEF Msg
<1> QED
  BY <1>1, <1>2, <1>3, <1>4, <1>5, <1>6, DistinctTail

LEMMA ReceiveBase == ASSUME Base, NEW p \in Peer, Receive(p) PROVE Base'
<1>1. Types /\ Data /\ LockInv /\ LinkInv /\ PeerWire(p)
  BY BaseParts
<1> DEFINE m == Head(wire[p])
           rest == Tail(wire[p])
<1>2. /\ Read(p, {"headers", "inv", "block"}) /\ Lock(p, m)
      /\ wire' = [wire EXCEPT ![p] = rest]
      /\ link' = link /\ asked' = asked /\ half' = half /\ best' = best
      /\ chain' = chain /\ header' = header /\ load' = load /\ syncing' = syncing
      /\ asking' = asking /\ adding' = adding /\ items' = items /\ cont' = cont
  BY DEF Receive, requests, bounds, peers
<1>3. /\ link[p] = "up" /\ job[p] = Idle /\ m \in Msg /\ rest \in Seq(Msg)
      /\ Distinct(rest, asked[p])
      /\ m.kind \in Carriers => m.from \in asked[p] /\ Distinct(rest, asked[p] \ {m.from})
  BY <1>2, ReadIs
<1> HIDE DEF m, rest
<1>4. LockMove(p) /\ Pending(p)' = IF m.kind = "block" THEN {m.from} ELSE {}
  BY <1>1, <1>2, <1>3, Locked
<1>5. /\ wire' \in [Peer -> Seq(Msg)] /\ wire'[p] = rest
      /\ \A q \in Peer \ {p} : wire'[q] = wire[q]
  BY <1>1, <1>2, <1>3 DEF Data
<1>6. PeerWire(p)'
  <2>1. Pending(p)' \subseteq asked[p] /\ Distinct(rest, asked[p] \ Pending(p)')
    BY <1>3, <1>4, DistinctMore DEF Carriers
  <2> QED
    BY <1>2, <1>3, <1>5, <2>1 DEF PeerWire
<1>7. Data'
  BY <1>1, <1>2, <1>5 DEF Data, chain, header
<1> QED
  BY <1>1, <1>2, <1>4, <1>5, <1>6, <1>7, StepBase DEF LinkInv

\* The packet is done with, becomes a block that waits, or one that is to come.
LEMMA CarrierBase ==
  ASSUME Base, NEW p \in Peer, NEW kinds, Read(p, kinds),
         link' = link, asked' = asked, load' = load, adding' = adding, items' = items,
         wire' \in [Peer -> Seq(Msg)] => Data',
         NEW n, n = Head(wire[p]).from,
         \/ LockSame /\ wire' = [wire EXCEPT ![p] = Tail(wire[p])]
         \/ /\ Lock(p, Packet("block", n, n)) /\ wire' = [wire EXCEPT ![p] = Tail(wire[p])]
            /\ Head(wire[p]).kind \in Carriers
         \/ /\ LockSame /\ Head(wire[p]).kind \in Carriers
            /\ wire' = [wire EXCEPT ![p] = Tail(wire[p]) \o <<Packet("blocktxn", n, n)>>]
  PROVE  Base'
<1>1. Types /\ Data /\ LockInv /\ LinkInv /\ PeerWire(p)
  BY BaseParts
<1> DEFINE m == Head(wire[p])
           rest == Tail(wire[p])
<1>2. /\ link[p] = "up" /\ job[p] = Idle /\ m \in Msg /\ rest \in Seq(Msg) /\ n \in Blocks
      /\ Pending(p) = {} /\ Distinct(rest, asked[p])
      /\ m.kind \in Carriers => n \in asked[p] /\ Distinct(rest, asked[p] \ {n})
  BY ReadIs
<1> HIDE DEF m, rest
<1>3. ASSUME LockMove(p), NEW w \in Seq(Msg), wire' = [wire EXCEPT ![p] = w],
             Pending(p)' \subseteq asked[p], Distinct(w, asked[p] \ Pending(p)')
      PROVE  Base'
  <2>1. /\ wire' \in [Peer -> Seq(Msg)] /\ wire'[p] = w
        /\ \A q \in Peer \ {p} : wire'[q] = wire[q]
    BY <1>1, <1>3 DEF Data
  <2>2. PeerWire(p)'
    BY <1>2, <1>3, <2>1 DEF PeerWire
  <2> QED
    BY <1>1, <1>3, <2>1, <2>2, StepBase DEF LinkInv
<1>4. CASE LockSame /\ wire' = [wire EXCEPT ![p] = rest]
  <2>1. Pending(p)' = {}
    BY <1>1, <1>2, <1>4, PendingSame
  <2>2. asked[p] \ Pending(p)' = asked[p]
    BY <2>1
  <2> QED
    BY <1>2, <1>3, <1>4, <2>1, <2>2 DEF LockMove
<1>5. CASE /\ Lock(p, Packet("block", n, n)) /\ wire' = [wire EXCEPT ![p] = rest]
           /\ m.kind \in Carriers
  <2>1. Packet("block", n, n) \in Msg /\ Packet("block", n, n).kind = "block"
        /\ Packet("block", n, n).from = n
    BY <1>2 DEF Packet, Msg
  <2>2. LockMove(p) /\ Pending(p)' = {n}
    BY <1>1, <1>2, <1>5, <2>1, Locked
  <2> QED
    BY <1>2, <1>3, <1>5, <2>2
<1>6. ASSUME LockSame, m.kind \in Carriers, 
             wire' = [wire EXCEPT ![p] = rest \o <<Packet("blocktxn", n, n)>>]
      PROVE  Base'
  <2> DEFINE one == <<Packet("blocktxn", n, n)>>
  <2>1. one \in Seq(Msg) /\ Distinct(one, {n})
    BY <1>2, PacketType
  <2> HIDE DEF one
  <2>2. rest \o one \in Seq(Msg) /\ Distinct(rest \o one, (asked[p] \ {n}) \cup {n})
    BY <1>2, <1>6, <2>1, DistinctJoin
  <2>3. Pending(p)' = {}
    BY <1>1, <1>2, <1>6, PendingSame
  <2>4. asked[p] \ Pending(p)' = (asked[p] \ {n}) \cup {n}
    BY <1>2, <1>6, <2>3
  <2>5. wire' = [wire EXCEPT ![p] = rest \o one]
    BY <1>6 DEF one
  <2> QED
    BY <1>3, <1>6, <2>2, <2>3, <2>4, <2>5 DEF LockMove
<1> QED
  BY <1>4, <1>5, <1>6 DEF m, rest

LEMMA ReceiveCompactBase == ASSUME Base, NEW p \in Peer, ReceiveCompact(p) PROVE Base'
<1>1. Types /\ Data /\ LockInv /\ LinkInv /\ PeerWire(p)
  BY BaseParts
<1> DEFINE n == Head(wire[p]).from
           rest == Tail(wire[p])
<1>2. Read(p, {"cmpct"}) /\ chain' = chain /\ adding' = adding /\ best' = best
      /\ items' = items
  BY DEF ReceiveCompact, bounds
<1>3. Head(wire[p]).kind \in Carriers /\ n \in Blocks
  BY <1>2, ReadIs DEF Carriers
<1>4. half \in [Peer -> SUBSET Blocks]
  BY <1>1 DEF Data
<1>5. CASE /\ n \in compactBlocks
           /\ wire' = [wire EXCEPT ![p] = rest]
           /\ UNCHANGED <<header, requests, peers, job, lock, cont, resync, refill, history>>
  <2>1. wire' \in [Peer -> Seq(Msg)] => Data'
    BY <1>1, <1>2, <1>5 DEF Data, chain, header, requests, peers
  <2> QED
    BY <1>2, <1>5, <2>1, CarrierBase DEF LockSame, requests, peers
<1>6. CASE /\ n \notin compactBlocks /\ n \notin asked[p]
           /\ Closed(p, tip, synced, resync) /\ blamed' = TRUE
           /\ UNCHANGED <<job, lock, disturbed, crowded>>
  <2>1. /\ tip' \in 0..Top /\ orphans' \subseteq Blocks
        /\ synced' \in BOOLEAN /\ resetting' \in BOOLEAN /\ tip \in 0..Top
    BY <1>1, <1>2 DEF Data, chain
  <2>2. LockSame
    BY <1>2, <1>6 DEF LockSame
  <2> QED
    BY <1>2, <1>6, <2>1, <2>2, ClosedBase
<1>7. ASSUME n \in asked[p] \ compactBlocks,
             UNCHANGED <<header, asked, blockMap, peers, cont, resync, refill, history>>,
             \/ /\ Lock(p, Packet("block", n, n))
                /\ wire' = [wire EXCEPT ![p] = rest]
                /\ UNCHANGED <<half, compactBlocks>>
             \/ /\ half' = [half EXCEPT ![p] = @ \cup {n}]
                /\ compactBlocks' = compactBlocks \cup {n}
                /\ wire' = [wire EXCEPT ![p] = rest \o <<Packet("blocktxn", n, n)>>]
                /\ UNCHANGED <<job, lock>>
      PROVE  Base'
  <2>1. half' \in [Peer -> SUBSET Blocks]
    BY <1>3, <1>4, <1>7
  <2>2. wire' \in [Peer -> Seq(Msg)] => Data'
    BY <1>1, <1>2, <1>7, <2>1 DEF Data, chain, header, peers
  <2>3. link' = link /\ asked' = asked /\ load' = load
    BY <1>7 DEF peers
  <2> QED
    BY <1>2, <1>3, <1>7, <2>2, <2>3, CarrierBase DEF LockSame
<1> QED
  BY <1>5, <1>6, <1>7 DEF ReceiveCompact

LEMMA ReceiveTxnBase == ASSUME Base, NEW p \in Peer, ReceiveTxn(p) PROVE Base'
<1>1. Types /\ Data /\ LockInv /\ LinkInv /\ PeerWire(p)
  BY BaseParts
<1> DEFINE n == Head(wire[p]).from
           rest == Tail(wire[p])
<1>2. /\ Read(p, {"blocktxn"}) /\ chain' = chain /\ adding' = adding /\ best' = best
      /\ link' = link /\ asked' = asked /\ load' = load /\ header' = header
      /\ syncing' = syncing /\ asking' = asking /\ items' = items /\ cont' = cont
  BY DEF ReceiveTxn, bounds, peers
<1>3. Head(wire[p]).kind \in Carriers /\ n \in Blocks
  BY <1>2, ReadIs DEF Carriers
<1>4. half \in [Peer -> SUBSET Blocks]
  BY <1>1 DEF Data
<1>5. /\ half' = half \/ half' = [half EXCEPT ![p] = @ \ {n}]
      /\ \/ LockSame /\ wire' = [wire EXCEPT ![p] = rest]
         \/ Lock(p, Packet("block", n, n)) /\ wire' = [wire EXCEPT ![p] = rest]
  BY <1>2 DEF ReceiveTxn, LockSame
<1>6. half' \in [Peer -> SUBSET Blocks]
  BY <1>3, <1>4, <1>5
<1>7. wire' \in [Peer -> Seq(Msg)] => Data'
  BY <1>1, <1>2, <1>6 DEF Data, chain, header
<1> QED
  BY <1>2, <1>3, <1>5, <1>7, CarrierBase

LEMMA IgnoreBase == ASSUME Base, NEW p \in Peer, Ignore(p) PROVE Base'
<1>1. Types /\ Data /\ LockInv /\ LinkInv /\ PeerWire(p)
  BY BaseParts
<1>2. /\ lock # <<>> /\ Head(lock) = p /\ Ignored(p, job[p].kind) /\ Unlock(p)
      /\ link' = link /\ asked' = asked /\ load' = load /\ header' = header
      /\ syncing' = syncing /\ asking' = asking /\ chain' = chain /\ wire' = wire /\ cont' = cont
      /\ best' = best /\ half' = half
  BY DEF Ignore, Holds, requests, peers, remote, bounds
<1>3. Pending(p) = {}
  BY <1>2, NotWaiting DEF Ignored
<1>4. LockMove(p) /\ Pending(p)' = {}
  BY <1>1, <1>2, Unlocked
<1>5. Data'
  BY <1>1, <1>2 DEF Data, chain, header
<1>6. PeerWire(p)'
  BY <1>1, <1>2, <1>3, <1>4 DEF PeerWire
<1> QED
  BY <1>1, <1>2, <1>4, <1>5, <1>6, StepBase DEF LinkInv

\* What is asked of p and was asked of nobody is not on its way yet.
LEMMA AskedIs ==
  ASSUME Data, RequestsAgree, NEW p \in Peer, NEW S \in SUBSET Blocks, Asked(p, S)
  PROVE  /\ asked' \in [Peer -> SUBSET Blocks] /\ asked'[p] = asked[p] \cup (S \ blockMap)
         /\ \A q \in Peer \ {p} : asked'[q] = asked[q]
         /\ asked[p] \cap (S \ blockMap) = {} /\ asked[p] \subseteq blockMap
<1>1. asked[p] \subseteq blockMap
  BY DEF RequestsAgree, Together
<1> QED
  BY <1>1 DEF Asked, Data

\* The lock is left, or kept for what is left to do.
LEMMA NotWaitingNow ==
  ASSUME Types, NEW p \in Peer, LockShrinks(p) \/ LockKept(p)
  PROVE  LockMove(p) /\ Pending(p)' = {}
<1>1. CASE LockShrinks(p)
  BY <1>1, Unlocked DEF LockShrinks
<1>2. CASE LockKept(p)
  <2>1. PICK m \in Left : job' = [job EXCEPT ![p] = m]
    BY <1>2 DEF LockKept
  <2>2. job'[p] = m
    BY <2>1 DEF Types
  <2>3. job'[p].kind # "block"
    BY <2>2, KindIs
  <2> QED
    BY <1>2, <2>3, NotWaitingThen DEF LockMove
<1> QED
  BY <1>1, <1>2

LEMMA LeaveIs ==
  ASSUME Types, NEW p \in Peer, lock # <<>>, Head(lock) = p, job[p] \in Msg \cup Left,
         NEW k \in LeftKinds, NEW n \in 1..(Top + 1), Leave(p, k, n),
         k = "hashes" \/ n \in Blocks,
         lock' = lock, adding' = FALSE, items' \subseteq Blocks
  PROVE  /\ LockKept(p)
         /\ job'[p] = [job[p] EXCEPT !.kind = k, !.from = n]
         /\ job'[p].kind = k /\ job'[p].from = n /\ job'[p].to = job[p].to
<1> DEFINE m == [job[p] EXCEPT !.kind = k, !.from = n]
<1>1. /\ m \in Left
      /\ m.kind = k /\ m.from = n /\ m.to = job[p].to
  BY DEF Left, LeftKinds, Msg
<1>2. job' = [job EXCEPT ![p] = m]
  BY DEF Leave
<1> HIDE DEF m
<1>3. job'[p] = m
  BY <1>2 DEF Types
<1>4. LockKept(p)
  BY <1>1, <1>2 DEF LockKept
<1> QED
  BY <1>1, <1>3, <1>4 DEF m

\* The packet of p under the lock is answered by asking for blocks.
LEMMA AskBase ==
  ASSUME Base, RequestsAgree, NEW p \in Peer, link[p] = "up", lock # <<>>, Head(lock) = p,
         Unlock(p), Pending(p) = {}, NEW S \in SUBSET Blocks, Asked(p, S),
         SentGetData(p, S \ blockMap), link' = link, load' = load,
         /\ wire' \in [Peer -> Seq(Msg)] /\ asked' \in [Peer -> SUBSET Blocks]
         /\ cont' \in [Peer -> 0..best]
         => Data'
  PROVE  Base'
<1>1. Types /\ Data /\ LockInv /\ LinkInv /\ PeerWire(p)
  BY BaseParts
<1> DEFINE N == S \ blockMap
           t == Delivery(p, N)
           w == wire[p] \o t
<1>2. /\ Sent(p, t) /\ cont' \in [Peer -> 0..best]
      /\ t \in Seq(Msg) /\ Distinct(t, N)
  BY <1>1, SentDataIs
<1>3. /\ asked' \in [Peer -> SUBSET Blocks] /\ asked'[p] = asked[p] \cup N
      /\ \A q \in Peer \ {p} : asked'[q] = asked[q]
      /\ asked[p] \cap N = {}
  BY <1>1, AskedIs
<1>4. wire[p] \in Seq(Msg)
  BY <1>1 DEF Data
<1> HIDE DEF N, t
<1>5. Distinct(wire[p], asked[p])
  BY <1>1, DistinctMore DEF PeerWire
<1>6. w \in Seq(Msg) /\ Distinct(w, asked'[p])
  <2>1. w \in Seq(Msg)
    BY <1>2, <1>4
  <2>2. Distinct(w, asked[p] \cup N)
    BY <1>2, <1>3, <1>4, <1>5, DistinctJoin
  <2> QED
    BY <1>3, <2>1, <2>2
<1>7. /\ wire' \in [Peer -> Seq(Msg)] /\ wire'[p] = w
      /\ \A q \in Peer \ {p} : wire'[q] = wire[q]
  <2>1. wire' = [wire EXCEPT ![p] = w]
    BY <1>2 DEF Sent
  <2> HIDE DEF w
  <2> QED
    BY <1>1, <1>6, <2>1 DEF Data
<1>8. LockMove(p) /\ Pending(p)' = {}
  BY <1>1, Unlocked
<1>9. PeerWire(p)'
  <2>1. asked'[p] \ Pending(p)' = asked'[p]
    BY <1>8
  <2> HIDE DEF w
  <2> QED
    BY <1>6, <1>7, <1>8, <2>1 DEF PeerWire
<1> QED
  BY <1>1, <1>2, <1>3, <1>7, <1>8, <1>9, StepBase DEF LinkInv

\* It is answered without.
LEMMA SayBase ==
  ASSUME Base, NEW p \in Peer, lock # <<>>, Head(lock) = p,
         LockShrinks(p) \/ LockKept(p), Pending(p) = {},
         NEW s \in Seq(Msg), NoCarriers(s), Sent(p, s), link[p] = "up",
         link' = link, load' = load, asked' = asked, wire' \in [Peer -> Seq(Msg)] => Data'
  PROVE  Base'
<1>1. Types /\ Data /\ LockInv /\ LinkInv /\ PeerWire(p)
  BY BaseParts
<1>2. wire[p] \in Seq(Msg) /\ wire[p] \o s \in Seq(Msg)
  BY <1>1 DEF Data
<1>3. /\ wire' \in [Peer -> Seq(Msg)] /\ wire'[p] = wire[p] \o s
      /\ \A q \in Peer \ {p} : wire'[q] = wire[q]
  BY <1>1, <1>2 DEF Data, Sent
<1>4. LockMove(p) /\ Pending(p)' = {}
  BY <1>1, NotWaitingNow
<1>5. PeerWire(p)'
  BY <1>1, <1>3, <1>4, LongerWire
<1> QED
  BY <1>1, <1>3, <1>4, <1>5, StepBase DEF LinkInv

\* Nothing is answered.
LEMMA DoneBase ==
  ASSUME Base, NEW p \in Peer, lock # <<>>, Head(lock) = p,
         LockShrinks(p) \/ LockKept(p), Pending(p) = {},
         link' = link, load' = load, asked' = asked, wire' = wire, Data'
  PROVE  Base'
<1>1. Types /\ Data /\ LockInv /\ LinkInv /\ PeerWire(p)
  BY BaseParts
<1>2. LockMove(p) /\ Pending(p)' = {}
  BY <1>1, NotWaitingNow
<1>3. PeerWire(p)'
  BY <1>1, <1>2 DEF PeerWire
<1> QED
  BY <1>1, <1>2, <1>3, StepBase DEF LinkInv

\* Who holds the lock, with a packet that is not ignored.
LEMMA HoldsIs ==
  ASSUME Base, NEW p \in Peer, NEW k \in {"headers", "inv", "block"}, Holds(p, k)
  PROVE  /\ lock # <<>> /\ Head(lock) = p /\ ~adding /\ job[p].kind = k
         /\ job[p] \in Msg /\ job[p].from \in Blocks /\ job[p].to \in Blocks
         /\ link[p] # "connecting"
         /\ ~Ignored(p, k) => link[p] = "up"
<1>1. Types /\ LinkInv /\ Data
  BY BaseParts
<1>2. lock # <<>> /\ Head(lock) = p /\ ~adding /\ job[p].kind = k
  BY DEF Holds
<1>3. job[p] # Idle /\ job[p] \in Msg
  BY <1>1, <1>2, IdleIsNone, KindIs DEF Types
<1>4. link[p] # "connecting" /\ (load = p => link[p] # "none") /\ link[p] \in {"none", "connecting", "up"}
  BY <1>1, <1>3, PoolAssumption DEF LinkInv, Data
<1>5. job[p].from \in Blocks /\ job[p].to \in Blocks
  BY <1>3 DEF Msg
<1>6. ~Ignored(p, k) => link[p] = "up"
  BY <1>4 DEF Ignored
<1> QED
  BY <1>2, <1>3, <1>4, <1>5, <1>6

LEMMA HoldsLeft ==
  ASSUME Base, NEW p \in Peer, NEW k \in LeftKinds, Holds(p, k)
  PROVE  /\ lock # <<>> /\ Head(lock) = p /\ ~adding /\ job[p].kind = k
         /\ job[p] \in Left /\ job[p].from \in 1..(Top + 1) /\ job[p].to \in Blocks
         /\ k # "hashes" => job[p].from \in Blocks
         /\ link[p] # "connecting" /\ Pending(p) = {}
<1>1. Types /\ LinkInv
  BY BaseParts
<1>2. lock # <<>> /\ Head(lock) = p /\ ~adding /\ job[p].kind = k
  BY DEF Holds
<1>3. job[p] \in Left
  BY <1>1, <1>2, KindIs DEF Types
<1>4. job[p] # Idle /\ job[p].kind # "block"
  BY <1>3, IdleIsNone, KindIs
<1> QED
  BY <1>1, <1>2, <1>3, <1>4, KindIs, NotWaiting DEF LinkInv

LEMMA UnresolvedIs ==
  ASSUME NEW hs, hs.next \in Nat, hs.last \in 0..Top
  PROVE  Unresolved(hs) \in SUBSET Blocks /\ NextLeft(hs) \in Nat
<1> DEFINE T == {hs.last, hs.next + MaxInv - 1}
<1>1. T \in SUBSET Nat /\ T # {} /\ Top \in Nat /\ MaxInv \in Nat
  BY Numbers
<1>2. Min(T) \in Nat /\ Min(T) <= hs.last
  BY <1>1, MinIs
<1> HIDE DEF T
<1>3. Unresolved(hs) = IF hs.next = 0 THEN {} ELSE hs.next..Min(T)
  BY DEF Unresolved, T
<1>4. Unresolved(hs) \in SUBSET Blocks
  BY <1>1, <1>2, <1>3 DEF Blocks
<1>5. NextLeft(hs) \in Nat
  BY <1>1 DEF NextLeft
<1> QED
  BY <1>4, <1>5

LEMMA HandleHeadersBase ==
  ASSUME Base, RequestsAgree, NEW p \in Peer, HandleHeaders(p)
  PROVE  Base'
<1>1. Types /\ Data /\ LockInv /\ LinkInv /\ PeerWire(p)
  BY BaseParts
<1> DEFINE m == job[p]
           hs == [headers EXCEPT !.last = m.to, !.next = IF @ = 0 THEN m.from ELSE @]
           S == Unresolved(hs)
<1>2. /\ Holds(p, "headers") /\ ~Ignored(p, "headers") /\ Unlock(p)
      /\ chain' = chain /\ best' = best
  BY DEF HandleHeaders, bounds
<1>3. /\ lock # <<>> /\ Head(lock) = p /\ ~adding /\ job[p].kind = "headers"
      /\ job[p] \in Msg /\ m.from \in Blocks /\ m.to \in Blocks /\ link[p] = "up"
  BY <1>2, HoldsIs
<1>4. Pending(p) = {} /\ LockShrinks(p)
  BY <1>1, <1>2, <1>3, NotWaiting, Unlocked
<1>5. m.from \in Nat /\ m.to \in Nat /\ m.to \in 0..Top
  BY <1>3, Numbers DEF Blocks
<1>6. /\ hs \in [first : Nat, last : 0..Top, next : Nat, target : Nat]
      /\ hs.target = headers.target
  BY <1>1, <1>5 DEF Data
<1>7. S \in SUBSET Blocks /\ NextLeft(hs) \in Nat
  BY <1>6, UnresolvedIs
<1>8. ASSUME NEW r, Closed(p, tip, synced, r) PROVE Base'
  <2>1. /\ tip' \in 0..Top /\ orphans' \subseteq Blocks /\ resetting' \in BOOLEAN
        /\ synced' \in BOOLEAN /\ tip \in 0..Top
    BY <1>1, <1>2 DEF Data, chain
  <2> QED
    BY <1>2, <1>4, <1>8, <2>1, ClosedBase
<1> HIDE DEF hs, S
<1>9. ASSUME headers' = [hs EXCEPT !.first = @ + 1, !.next = NextLeft(hs)],
             Asked(p, S), SentGetData(p, S \ blockMap),
             UNCHANGED <<checkpoints, half, compactBlocks, peers, resync, refill, blamed>>
      PROVE  Base'
  <2>1. /\ headers' \in [first : Nat, last : 0..Top, next : Nat, target : Nat]
        /\ headers'.target = headers.target
    <3>1. hs.first \in Nat /\ hs.last \in 0..Top /\ hs.target \in Nat
      BY <1>6
    <3>2. headers' = [first |-> hs.first + 1, last |-> hs.last, next |-> NextLeft(hs),
                      target |-> hs.target]
      BY <1>6, <1>9
    <3> QED
      BY <1>6, <1>7, <3>1, <3>2
  <2>2. /\ wire' \in [Peer -> Seq(Msg)] /\ asked' \in [Peer -> SUBSET Blocks]
        /\ cont' \in [Peer -> 0..best]
        => Data'
    BY <1>1, <1>2, <1>9, <2>1 DEF Data, chain, peers
  <2> QED
    BY <1>2, <1>3, <1>4, <1>7, <1>9, <2>2, AskBase DEF peers
<1>10. ASSUME headers' = hs, Sent(p, GetHeaders(m.to, headers.target)),
              UNCHANGED <<checkpoints, requests, peers, cont, resync, refill, history>>
       PROVE  Base'
  <2>1. wire' \in [Peer -> Seq(Msg)] => Data'
    BY <1>1, <1>2, <1>6, <1>10 DEF Data, chain, peers, requests
  <2>2. /\ GetHeaders(m.to, headers.target) \in Seq(Msg)
        /\ NoCarriers(GetHeaders(m.to, headers.target))
    BY <1>1, <1>5, GetHeadersIs DEF Data
  <2> QED
    BY <1>3, <1>4, <1>10, <2>1, <2>2, SayBase DEF peers, requests
<1>11. ASSUME Overrun(p, tip, synced, resync) PROVE Base'
  BY <1>8, <1>11 DEF Overrun
<1> QED
  BY <1>8, <1>9, <1>10, <1>11 DEF HandleHeaders, hs, S

\* The next hash, and perhaps a getblocks.
LEMMA FurtherBase ==
  ASSUME Base, NEW p \in Peer, lock # <<>>, Head(lock) = p, job[p] \in Left, Pending(p) = {},
         NEW n \in Blocks, Leave(p, "hashes", n + 1), ~adding,
         UNCHANGED <<chain, header, requests, peers, items, lock, adding, best>>,
         NEW h \in Nat, NEW stop \in Nat \ {0},
         IF link[p] = "up" THEN SentGetBlocks(p, h, stop) ELSE UNCHANGED remote
  PROVE  Base'
<1>1. Types /\ Data
  BY BaseParts
<1>2. /\ "hashes" \in LeftKinds /\ n + 1 \in 1..(Top + 1)
      /\ items' \subseteq Blocks /\ lock' = lock /\ adding' = FALSE
      /\ job[p] \in Msg \cup Left
  BY <1>1, Numbers DEF LeftKinds, Blocks, Types
<1>3. LockKept(p)
  BY <1>1, <1>2, LeaveIs
<1>4. cont' \in [Peer -> 0..best] /\ wire' \in [Peer -> Seq(Msg)] => Data'
  BY <1>1 DEF Data, chain, header, requests, peers
<1>5. CASE link[p] = "up"
  <2>1. /\ Sent(p, GetBlocks(h, stop)) /\ cont' \in [Peer -> 0..best]
        /\ GetBlocks(h, stop) \in Seq(Msg) /\ NoCarriers(GetBlocks(h, stop))
    BY <1>1, <1>5, SentBlocksIs
  <2> QED
    BY <1>3, <1>4, <1>5, <2>1, SayBase DEF requests, peers
<1>6. CASE link[p] # "up"
  <2>1. wire' = wire /\ cont' = cont
    BY <1>6 DEF remote
  <2>2. Data'
    BY <1>1, <1>4, <2>1 DEF Data
  <2> QED
    BY <1>3, <2>1, <2>2, DoneBase DEF requests, peers
<1> QED
  BY <1>5, <1>6

\* The hash that is next of an inv.
LEMMA HashIs ==
  ASSUME Base, NEW p \in Peer, HandleHash(p)
  PROVE  LET n == job[p].from
         IN /\ lock # <<>> /\ Head(lock) = p /\ ~adding /\ job[p] \in Msg \cup Left
            /\ n \in Blocks /\ n \in 1..(Top + 1) /\ n + 1 \in 1..(Top + 1)
            /\ Pending(p) = {}
<1> DEFINE n == job[p].from
<1>2. (Holds(p, "inv") /\ ~Ignored(p, "inv")) \/ Holds(p, "hashes")
  BY DEF HandleHash
<1>3. /\ lock # <<>> /\ Head(lock) = p /\ ~adding /\ job[p] \in Msg \cup Left
      /\ job[p].to \in Blocks /\ n \in Nat /\ n > 0 /\ Pending(p) = {}
  <2>1. CASE Holds(p, "inv") /\ ~Ignored(p, "inv")
    <3>1. /\ lock # <<>> /\ Head(lock) = p /\ ~adding /\ job[p] \in Msg
          /\ job[p].kind = "inv" /\ n \in Blocks /\ job[p].to \in Blocks
      BY <2>1, HoldsIs
    <3> QED
      BY <3>1, Numbers, NotWaiting DEF Blocks
  <2>2. CASE Holds(p, "hashes")
    BY <2>2, HoldsLeft, Numbers DEF LeftKinds
  <2> QED
    BY <1>2, <2>1, <2>2
<1>4. n <= job[p].to
  BY DEF HandleHash
<1>5. n \in Blocks /\ n \in 1..(Top + 1) /\ n + 1 \in 1..(Top + 1)
  BY <1>3, <1>4, Numbers DEF Blocks
<1> QED
  BY <1>3, <1>5

LEMMA HandleHashBase == ASSUME Base, NEW p \in Peer, HandleHash(p) PROVE Base'
<1>1. Types /\ Data
  BY BaseParts
<1> DEFINE n == job[p].from
<1>3. /\ lock # <<>> /\ Head(lock) = p /\ ~adding /\ job[p] \in Msg \cup Left
      /\ n \in Blocks /\ n \in 1..(Top + 1) /\ n + 1 \in 1..(Top + 1)
      /\ Pending(p) = {}
  BY HashIs
<1>4. lock' = lock /\ adding' = FALSE /\ wire' = wire /\ cont' = cont
      /\ chain' = chain /\ header' = header /\ requests' = requests /\ peers' = peers
      /\ best' = best
  BY <1>3 DEF HandleHash, remote, bounds
<1>6. /\ \E k \in LeftKinds : Leave(p, k, n) \/ Leave(p, "hashes", n + 1)
      /\ items' = items \/ items' = items \cup {n}
  BY DEF HandleHash, LeftKinds
<1>7. items' \subseteq Blocks
  BY <1>1, <1>3, <1>6 DEF Types
<1> HIDE DEF n
<1>8. LockKept(p)
  <2>1. ASSUME NEW k \in LeftKinds, NEW i \in 1..(Top + 1), Leave(p, k, i),
               k = "hashes" \/ i \in Blocks
        PROVE  LockKept(p)
    BY <1>1, <1>3, <1>4, <1>7, <2>1, LeaveIs
  <2>2. "hashes" \in LeftKinds
    BY DEF LeftKinds
  <2> QED
    BY <1>3, <1>6, <2>1, <2>2
<1>9. Data'
  BY <1>1, <1>4 DEF Data, chain, header, requests, peers
<1> QED
  BY <1>3, <1>4, <1>8, <1>9, DoneBase DEF requests, peers

LEMMA ContinueFromBase == ASSUME Base, NEW p \in Peer, ContinueFrom(p) PROVE Base'
<1>1. Types /\ Data
  BY BaseParts
<1> DEFINE n == job[p].from
<1>2. /\ Holds(p, "more") /\ Leave(p, "hashes", n + 1)
      /\ lock' = lock /\ adding' = adding /\ items' = items
      /\ chain' = chain /\ header' = header /\ requests' = requests /\ peers' = peers
      /\ best' = best
      /\ IF link[p] = "up" THEN SentGetBlocks(p, n, NoStop) ELSE UNCHANGED remote
  BY DEF ContinueFrom, bounds
<1>3. /\ lock # <<>> /\ Head(lock) = p /\ ~adding /\ job[p] \in Left
      /\ n \in Blocks /\ Pending(p) = {}
  BY <1>2, HoldsLeft DEF LeftKinds
<1>4. n \in Nat /\ NoStop \in Nat \ {0}
  BY <1>3, Numbers DEF Blocks, NoStop
<1> HIDE DEF n
<1> QED
  BY <1>2, <1>3, <1>4, FurtherBase

LEMMA RequestItemsBase ==
  ASSUME Base, RequestsAgree, NEW p \in Peer, RequestItems(p)
  PROVE  Base'
<1>1. Types /\ Data
  BY BaseParts
<1>2. /\ Holds(p, "hashes") /\ Unlock(p) /\ chain' = chain /\ best' = best
  BY DEF RequestItems, bounds
<1>3. lock # <<>> /\ Head(lock) = p /\ ~adding /\ Pending(p) = {}
  BY <1>2, HoldsLeft DEF LeftKinds
<1>4. LockShrinks(p) /\ items \in SUBSET Blocks
  BY <1>1, <1>2, <1>3, Unlocked DEF Types
<1>5. CASE Overrun(p, tip, synced, resync)
  <2>1. /\ tip' \in 0..Top /\ orphans' \subseteq Blocks /\ resetting' \in BOOLEAN
        /\ synced' \in BOOLEAN /\ tip \in 0..Top
    BY <1>1, <1>2 DEF Data, chain
  <2> QED
    BY <1>2, <1>4, <1>5, <2>1, ClosedBase DEF Overrun
<1>6. CASE /\ link[p] = "up" /\ Asked(p, items) /\ SentGetData(p, items \ blockMap)
           /\ UNCHANGED <<header, half, compactBlocks, peers, resync, refill, history>>
  <2>1. /\ wire' \in [Peer -> Seq(Msg)] /\ asked' \in [Peer -> SUBSET Blocks]
        /\ cont' \in [Peer -> 0..best]
        => Data'
    BY <1>1, <1>2, <1>6 DEF Data, chain, header, peers
  <2> QED
    BY <1>2, <1>3, <1>4, <1>6, <2>1, AskBase DEF peers
<1>7. CASE UNCHANGED <<header, requests, peers, remote, resync, refill, history>>
  <2>1. Data'
    BY <1>1, <1>2, <1>7 DEF Data, chain, header, peers, requests, remote
  <2> QED
    BY <1>3, <1>4, <1>7, <2>1, DoneBase DEF peers, requests, remote
<1> QED
  BY <1>5, <1>6, <1>7 DEF RequestItems

LEMMA ResolveOrphanBase == ASSUME Base, NEW p \in Peer, ResolveOrphan(p) PROVE Base'
<1>1. Types /\ Data
  BY BaseParts
<1> DEFINE n == job[p].from
<1>2. Holds(p, "root") /\ chain' = chain /\ best' = best
  BY DEF ResolveOrphan, bounds
<1>3. /\ lock # <<>> /\ Head(lock) = p /\ ~adding /\ job[p] \in Left
      /\ n \in Blocks /\ Pending(p) = {}
  BY <1>2, HoldsLeft DEF LeftKinds
<1>4. CASE /\ n \in orphans /\ Leave(p, "hashes", n + 1)
           /\ IF link[p] = "up" THEN SentGetBlocks(p, tip, Root(n, orphans))
              ELSE UNCHANGED remote
           /\ UNCHANGED <<header, requests, peers, items, lock, adding, resync, refill,
                          history>>
  <2>1. orphans \in SUBSET Blocks /\ tip \in Nat
    BY <1>1, Numbers DEF Data
  <2>2. Root(n, orphans) \in Nat \ {0}
    BY <1>4, <2>1, RootIs
  <2> HIDE DEF n
  <2> QED
    BY <1>2, <1>3, <1>4, <2>1, <2>2, FurtherBase
<1>5. CASE Closed(p, tip, synced, resync) /\ Unlock(p)
  <2>1. /\ tip' \in 0..Top /\ orphans' \subseteq Blocks /\ resetting' \in BOOLEAN
        /\ synced' \in BOOLEAN /\ tip \in 0..Top
    BY <1>1, <1>2 DEF Data, chain
  <2>2. LockShrinks(p)
    BY <1>1, <1>3, <1>5, Unlocked
  <2> QED
    BY <1>2, <1>5, <2>1, <2>2, ClosedBase
<1>6. CASE /\ Unlock(p)
           /\ UNCHANGED <<header, requests, peers, remote, resync, refill, history>>
  <2>1. Data'
    BY <1>1, <1>2, <1>6 DEF Data, chain, header, peers, requests, remote
  <2>2. LockShrinks(p)
    BY <1>1, <1>3, <1>6, Unlocked
  <2> QED
    BY <1>3, <1>6, <2>1, <2>2, DoneBase DEF peers, requests, remote
<1> QED
  BY <1>4, <1>5, <1>6 DEF ResolveOrphan

LEMMA AddBlockBase == ASSUME Base, NEW p \in Peer, AddBlock(p) PROVE Base'
<1>1. Types /\ Data /\ LockInv /\ LinkInv /\ PeerWire(p)
  BY BaseParts
<1> DEFINE n == job[p].from
<1>2. Holds(p, "block") /\ ~Ignored(p, "block") /\ chain' = chain /\ best' = best
  BY DEF AddBlock, bounds
<1>3. /\ lock # <<>> /\ Head(lock) = p /\ ~adding /\ job[p].kind = "block"
      /\ n \in Blocks /\ link[p] = "up"
  BY <1>2, HoldsIs
<1>4. Pending(p) = {n}
  BY <1>3 DEF Pending, Waits
<1>5. n \in asked[p]
  BY <1>1, <1>4 DEF PeerWire
<1>6. /\ Resolved(p, n) /\ adding' = TRUE /\ header' = header /\ half' = half
      /\ link' = link /\ load' = load /\ syncing' = syncing /\ asking' = asking
      /\ job' = job /\ lock' = lock /\ items' = items /\ wire' = wire /\ cont' = cont
  BY <1>5 DEF AddBlock, peers, remote
<1>7. LockHeld(p) /\ LockMove(p)
  BY <1>3, <1>6 DEF LockHeld, LockMove
<1>8. /\ asked' \in [Peer -> SUBSET Blocks] /\ asked'[p] = asked[p] \ {n}
      /\ \A q \in Peer \ {p} : asked'[q] = asked[q]
  BY <1>1, <1>6 DEF Resolved, Data
<1>9. Pending(p)' = {}
  BY <1>3, <1>6, NotWaitingThen
<1>10. PeerWire(p)'
  <2>1. asked'[p] \ Pending(p)' = asked[p] \ Pending(p)
    BY <1>4, <1>8, <1>9
  <2> QED
    BY <1>1, <1>6, <1>9, <2>1 DEF PeerWire
<1>11. Data'
  BY <1>1, <1>2, <1>6, <1>8 DEF Data, chain, header
<1> QED
  BY <1>1, <1>6, <1>7, <1>8, <1>10, <1>11, StepBase DEF LinkInv

\* Where a block connects.
LEMMA ConnectedIs ==
  ASSUME NEW n \in Blocks
  PROVE  /\ Connected(n) \in 0..Top /\ n <= Connected(n)
         /\ orphans = {} => Connected(n) = n
<1> DEFINE T == {m \in n..Top : (n + 1)..m \subseteq orphans}
<1>1. n \in Nat /\ n <= Top /\ Top \in Nat
  BY Numbers DEF Blocks
<1>2. n \in T /\ T \in SUBSET (0..Top)
  BY <1>1
<1>3. Max(T) \in T /\ \A y \in T : y <= Max(T)
  BY <1>1, <1>2, MaxIs
<1>4. ASSUME orphans = {} PROVE \A m \in T : m = n
  <2> TAKE m \in T
  <2>1. m \in Nat /\ n <= m /\ (n + 1)..m = {}
    BY <1>1, <1>4
  <2>2. n + 1 \notin (n + 1)..m
    BY <2>1
  <2> QED
    BY <1>1, <2>1, <2>2
<1>5. Connected(n) = Max(T)
  BY DEF Connected
<1> HIDE DEF T
<1>6. T \subseteq n..Top
  BY DEF T
<1> QED
  BY <1>1, <1>2, <1>3, <1>4, <1>5, <1>6

\* A block that was added, up to what is done with it.
LEMMA AddedIs ==
  ASSUME Base, NEW p \in Peer, adding, Head(lock) = p
  PROVE  /\ lock # <<>> /\ job[p].kind = "block" /\ job[p] \in Msg /\ job[p].from \in Blocks
         /\ Pending(p) = {} /\ (Unlock(p) => LockShrinks(p))
         /\ link[p] # "connecting" /\ (load = p => link[p] = "up")
         /\ Connected(job[p].from) \in 0..Top
<1>1. Types /\ Data /\ LockInv /\ LinkInv
  BY BaseParts
<1>2. lock # <<>> /\ job[p].kind = "block"
  BY <1>1 DEF LockInv
<1>3. job[p] # Idle /\ job[p] \in Msg
  BY <1>1, <1>2, IdleIsNone, KindIs DEF Types
<1>4. job[p].from \in Blocks
  BY <1>3 DEF Msg
<1>5. link[p] # "connecting" /\ (load = p => link[p] = "up")
  BY <1>1, <1>3, PoolAssumption DEF LinkInv, Data
<1>6. Unlock(p) => LockShrinks(p)
  BY <1>1, <1>2, Unlocked
<1> QED
  BY <1>2, <1>3, <1>4, <1>5, <1>6, NotWaiting, ConnectedIs

LEMMA ResolveBase ==
  ASSUME Base, RequestsAgree, NEW p \in Peer, adding, Head(lock) = p, Unlock(p),
         NEW n \in Blocks, NEW t \in 0..Top, NEW full, NEW r, ResolveChain(p, n, t, full, r),
         best' = best, tip' \in 0..Top, orphans' \subseteq Blocks, synced' \in BOOLEAN,
         resetting' \in BOOLEAN
  PROVE  Base'
<1>1. Types /\ Data /\ LockInv /\ LinkInv
  BY BaseParts
<1>2. lock # <<>> /\ Pending(p) = {} /\ LockShrinks(p) /\ (load = p => link[p] = "up")
  BY AddedIs
<1>3. CASE ~checkpoints \/ load # p
  <2>1. /\ header' = header /\ requests' = requests /\ peers' = peers /\ wire' = wire
        /\ cont' = cont
    BY <1>3 DEF ResolveChain, remote
  <2>2. Data'
    BY <1>1, <2>1 DEF Data, header, requests, peers
  <2> QED
    BY <1>2, <2>1, <2>2, DoneBase DEF requests, peers
<1>4. CASE checkpoints /\ load = p /\ n # headers.first
  <2>1. Closed(p, t, full, r)
    BY <1>4 DEF ResolveChain
  <2> QED
    BY <1>2, <2>1, ClosedBase
<1>5. CASE Overrun(p, t, full, r)
  BY <1>2, <1>5, ClosedBase DEF Overrun
<1>6. CASE /\ checkpoints /\ load = p /\ n = headers.first
           /\ ~(n \notin {LastCheckpoint, headers.target} /\ TooMany(p, Unresolved(headers)))
  <2>0. /\ headers \in [first : Nat, last : 0..Top, next : Nat, target : Nat]
        /\ headers.target \in Checkpoints /\ n \in Nat /\ link[p] = "up"
    BY <1>1, <1>2, <1>6, Numbers DEF Data, Blocks
  <2>1. /\ half' = half /\ link' = link /\ load' = load /\ syncing' = syncing
        /\ asking' = asking
    BY <1>6 DEF ResolveChain, peers
  <2>2. CASE n = LastCheckpoint
    <3>1. /\ checkpoints' = FALSE /\ headers' = NoHeaders /\ asked' = asked
          /\ SentGetBlocks(p, n, NoStop)
      BY <1>6, <2>2 DEF ResolveChain
    <3>2. /\ GetBlocks(n, NoStop) \in Seq(Msg) /\ NoCarriers(GetBlocks(n, NoStop))
          /\ Sent(p, GetBlocks(n, NoStop)) /\ cont' \in [Peer -> 0..best]
      <4>1. NoStop \in Nat \ {0}
        BY Numbers DEF NoStop
      <4> QED
        BY <1>1, <2>0, <3>1, <4>1, SentBlocksIs
    <3>3. NoHeaders \in [first : Nat, last : 0..Top, next : Nat, target : Nat]
      BY Numbers DEF NoHeaders
    <3>4. wire' \in [Peer -> Seq(Msg)] => Data'
      BY <1>1, <2>1, <3>1, <3>2, <3>3 DEF Data
    <3> QED
      BY <1>2, <2>0, <2>1, <3>1, <3>2, <3>4, SayBase
  <2>3. CASE n # LastCheckpoint /\ n = headers.target
    <3>1. /\ headers' = [headers EXCEPT !.target = NextTip(n)] /\ asked' = asked
          /\ checkpoints' = checkpoints /\ Sent(p, GetHeaders(n, NextTip(n)))
          /\ cont' = cont
      BY <1>6, <2>3 DEF ResolveChain
    <3>2. NextTip(n) \in Nat /\ NextTip(n) \in Checkpoints
      BY <2>0, <2>3, LastIs, NextTipIs
    <3>3. /\ GetHeaders(n, NextTip(n)) \in Seq(Msg) /\ NoCarriers(GetHeaders(n, NextTip(n)))
      BY <1>1, <2>0, <3>2, GetHeadersIs DEF Data
    <3>4. /\ headers' \in [first : Nat, last : 0..Top, next : Nat, target : Nat]
          /\ headers'.target \in Checkpoints
      BY <2>0, <3>1, <3>2
    <3>5. wire' \in [Peer -> Seq(Msg)] => Data'
      BY <1>1, <2>1, <3>1, <3>4 DEF Data
    <3> QED
      BY <1>2, <2>0, <2>1, <3>1, <3>3, <3>5, SayBase
  <2>4. CASE n # LastCheckpoint /\ n # headers.target
    <3> DEFINE S == Unresolved(headers)
    <3>1. /\ headers' = [headers EXCEPT !.first = @ + 1, !.next = NextLeft(headers)]
          /\ Asked(p, S) /\ checkpoints' = checkpoints /\ SentGetData(p, S \ blockMap)
      BY <1>6, <2>4 DEF ResolveChain
    <3>2. headers.first \in Nat /\ headers.last \in 0..Top /\ headers.next \in Nat
      BY <2>0
    <3>3. S \in SUBSET Blocks /\ NextLeft(headers) \in Nat
      BY <3>2, UnresolvedIs
    <3>4. headers' = [first |-> headers.first + 1, last |-> headers.last,
                      next |-> NextLeft(headers), target |-> headers.target]
      BY <2>0, <3>1
    <3>5. /\ headers' \in [first : Nat, last : 0..Top, next : Nat, target : Nat]
          /\ headers'.target \in Checkpoints
      BY <2>0, <3>2, <3>3, <3>4
    <3>6. /\ wire' \in [Peer -> Seq(Msg)] /\ asked' \in [Peer -> SUBSET Blocks]
          /\ cont' \in [Peer -> 0..best]
          => Data'
      BY <1>1, <2>1, <3>1, <3>5 DEF Data
    <3> HIDE DEF S
    <3> QED
      BY <1>2, <2>0, <2>1, <3>1, <3>3, <3>6, AskBase
  <2> QED
    BY <2>2, <2>3, <2>4
<1> QED
  BY <1>3, <1>4, <1>5, <1>6 DEF ResolveChain

LEMMA AddedBlockBase ==
  ASSUME Base, RequestsAgree, NEW p \in Peer, AddedBlock(p)
  PROVE  Base'
<1>1. Types /\ Data /\ LockInv /\ LinkInv
  BY BaseParts
<1> DEFINE n == job[p].from
           t == Connected(n)
           full == synced \/ t >= Recent
           r == IF full /\ ~synced THEN resync \cup {FALSE} ELSE resync
<1>2. adding /\ Head(lock) = p /\ best' = best
  BY DEF AddedBlock, bounds
<1>3. /\ lock # <<>> /\ job[p] \in Msg /\ n \in Blocks /\ Pending(p) = {} /\ t \in 0..Top
      /\ link[p] # "connecting" /\ (Unlock(p) => LockShrinks(p))
  BY <1>2, AddedIs
<1>4. CASE /\ Unlock(p)
           /\ UNCHANGED <<chain, header, requests, peers, remote, resync, refill, history>>
  <2>1. Data'
    BY <1>1, <1>2, <1>4 DEF Data, chain, header, requests, peers, remote
  <2> QED
    BY <1>2, <1>3, <1>4, <2>1, DoneBase DEF requests, peers, remote
<1>5. CASE /\ n = tip + 1
           /\ tip' = t /\ orphans' = orphans \ n..t /\ synced' = full
           /\ ResolveChain(p, n, t, full, r) /\ Unlock(p) /\ UNCHANGED resetting
  <2>1. /\ tip' \in 0..Top /\ orphans' \subseteq Blocks /\ resetting' \in BOOLEAN
    BY <1>1, <1>2, <1>3, <1>5 DEF Data
  <2>2. synced' \in BOOLEAN
    BY <1>5
  <2> HIDE DEF n, t, full, r
  <2> QED
    BY <1>2, <1>3, <1>5, <2>1, <2>2, ResolveBase
<1>6. CASE /\ orphans' = orphans \cup {n}
           /\ IF checkpoints THEN Unlock(p)
              ELSE Leave(p, "root", n) /\ adding' = FALSE /\ UNCHANGED <<items, lock>>
           /\ UNCHANGED <<tip, synced, resetting, header, requests, peers, remote, resync,
                          refill, history>>
  <2>1. orphans' \subseteq Blocks /\ wire' = wire
    BY <1>1, <1>3, <1>6 DEF Data, remote
  <2>2. Data'
    BY <1>1, <1>2, <1>6, <2>1 DEF Data, header, requests, peers, remote
  <2>3. CASE Unlock(p)
    BY <1>2, <1>3, <1>6, <2>1, <2>2, <2>3, DoneBase DEF requests, peers
  <2>4. CASE Leave(p, "root", n) /\ adding' = FALSE /\ UNCHANGED <<items, lock>>
    <3>1. /\ "root" \in LeftKinds /\ n \in 1..(Top + 1) /\ items' \subseteq Blocks
          /\ job[p] \in Msg \cup Left
      BY <1>1, <1>3, <2>4, Numbers DEF LeftKinds, Blocks, Types
    <3> HIDE DEF n
    <3>2. LockKept(p)
      BY <1>1, <1>2, <1>3, <2>4, <3>1, LeaveIs
    <3> QED
      BY <1>2, <1>3, <1>6, <2>1, <2>2, <3>2, DoneBase DEF requests, peers
  <2> QED
    BY <1>6, <2>3, <2>4
<1> QED
  BY <1>4, <1>5, <1>6 DEF AddedBlock

LEMMA CloseBase ==
  ASSUME Base, NEW p \in Peer, Close(p) \/ Stall(p)
  PROVE  Base'
<1>1. Data
  BY BaseParts
<1>2. Closed(p, tip, synced, resync) /\ LockSame /\ chain' = chain /\ best' = best
  BY DEF Close, Stall, LockSame, handling, bounds
<1>3. /\ tip' \in 0..Top /\ orphans' \subseteq Blocks /\ resetting' \in BOOLEAN
      /\ synced' \in BOOLEAN /\ tip \in 0..Top
  BY <1>1, <1>2 DEF Data, chain
<1> QED
  BY <1>2, <1>3, ClosedBase

LEMMA ResetBase == ASSUME Base, NEW h \in ResetTo, Reset(h) PROVE Base'
<1>1. Types /\ Data /\ LockInv /\ LinkInv /\ \A p \in Peer : PeerWire(p)
  BY BaseParts
<1>2. /\ LockSame /\ tip' = h /\ synced' = FALSE /\ orphans' = orphans
      /\ resetting' = TRUE /\ best' = best
      /\ asked' = asked /\ half' = half /\ link' = link /\ load' = load
      /\ syncing' = syncing /\ asking' = asking /\ wire' = wire /\ cont' = cont /\ h \in 0..Top
  BY PoolAssumption DEF Reset, LockSame, handling, requests, peers, remote
<1>3. /\ headers' \in [first : Nat, last : 0..Top, next : Nat, target : Nat]
      /\ checkpoints' \in BOOLEAN /\ (checkpoints' => headers'.target \in Checkpoints)
  <2>1. CASE checkpoints
    BY <1>2, <2>1, ResetTypes DEF Reset
  <2>2. CASE ~checkpoints
    BY <1>1, <2>2 DEF Reset, header, Data
  <2> QED
    BY <2>1, <2>2
<1>4. Data'
  BY <1>1, <1>2, <1>3 DEF Data
<1>5. \A p \in Peer : PeerWire(p)'
  BY <1>1, <1>2, SameWire
<1> QED
  BY <1>1, <1>2, <1>4, <1>5, AllBase DEF LinkInv

LEMMA PurgeOrphansBase == ASSUME Base, PurgeOrphans PROVE Base'
<1>1. Types /\ Data /\ LockInv /\ LinkInv /\ \A p \in Peer : PeerWire(p)
  BY BaseParts
<1>2. /\ LockSame /\ tip' = tip /\ orphans' = {} /\ resetting' = FALSE /\ best' = best
      /\ header' = header /\ requests' = requests /\ peers' = peers /\ remote' = remote
  BY DEF PurgeOrphans, LockSame, handling, bounds
<1>3. synced' \in BOOLEAN
  <2>1. synced' = (tip >= Recent)
    BY DEF PurgeOrphans
  <2> QED
    BY <2>1
<1>4. Data'
  <2>1. /\ checkpoints' = checkpoints /\ headers' = headers /\ link' = link /\ load' = load
        /\ asked' = asked /\ half' = half /\ wire' = wire /\ cont' = cont
        /\ syncing' = syncing /\ asking' = asking
    BY <1>2 DEF header, requests, peers, remote
  <2>2. {} \subseteq Blocks /\ resetting' \in BOOLEAN
    BY <1>2
  <2> QED
    BY <1>1, <1>2, <1>3, <2>1, <2>2 DEF Data
<1>5. \A p \in Peer : PeerWire(p)'
  BY <1>1, <1>2, SameWire DEF requests, peers, remote
<1> QED
  BY <1>1, <1>2, <1>4, <1>5, AllBase DEF LinkInv, peers

LEMMA BaseInit == Init => Base
<1> SUFFICES ASSUME Init PROVE Base
  OBVIOUS
<1> USE DEF Init
<1>1. 0 \in Nat /\ 0 \in 0..Top /\ Known \in 0..Top /\ NextTip(0) \in Nat
      /\ NextTip(0) \in Checkpoints
  BY PoolAssumption, Numbers, LastIs, NextTipIs
<1>2. Data
  <2>1. <<>> \in Seq(Msg) /\ {} \in SUBSET Blocks
    OBVIOUS
  <2>2. wire \in [Peer -> Seq(Msg)] /\ asked \in [Peer -> SUBSET Blocks]
        /\ half \in [Peer -> SUBSET Blocks]
    BY <2>1
  <2>3. link \in [Peer -> {"none", "connecting", "up"}]
    OBVIOUS
  <2>4. headers \in [first : Nat, last : 0..Top, next : Nat, target : Nat]
        /\ headers.target \in Checkpoints
    BY <1>1
  <2>5. cont \in [Peer -> 0..best]
    BY <1>1
  <2> QED
    BY <1>1, <2>2, <2>3, <2>4, <2>5 DEF Data
<1>3. Types
  <2>1. job \in [Peer -> Jobs] /\ items \subseteq Blocks
    BY DEF Jobs
  <2>2. lock \in Seq(Peer) /\ adding \in BOOLEAN
    <3>1. lock = <<>> /\ adding = FALSE
      OBVIOUS
    <3>2. <<>> \in Seq(Peer)
      OBVIOUS
    <3> HIDE DEF Init
    <3> QED
      BY <3>1, <3>2
  <2> QED
    BY <1>2, <2>1, <2>2 DEF Types
<1>4. \A p \in Peer : job[p] = Idle /\ wire[p] = <<>>
  OBVIOUS
<1>5. LockInv /\ LinkInv
  BY <1>4, IdleIsNone DEF LockInv, LinkInv
<1>6. \A p \in Peer : PeerWire(p)
  BY <1>4, NotWaiting DEF PeerWire, Distinct
<1> QED
  BY <1>3, <1>5, <1>6 DEF Base, WireInv

LEMMA BaseNext == ASSUME Base, RequestsAgree, [Next]_vars PROVE Base'
<1>1. ASSUME NEW p \in Peer, Handle(p) PROVE Base'
  BY <1>1, OpenBase, SendSyncBase, ReceiveBase, ReceiveCompactBase, ReceiveTxnBase,
     IgnoreBase, HandleHeadersBase, HandleHashBase, ResolveOrphanBase, ContinueFromBase,
     RequestItemsBase, AddBlockBase, AddedBlockBase DEF Handle
<1>2. CASE UNCHANGED vars
  <2>1. /\ chain' = chain /\ header' = header /\ requests' = requests /\ peers' = peers
        /\ handling' = handling /\ remote' = remote /\ best' = best
    BY <1>2 DEF vars, bounds
  <2>2. /\ tip' = tip /\ orphans' = orphans /\ synced' = synced /\ resetting' = resetting
        /\ wire' = wire /\ cont' = cont /\ items' = items
        /\ checkpoints' = checkpoints /\ headers' = headers
        /\ asked' = asked /\ half' = half /\ link' = link /\ load' = load
        /\ syncing' = syncing /\ asking' = asking
        /\ job' = job /\ lock' = lock /\ adding' = adding
    BY <2>1 DEF chain, header, requests, peers, handling, remote
  <2>3. Types' /\ LinkInv' /\ LockInv'
    BY <2>1, <2>2, BaseParts DEF Types, Data, LinkInv, LockInv
  <2>4. \A p \in Peer : PeerWire(p)'
    BY <2>1, <2>2, BaseParts, SameWire DEF LockSame
  <2> QED
    BY <2>3, <2>4 DEF Base, WireInv
<1> QED
  BY <1>1, <1>2, FillBase, MineBase, CloseBase, ResyncBase, ResetBase,
     PurgeOrphansBase DEF Next

----------------------------------------------------------------------------
\* The checkpoints are synced from the loader alone, and nothing else is asked for.

Out(p) ==
  /\ asked[p] = {} /\ p \notin syncing /\ p \notin asking /\ Plain(wire[p])
  /\ job[p].kind \in {"headers", "block"} => link[p] = "none"

\* Headers are asked for, up to the next checkpoint.
HeadersOf(p) ==
  /\ asked[p] = {} /\ job[p].kind # "block"
  /\ p \in asking => p \in syncing
  /\ p \in syncing \ asking =>
       /\ Announces(wire[p], headers.last, headers.target)
       /\ job[p].kind = "headers" =>
            Follows(job[p], headers.last, headers.target) /\ Plain(wire[p])
  /\ p \notin syncing \ asking =>
       Plain(wire[p]) /\ job[p].kind # "headers" /\ headers.last = tip

HeadersPhase ==
  /\ headers.first = tip /\ tip <= headers.last /\ headers.last < headers.target
  /\ headers.next = IF headers.last = tip THEN 0 ELSE tip + 1
  /\ load = None => headers.last = tip
  /\ load # None => HeadersOf(load)

\* The blocks of these headers are, as many at once as there may be, and come in
\* order.
AskedTo(hs) == IF hs.next = 0 THEN hs.target ELSE hs.next - 1

BlocksOf(p) ==
  /\ link[p] = "up" /\ p \in syncing \ asking /\ job[p].kind # "headers"
  /\ asked[p] = (IF adding THEN tip + 2 ELSE tip + 1)..AskedTo(headers)
  /\ job[p].kind = "block" => job[p].from = tip + 1
  /\ InLine(wire[p], asked[p] \ Pending(p))

BlocksPhase ==
  /\ headers.first = tip + 1 /\ headers.last = headers.target
  /\ headers.next = 0 \/ (tip + 2 <= headers.next /\ headers.next <= headers.target)
  /\ headers.target - tip <= MaxRequest
  /\ load # None /\ BlocksOf(load)

Syncing ==
  /\ ~synced /\ tip < LastCheckpoint /\ orphans = {} /\ resync = {}
  /\ headers.target = NextTip(tip)
  /\ load # None => link[load] # "none"
  /\ load # None /\ link[load] # "up" => Out(load)
  /\ \A p \in Peer : p # load => Out(p)
  /\ adding => Head(lock) = load
  /\ adding \/ headers.first # tip => BlocksPhase
  /\ ~adding /\ headers.first = tip => HeadersPhase

\* No inv is handled, so no block is announced page by page.
Quiet ==
  /\ ~resetting
  /\ \A p \in Peer : cont[p] = 0 /\ job[p].kind \notin LeftKinds

CheckpointsInv == checkpoints /\ ~disturbed /\ ~crowded => Syncing /\ Quiet

----------------------------------------------------------------------------
LEMMA AnnouncesJoin ==
  ASSUME NEW w \in Seq(Msg), NEW s \in Seq(Msg), Plain(w),
         NEW last, NEW target, Announces(s, last, target)
  PROVE  Announces(w \o s, last, target)
<1> DEFINE v == w \o s
<1> HIDE DEF v
<1>1. /\ \A i \in 1..Len(w) : v[i] = w[i]
      /\ \A k \in 1..Len(s) : v[Len(w) + k] = s[k]
      /\ \A i \in 1..Len(v) : i \in 1..Len(w) \/ \E k \in 1..Len(s) : i = Len(w) + k
  BY Joined DEF v
<1>2. \A i \in 1..Len(v) :
        v[i].kind = "inv" \/ \E k \in 1..Len(s) : i = Len(w) + k /\ v[i] = s[k]
  BY <1>1 DEF Plain
<1>3. ASSUME NEW i \in 1..Len(v), v[i].kind # "inv"
      PROVE  /\ v[i].kind = "headers" /\ Follows(v[i], last, target)
             /\ \A j \in 1..Len(v) : v[j].kind = "headers" => j = i
  <2>1. PICK k \in 1..Len(s) : i = Len(w) + k /\ v[i] = s[k]
    BY <1>2, <1>3
  <2>2. s[k].kind = "headers" /\ Follows(s[k], last, target)
    BY <1>3, <2>1 DEF Announces
  <2>3. ASSUME NEW j \in 1..Len(v), v[j].kind = "headers" PROVE j = i
    <3>1. PICK l \in 1..Len(s) : j = Len(w) + l /\ v[j] = s[l]
      BY <1>2, <2>3
    <3>2. l = k
      BY <2>2, <2>3, <3>1 DEF Announces
    <3> QED
      BY <2>1, <3>1, <3>2
  <2> QED
    BY <2>1, <2>2, <2>3
<1>4. Announces(v, last, target)
  BY <1>3 DEF Announces
<1> QED
  BY <1>4 DEF v

\* When no block is to come, none is on its way.
LEMMA InLineNone ==
  ASSUME NEW w \in Seq(Msg), InLine(w, {})
  PROVE  Plain(w)
BY DEF InLine, Plain

\* A peer that is out stays so.
LEMMA OutSame ==
  ASSUME NEW p \in Peer, Out(p), asked'[p] = asked[p], wire'[p] = wire[p],
         p \notin syncing', p \notin asking',
         job'[p] = job[p] \/ job'[p] = Idle,
         link'[p] = link[p] \/ job'[p] = Idle
  PROVE  Out(p)'
<1>1. job'[p].kind \in {"headers", "block"} => job'[p] = job[p] /\ link'[p] = link[p]
  BY IdleIsNone
<1> QED
  BY <1>1 DEF Out

LEMMA OutClosed ==
  ASSUME NEW p \in Peer, asked'[p] = {}, wire'[p] = <<>>, link'[p] = "none",
         p \notin syncing', p \notin asking'
  PROVE  Out(p)'
BY DEF Out, Plain

\* What the invariant says of the parts of the state.
LEMMA SyncIs ==
  ASSUME Base, Syncing
  PROVE  /\ headers.target \in Checkpoints /\ headers.target \in Nat
         /\ tip \in Nat /\ tip < headers.target /\ headers.target < Recent
         /\ headers.target <= LastCheckpoint /\ headers.target = NextTip(tip)
         /\ load \in Peer \cup {None} /\ None \notin Peer
         /\ adding => BlocksPhase /\ Head(lock) = load
         /\ BlocksPhase \/ HeadersPhase
         /\ headers.first \in Nat
<1>1. Data
  BY BaseParts
<1>2. tip \in Nat /\ tip < LastCheckpoint /\ headers.target = NextTip(tip) /\ headers.first \in Nat
  BY <1>1, Numbers DEF Data, Syncing
<1>3. /\ headers.target \in Checkpoints /\ headers.target \in Nat
      /\ tip < headers.target /\ headers.target <= LastCheckpoint
  BY <1>2, NextTipIs
<1>4. headers.target < Recent
  BY <1>3, Numbers
<1> QED
  BY <1>1, <1>2, <1>3, <1>4, PoolAssumption DEF Data, Syncing

\* How far the blocks are asked for.
LEMMA AskedToIs ==
  ASSUME Base, Syncing, BlocksPhase
  PROVE  /\ AskedTo(headers) \in Nat
         /\ tip + 1 <= AskedTo(headers) /\ AskedTo(headers) <= headers.target
         /\ headers.next \in Nat
<1>1. headers.target \in Nat /\ tip \in Nat /\ tip < headers.target /\ headers.next \in Nat
  BY SyncIs, BaseParts DEF Data
<1> QED
  BY <1>1 DEF AskedTo, BlocksPhase

\* Who else is there sends nothing but invs, so no packet of theirs is a block.
LEMMA LoaderIs ==
  ASSUME Base, Syncing, NEW p \in Peer, link[p] = "up",
         \/ job[p].kind \in {"headers", "block"} \/ p \in asking
         \/ (wire[p] # <<>> /\ Head(wire[p]).kind # "inv")
  PROVE  p = load
<1> SUFFICES ASSUME p # load PROVE FALSE
  OBVIOUS
<1>1. Out(p)
  BY DEF Syncing
<1>2. wire[p] \in Seq(Msg)
  BY BaseParts DEF Data
<1> QED
  BY <1>1, <1>2, PlainParts DEF Out

----------------------------------------------------------------------------
\* The steps while the checkpoints are synced.

\* The phase stays when nothing of the chain, the headers or the loader changes.
LEMMA PhaseSame ==
  ASSUME Base, Syncing, LockSame, chain' = chain, header' = header, load' = load,
         load # None => /\ asked'[load] = asked[load] /\ wire'[load] = wire[load]
                        /\ link'[load] = link[load]
                        /\ (load \in syncing' <=> load \in syncing)
                        /\ (load \in asking' <=> load \in asking)
  PROVE  /\ adding' \/ headers'.first # tip' => BlocksPhase'
         /\ ~adding' /\ headers'.first = tip' => HeadersPhase'
<1>1. /\ tip' = tip /\ headers' = headers /\ adding' = adding /\ job' = job /\ load' = load
  BY DEF chain, header, LockSame
<1>2. load \in Peer \cup {None}
  BY SyncIs
<1>3. Types /\ LockInv
  BY BaseParts
<1>4. CASE load = None
  BY <1>1, <1>4 DEF Syncing, HeadersPhase, BlocksPhase
<1>5. CASE load # None
  <2>1. Pending(load)' = Pending(load)
    BY <1>1, <1>2, <1>3, <1>5, PendingSame DEF Pending, Waits, LockSame
  <2>2. HeadersOf(load) => HeadersOf(load)'
    BY <1>1, <1>5 DEF HeadersOf
  <2>3. BlocksOf(load) => BlocksOf(load)'
    BY <1>1, <1>5, <2>1 DEF BlocksOf
  <2> QED
    BY <1>1, <1>5, <2>2, <2>3 DEF Syncing, HeadersPhase, BlocksPhase
<1> QED
  BY <1>4, <1>5

LEMMA FillSync == ASSUME Base, Syncing, Fill PROVE Syncing'
<1>1. Types /\ Data /\ LockInv /\ LinkInv
  BY BaseParts
<1> DEFINE there == {p \in Peer : link[p] # "none"}
           free == {p \in Peer \ there : job[p] = Idle}
<1>2. /\ \A p \in Peer : link'[p] = IF p \in free THEN "connecting" ELSE link[p]
      /\ LockSame /\ wire' = wire /\ asked' = asked
      /\ chain' = chain /\ header' = header /\ resync' = resync /\ there \cup free # {}
  BY DEF Fill, LockSame, handling, requests, remote
<1>3. /\ tip' = tip /\ headers' = headers /\ adding' = adding /\ job' = job /\ lock' = lock
      /\ orphans' = orphans /\ synced' = synced
  BY <1>2 DEF chain, header, LockSame
<1>4. /\ \A p \in free : link'[p] = "connecting" /\ link[p] = "none" /\ job[p] = Idle
      /\ \A p \in Peer \ free : link'[p] = link[p]
      /\ \A p \in free : p \in Peer
  BY <1>1, <1>2 DEF Data
<1>5. load \in Peer \cup {None} /\ None \notin Peer
  BY SyncIs
<1>6. CASE load # None
  <2>1. load' = load /\ syncing' = syncing /\ asking' = asking
    BY <1>6 DEF Fill
  <2>2. load \in Peer \ free /\ link'[load] = link[load]
    BY <1>4, <1>5, <1>6 DEF Syncing
  <2>3. ASSUME NEW p \in Peer, Out(p) PROVE Out(p)'
    BY <1>2, <1>3, <1>4, <2>1, <2>3, OutSame DEF Out
  <2> HIDE DEF free
  <2>4. /\ adding' \/ headers'.first # tip' => BlocksPhase'
        /\ ~adding' /\ headers'.first = tip' => HeadersPhase'
    BY <1>2, <2>1, <2>2, PhaseSame
  <2> QED
    BY <1>2, <1>3, <1>5, <1>6, <2>1, <2>2, <2>3, <2>4 DEF Syncing
<1>7. CASE load = None
  <2>1. ~adding /\ headers.first = tip /\ HeadersPhase /\ headers.last = tip
    BY <1>7 DEF Syncing, BlocksPhase, HeadersPhase
  <2>2. PICK l \in IF there # {} THEN there ELSE free :
           /\ load' = l
           /\ IF Syncable(l, l) /\ l \notin syncing
              THEN syncing' = syncing \cup {l} /\ asking' = asking \cup {l}
              ELSE UNCHANGED <<syncing, asking>>
    BY <1>7 DEF Fill
  <2>3. l \in Peer /\ l # None /\ (link[l] # "none" \/ l \in free)
    BY <1>5, <2>2
  <2>4. \A p \in Peer : Out(p)
    BY <1>5, <1>7 DEF Syncing
  <2> HIDE DEF there, free
  <2>5. job[l].kind \notin {"headers", "block"}
    BY <1>4, <2>3, <2>4, IdleIsNone DEF Out
  <2>6. ASSUME NEW p \in Peer, p # l PROVE Out(p)'
    <3>1. p \notin syncing' /\ p \notin asking'
      BY <2>2, <2>4, <2>6 DEF Out
    <3> QED
      BY <1>2, <1>3, <1>4, <2>4, <2>6, <3>1, OutSame
  <2>7. link'[l] # "none" /\ (link[l] = "up" => l \notin free)
    BY <1>4, <2>3
  <2>8. /\ asked'[l] = {} /\ Plain(wire'[l]) /\ job'[l] = job[l]
        /\ l \notin syncing /\ l \notin asking
    BY <1>2, <1>3, <2>3, <2>4 DEF Out
  <2>9. l \notin syncing' \ asking' /\ (l \in asking' => l \in syncing')
    BY <2>2, <2>8
  <2>10. HeadersOf(l)'
    BY <1>3, <2>1, <2>5, <2>8, <2>9 DEF HeadersOf
  <2>11. link'[l] # "up" => Out(l)'
    <3> SUFFICES ASSUME link'[l] # "up" PROVE Out(l)'
      OBVIOUS
    <3>1. link[l] # "up"
      BY <1>4, <2>3, <2>7
    <3>2. syncing' = syncing /\ asking' = asking
      BY <2>2, <3>1 DEF Syncable
    <3> QED
      BY <2>5, <2>8, <3>2 DEF Out
  <2>12. HeadersPhase'
    BY <1>3, <2>1, <2>2, <2>3, <2>10 DEF HeadersPhase
  <2> QED
    BY <1>2, <1>3, <2>1, <2>2, <2>6, <2>7, <2>11, <2>12 DEF Syncing
<1> QED
  BY <1>6, <1>7

LEMMA OpenSync == ASSUME Base, Syncing, NEW p \in Peer, Open(p) PROVE Syncing'
<1>1. Types /\ Data /\ LockInv /\ LinkInv /\ PeerWire(p)
  BY BaseParts
<1> DEFINE l == IF load # None /\ link[load] = "up" THEN load ELSE p
<1>2. /\ link[p] = "connecting" /\ link' = [link EXCEPT ![p] = "up"] /\ LockSame
      /\ wire' = wire /\ asked' = asked /\ resync' = resync
      /\ chain' = chain /\ header' = header /\ load' = l
      /\ IF p = l \/ synced
         THEN syncing' = syncing \cup {p} /\ asking' = asking \cup {p}
         ELSE UNCHANGED <<syncing, asking>>
  BY DEF Open, LockSame, handling, requests, remote
<1>3. /\ tip' = tip /\ headers' = headers /\ adding' = adding /\ job' = job /\ lock' = lock
      /\ orphans' = orphans /\ synced' = synced
  BY <1>2 DEF chain, header, LockSame
<1>4. link'[p] = "up" /\ \A q \in Peer \ {p} : link'[q] = link[q]
  BY <1>1, <1>2 DEF Data
<1>5. load \in Peer \cup {None} /\ None \notin Peer
  BY SyncIs
<1>6. Out(p) /\ job[p] = Idle
  BY <1>1, <1>2, <1>5 DEF Syncing, LinkInv
<1>7. CASE load # None /\ link[load] = "up"
  <2>1. load' = load /\ syncing' = syncing /\ asking' = asking /\ load # p
    BY <1>2, <1>7 DEF Syncing
  <2>2. link'[load] = link[load]
    BY <1>4, <1>5, <1>7, <2>1
  <2>3. ASSUME NEW q \in Peer, q # load PROVE Out(q)'
    <3>1. link'[q] = link[q] \/ job'[q] = Idle
      BY <1>3, <1>4, <1>6
    <3> QED
      BY <1>2, <1>3, <2>1, <2>3, <3>1, OutSame DEF Out, Syncing
  <2>4. /\ adding' \/ headers'.first # tip' => BlocksPhase'
        /\ ~adding' /\ headers'.first = tip' => HeadersPhase'
    BY <1>2, <2>1, <2>2, PhaseSame
  <2> QED
    BY <1>2, <1>3, <1>7, <2>1, <2>2, <2>3, <2>4 DEF Syncing
<1>8. CASE ~(load # None /\ link[load] = "up")
  <2>1. load' = p /\ syncing' = syncing \cup {p} /\ asking' = asking \cup {p}
    BY <1>2, <1>8
  <2>2. ~adding /\ headers.first = tip /\ HeadersPhase
    BY <1>8 DEF Syncing, BlocksPhase, BlocksOf
  <2>3. headers.last = tip
    BY <1>8, <2>2 DEF Syncing, Out, HeadersPhase, HeadersOf
  <2>4. \A q \in Peer : Out(q)
    BY <1>5, <1>8 DEF Syncing
  <2>5. ASSUME NEW q \in Peer, q # p PROVE Out(q)'
    <3>1. q \notin syncing' /\ q \notin asking'
      BY <2>1, <2>4, <2>5 DEF Out
    <3> QED
      BY <1>2, <1>3, <1>4, <2>4, <2>5, <3>1, OutSame
  <2>6. HeadersOf(p)'
    BY <1>2, <1>3, <1>6, <2>1, <2>3, IdleIsNone DEF HeadersOf, Out
  <2>7. HeadersPhase'
    BY <1>3, <1>5, <2>1, <2>2, <2>3, <2>6 DEF HeadersPhase
  <2> QED
    BY <1>2, <1>3, <1>4, <2>1, <2>2, <2>5, <2>7 DEF Syncing
<1> QED
  BY <1>7, <1>8

\* The loader asks for headers when it has its locator.
LEMMA SendSyncSync ==
  ASSUME Base, Syncing, checkpoints, NEW p \in Peer, SendSync(p)
  PROVE  Syncing'
<1>1. Types /\ Data /\ LockInv /\ LinkInv
  BY BaseParts
<1>2. /\ p \in asking /\ ~adding /\ link' = link /\ LockSame /\ asked' = asked
      /\ chain' = chain /\ header' = header /\ load' = load /\ syncing' = syncing
      /\ asking' = asking \ {p} /\ resync' = resync
  BY DEF SendSync, LockSame, handling, requests
<1>3. /\ tip' = tip /\ headers' = headers /\ adding' = adding /\ job' = job /\ lock' = lock
      /\ orphans' = orphans /\ synced' = synced
  BY <1>2 DEF chain, header, LockSame
<1>4. load = p /\ link[p] = "up" /\ p # None
  BY <1>2, SyncIs DEF Syncing, Out
<1>5. HeadersPhase /\ headers.first = tip
  BY <1>2, <1>4 DEF Syncing, BlocksPhase, BlocksOf
<1>6. HeadersOf(p) /\ Plain(wire[p]) /\ job[p].kind # "headers" /\ headers.last = tip
  BY <1>2, <1>4, <1>5 DEF HeadersPhase, HeadersOf
<1>7. wire' = [q \in Peer |-> wire[q] \o (IF q \in {p} THEN Locator ELSE <<>>)]
  BY <1>4 DEF SendSync, Located, Syncable
<1>8. /\ wire'[p] = wire[p] \o Locator /\ wire[p] \in Seq(Msg)
      /\ \A q \in Peer \ {p} : wire'[q] = wire[q]
  <2>1. \A q \in Peer : wire[q] \in Seq(Msg) /\ wire[q] \o <<>> = wire[q]
    BY <1>1 DEF Data
  <2>2. \A q \in Peer \ {p} : wire'[q] = wire[q] \o <<>>
    BY <1>7
  <2> QED
    BY <1>7, <2>1, <2>2
<1>9. Locator \in Seq(Msg) /\ Announces(Locator, headers.last, headers.target)
  BY <1>1, <1>6, SyncIs, LocatorIs DEF Data
<1>10. Announces(wire'[p], headers'.last, headers'.target)
  BY <1>3, <1>6, <1>8, <1>9, AnnouncesJoin
<1>11. HeadersOf(p)'
  BY <1>2, <1>3, <1>6, <1>10 DEF HeadersOf
<1>12. HeadersPhase'
  BY <1>2, <1>3, <1>4, <1>5, <1>6, <1>11 DEF HeadersPhase
<1>13. ASSUME NEW q \in Peer, q # p PROVE Out(q)'
  BY <1>2, <1>3, <1>4, <1>8, <1>13, OutSame DEF Syncing, Out
<1> QED
  BY <1>2, <1>3, <1>4, <1>5, <1>12, <1>13 DEF Syncing

LEMMA ReceiveSync == ASSUME Base, Syncing, NEW p \in Peer, Receive(p) PROVE Syncing'
<1>1. Types /\ Data /\ LockInv /\ LinkInv
  BY BaseParts
<1> DEFINE m == Head(wire[p])
           rest == Tail(wire[p])
<1>2. /\ Read(p, {"headers", "inv", "block"}) /\ Lock(p, m)
      /\ wire' = [wire EXCEPT ![p] = rest]
      /\ link' = link /\ asked' = asked /\ chain' = chain /\ header' = header
      /\ load' = load /\ syncing' = syncing /\ asking' = asking /\ adding' = adding
      /\ items' = items /\ resync' = resync
  BY DEF Receive, requests, peers
<1>3. /\ tip' = tip /\ headers' = headers /\ orphans' = orphans /\ synced' = synced
  BY <1>2 DEF chain, header
<1>4. /\ link[p] = "up" /\ job[p] = Idle /\ m \in Msg /\ m.kind \in {"headers", "inv", "block"}
      /\ Pending(p) = {} /\ wire[p] \in Seq(Msg) /\ wire[p] # <<>>
  BY <1>2, ReadIs
<1>5. /\ wire'[p] = rest /\ \A q \in Peer \ {p} : wire'[q] = wire[q]
  BY <1>1, <1>2 DEF Data
<1>6. job'[p] = m /\ Pending(p)' = IF m.kind = "block" THEN {m.from} ELSE {}
  BY <1>1, <1>2, <1>4, Locked
<1>7. \A q \in Peer \ {p} : job'[q] = job[q]
  BY <1>1, <1>2 DEF Lock, Types
<1>8. ASSUME NEW q \in Peer, q # load PROVE Out(q)'
  <2>1. Out(q)
    BY <1>8 DEF Syncing
  <2>2. CASE q # p
    BY <1>2, <1>5, <1>7, <2>1, <2>2, OutSame DEF Out
  <2>3. CASE q = p
    <3>1. Plain(rest) /\ m.kind = "inv"
      BY <1>4, <2>1, <2>3, PlainParts DEF Out
    <3> HIDE DEF m, rest
    <3> QED
      BY <1>2, <1>5, <1>6, <2>1, <2>3, <3>1 DEF Out
  <2> QED
    BY <2>2, <2>3
<1>9. load \in Peer \cup {None} /\ None \notin Peer
  BY SyncIs
<1>10. adding => lock # <<>> /\ Head(lock) = load /\ Head(lock) # p
  BY <1>1, <1>4, IdleIsNone DEF Syncing, LockInv
<1>11. adding' => Head(lock') = load'
  <2> SUFFICES ASSUME adding PROVE Head(lock') = load
    BY <1>2
  <2>1. lock' = Append(lock, p) /\ lock \in Seq(Peer) /\ lock # <<>>
    BY <1>1, <1>2, <1>10 DEF Lock, Types
  <2> QED
    BY <1>10, <2>1
<1>12. CASE load # p
  <2>1. ASSUME NEW l \in Peer, l = load
        PROVE  job'[l] = job[l] /\ wire'[l] = wire[l] /\ Pending(l)' = Pending(l)
    <3>1. LockGrows(p)
      BY <1>1, <1>2, <1>4, Locked
    <3> HIDE DEF m, rest
    <3> QED
      BY <1>1, <1>2, <1>5, <1>7, <1>12, <2>1, <3>1, PendingSame DEF LockMove
  <2> HIDE DEF m, rest
  <2>2. HeadersPhase => HeadersPhase'
    <3>1. ASSUME NEW l \in Peer, l = load, HeadersOf(l) PROVE HeadersOf(l)'
      BY <1>2, <1>3, <2>1, <3>1 DEF HeadersOf
    <3> QED
      BY <1>2, <1>3, <1>9, <3>1 DEF HeadersPhase
  <2>3. BlocksPhase => BlocksPhase'
    <3>1. ASSUME NEW l \in Peer, l = load, BlocksOf(l) PROVE BlocksOf(l)'
      BY <1>2, <1>3, <2>1, <3>1 DEF BlocksOf
    <3> QED
      BY <1>2, <1>3, <1>9, <3>1 DEF BlocksPhase
  <2>4. ASSUME NEW l \in Peer, l = load, link[l] # "up" PROVE Out(l)'
    <3>1. Out(l)
      BY <1>9, <2>4 DEF Syncing
    <3> QED
      BY <1>2, <2>1, <2>4, <3>1, OutSame DEF Out
  <2>5. load' # None /\ link'[load'] # "up" => Out(load)'
    BY <1>2, <1>9, <2>4
  <2>6. adding' \/ headers'.first # tip' => BlocksPhase'
    BY <1>2, <1>3, <2>3 DEF Syncing
  <2>7. ~adding' /\ headers'.first = tip' => HeadersPhase'
    BY <1>2, <1>3, <2>2 DEF Syncing
  <2> QED
    BY <1>2, <1>3, <1>8, <1>11, <2>5, <2>6, <2>7 DEF Syncing
<1>13. CASE load = p
  <2>1. ~adding
    BY <1>10, <1>13
  <2>2. p # None
    BY <1>9
  <2>3. CASE headers.first = tip
    <3>1. HeadersPhase /\ HeadersOf(p)
      BY <1>13, <2>1, <2>2, <2>3 DEF Syncing, HeadersPhase
    <3>2. HeadersOf(p)'
      <4>1. CASE p \in syncing \ asking
        <5>1. /\ Announces(rest, headers.last, headers.target) /\ m.kind \in {"inv", "headers"}
              /\ m.kind = "headers" => Follows(m, headers.last, headers.target) /\ Plain(rest)
          BY <1>4, <3>1, <4>1, AnnouncesTail DEF HeadersOf
        <5> HIDE DEF m, rest
        <5> QED
          BY <1>2, <1>3, <1>5, <1>6, <3>1, <4>1, <5>1 DEF HeadersOf
      <4>2. CASE p \notin syncing \ asking
        <5>1. Plain(rest) /\ m.kind = "inv"
          BY <1>4, <3>1, <4>2, PlainParts DEF HeadersOf
        <5> HIDE DEF m, rest
        <5> QED
          BY <1>2, <1>3, <1>5, <1>6, <3>1, <4>2, <5>1 DEF HeadersOf
      <4> QED
        BY <4>1, <4>2
    <3>3. HeadersPhase'
      BY <1>2, <1>3, <1>13, <2>2, <3>1, <3>2 DEF HeadersPhase
    <3> QED
      BY <1>2, <1>3, <1>4, <1>8, <1>13, <2>1, <2>3, <3>3 DEF Syncing
  <2>4. CASE headers.first # tip
    <3>1. BlocksPhase /\ BlocksOf(p)
      BY <1>13, <2>4 DEF Syncing, BlocksPhase
    <3>2. asked[p] = (tip + 1)..AskedTo(headers) /\ InLine(wire[p], asked[p])
      <4>1. asked[p] \ Pending(p) = asked[p]
        BY <1>4
      <4> QED
        BY <2>1, <3>1, <4>1 DEF BlocksOf
    <3>3. /\ m.kind \in {"inv", "block"}
          /\ m.kind = "inv" => InLine(rest, asked[p])
          /\ m.kind = "block" =>
               /\ m.from \in asked[p] /\ \A n \in asked[p] : m.from <= n
               /\ InLine(rest, asked[p] \ {m.from})
      BY <1>4, <3>2, InLineTail
    <3> HIDE DEF m, rest
    <3>4. m.kind = "block" => m.from = tip + 1
      <4>1. tip \in Nat /\ AskedTo(headers) \in Nat /\ tip + 1 <= AskedTo(headers)
        BY <3>1, SyncIs, AskedToIs
      <4>2. tip + 1 \in asked[p]
        BY <3>2, <4>1
      <4>3. m.kind = "block" => m.from \in (tip + 1)..AskedTo(headers) /\ m.from <= tip + 1
        BY <3>2, <3>3, <4>2
      <4> QED
        BY <4>1, <4>3
    <3>5. asked[p] \ {} = asked[p]
      OBVIOUS
    <3>6. InLine(rest, asked[p] \ Pending(p)')
      BY <1>6, <3>3, <3>5
    <3>7. BlocksOf(p)'
      BY <1>2, <1>3, <1>5, <1>6, <3>1, <3>3, <3>4, <3>6 DEF BlocksOf
    <3>8. BlocksPhase'
      BY <1>2, <1>3, <1>13, <2>2, <3>1, <3>7 DEF BlocksPhase
    <3> QED
      BY <1>2, <1>3, <1>4, <1>8, <1>13, <2>1, <2>4, <3>8 DEF Syncing
  <2> QED
    BY <2>3, <2>4
<1> QED
  BY <1>12, <1>13

\* No block comes compact.
LEMMA NoneCompact ==
  ASSUME Base, Syncing, NEW p \in Peer, NEW kinds, Read(p, kinds)
  PROVE  Head(wire[p]).kind \in {"inv", "headers", "block"}
<1>1. /\ link[p] = "up" /\ job[p] = Idle /\ Pending(p) = {}
      /\ wire[p] \in Seq(Msg) /\ wire[p] # <<>>
  BY ReadIs
<1>2. CASE p # load
  BY <1>1, <1>2, PlainParts DEF Syncing, Out
<1>3. CASE p = load
  <2>1. CASE HeadersPhase
    <3>1. HeadersOf(p)
      BY <1>3, <2>1, PoolAssumption DEF HeadersPhase
    <3>2. CASE p \in syncing \ asking
      BY <1>1, <3>1, <3>2, AnnouncesTail DEF HeadersOf
    <3>3. CASE p \notin syncing \ asking
      BY <1>1, <3>1, <3>3, PlainParts DEF HeadersOf
    <3> QED
      BY <3>2, <3>3
  <2>2. CASE BlocksPhase
    <3>1. InLine(wire[p], asked[p] \ Pending(p))
      BY <1>3, <2>2 DEF BlocksPhase, BlocksOf
    <3> QED
      BY <1>1, <3>1, InLineTail
  <2> QED
    BY <2>1, <2>2, SyncIs
<1> QED
  BY <1>2, <1>3

LEMMA IgnoreSync ==
  ASSUME Base, Syncing, checkpoints, NEW p \in Peer, Ignore(p)
  PROVE  Syncing'
<1>1. Types /\ Data /\ LockInv /\ LinkInv
  BY BaseParts
<1>2. /\ lock # <<>> /\ Head(lock) = p /\ ~adding /\ Ignored(p, job[p].kind) /\ Unlock(p)
      /\ link' = link /\ asked' = asked /\ load' = load /\ header' = header
      /\ syncing' = syncing /\ asking' = asking /\ chain' = chain /\ wire' = wire
      /\ resync' = resync
  BY DEF Ignore, Holds, requests, peers, remote
<1>3. /\ tip' = tip /\ headers' = headers /\ orphans' = orphans /\ synced' = synced
      /\ job' = [job EXCEPT ![p] = Idle] /\ adding' = FALSE
  BY <1>2 DEF chain, header, Unlock
<1>4. job'[p] = Idle /\ \A q \in Peer \ {p} : job'[q] = job[q]
  BY <1>1, <1>3 DEF Types
<1>5. \A q \in Peer : job'[q] = job[q] \/ job'[q] = Idle
  BY <1>4
<1>6. ASSUME NEW q \in Peer, Out(q) PROVE Out(q)'
  BY <1>2, <1>5, <1>6, OutSame DEF Out
<1>7. load \in Peer \cup {None} /\ None \notin Peer
  BY SyncIs
<1>8. ASSUME NEW l \in Peer, l = load, HeadersPhase PROVE HeadersOf(l)'
  <2>1. HeadersOf(l)
    BY <1>7, <1>8 DEF HeadersPhase
  <2>2. job'[l].kind \notin {"headers", "block"} \/ job'[l] = job[l]
    BY <1>5, IdleIsNone
  <2> QED
    BY <1>2, <1>3, <2>1, <2>2 DEF HeadersOf
<1>9. ASSUME NEW l \in Peer, l = load, BlocksPhase PROVE BlocksOf(l)'
  <2>1. BlocksOf(l)
    BY <1>9 DEF BlocksPhase
  <2>2. p = l => job[p].kind # "block"
    BY <1>2, <1>9, <2>1 DEF BlocksOf, Ignored
  <2>3. Pending(l)' = Pending(l)
    <3>1. CASE p = l
      BY <1>4, <2>2, <3>1, NotWaiting, NotWaitingThen
    <3>2. CASE p # l
      BY <1>1, <1>2, <3>2, PendingSame, Unlocked DEF LockMove
    <3> QED
      BY <3>1, <3>2
  <2>4. job'[l].kind \notin {"headers", "block"} \/ job'[l] = job[l]
    BY <1>5, IdleIsNone
  <2> QED
    BY <1>2, <1>3, <2>1, <2>3, <2>4 DEF BlocksOf
<1>10. load' # None /\ link'[load'] # "up" => Out(load)'
  BY <1>2, <1>6, <1>7 DEF Syncing
<1>11. headers'.first # tip' => BlocksPhase'
  <2> SUFFICES ASSUME headers.first # tip PROVE BlocksPhase'
    BY <1>3
  <2>1. BlocksPhase
    BY DEF Syncing
  <2> QED
    BY <1>2, <1>3, <1>7, <1>9, <2>1 DEF BlocksPhase
<1>12. headers'.first = tip' => HeadersPhase'
  <2> SUFFICES ASSUME headers.first = tip PROVE HeadersPhase'
    BY <1>3
  <2>1. HeadersPhase
    BY <1>2 DEF Syncing
  <2> QED
    BY <1>2, <1>3, <1>7, <1>8, <2>1 DEF HeadersPhase
<1>13. \A q \in Peer : q # load' => Out(q)'
  BY <1>2, <1>6 DEF Syncing
<1> QED
  BY <1>2, <1>3, <1>10, <1>11, <1>12, <1>13 DEF Syncing

\* A block is asked of nobody but the loader.
LEMMA AskedOfLoader ==
  ASSUME Base, Syncing, RequestsAgree
  PROVE  /\ load = None => blockMap = {}
         /\ \A p \in Peer : p = load => blockMap = asked[p]
BY SyncIs DEF Syncing, Out, RequestsAgree, Together

\* Headers of the loader follow the last, so it is not destroyed.
LEMMA HeadersFollow ==
  ASSUME Base, Syncing, checkpoints, NEW p \in Peer, Holds(p, "headers"),
         ~Ignored(p, "headers")
  PROVE  /\ load = p /\ headers.first = tip /\ HeadersPhase /\ HeadersOf(p)
         /\ p \in syncing \ asking /\ Plain(wire[p]) /\ link[p] = "up"
         /\ Follows(job[p], headers.last, headers.target)
<1>1. load = p /\ job[p].kind = "headers" /\ ~adding /\ link[p] = "up"
  BY HoldsIs DEF Ignored
<1>2. headers.first = tip /\ HeadersPhase
  BY <1>1 DEF Syncing, BlocksPhase, BlocksOf
<1>3. HeadersOf(p)
  BY <1>1, <1>2, PoolAssumption DEF HeadersPhase
<1> QED
  BY <1>1, <1>2, <1>3 DEF HeadersOf

\* Pages of MaxInv.
LEMMA Pages ==
  ASSUME NEW a \in Nat, NEW b \in Nat, a <= b
  PROVE  LET next == IF a + MaxInv > b THEN 0 ELSE a + MaxInv
             to == IF next = 0 THEN b ELSE next - 1
         IN /\ Min({b, a + MaxInv - 1}) = to
            /\ to \in Nat /\ a <= to /\ to <= b /\ to < a + MaxInv
            /\ next = 0 \/ (a + 1 <= next /\ next <= b)
            /\ next \in Nat
<1> DEFINE T == {b, a + MaxInv - 1}
           next == IF a + MaxInv > b THEN 0 ELSE a + MaxInv
           to == IF next = 0 THEN b ELSE next - 1
<1>1. T \in SUBSET Nat /\ T # {} /\ MaxInv \in Nat /\ MaxInv > 0
  BY Numbers
<1>2. Min(T) \in T /\ \A y \in T : Min(T) <= y
  BY <1>1, MinIs
<1>3. Min(T) = b \/ Min(T) = a + MaxInv - 1
  BY <1>2
<1>4. Min(T) <= b /\ Min(T) <= a + MaxInv - 1 /\ Min(T) \in Nat
  BY <1>1, <1>2
<1> HIDE DEF T
<1>5. to = IF a + MaxInv > b THEN b ELSE a + MaxInv - 1
  BY <1>1
<1>6. Min(T) = to
  BY <1>1, <1>3, <1>4, <1>5
<1> QED
  BY <1>1, <1>5, <1>6 DEF T

\* One page is less than may be asked of a peer.
LEMMA HeadersFit ==
  ASSUME Base, Syncing, checkpoints, RequestsAgree, NEW p \in Peer, Holds(p, "headers"),
         ~Ignored(p, "headers")
  PROVE  LET m == job[p]
             hs == [headers EXCEPT !.last = m.to, !.next = IF @ = 0 THEN m.from ELSE @]
         IN ~TooMany(p, Unresolved(hs))
<1> DEFINE m == job[p]
           hs == [headers EXCEPT !.last = m.to, !.next = IF @ = 0 THEN m.from ELSE @]
           S == Unresolved(hs)
<1>1. HeadersPhase /\ HeadersOf(p) /\ load = p /\ m.from = headers.last + 1 /\ m.from <= m.to
  BY HeadersFollow DEF Follows
<1>2. asked[p] = {} /\ blockMap = {}
  BY <1>1, AskedOfLoader DEF HeadersOf
<1>3. /\ tip \in Nat /\ headers.last \in Nat /\ m.to \in Nat /\ m.from \in Nat
      /\ headers \in [first : Nat, last : 0..Top, next : Nat, target : Nat]
  BY BaseParts, HoldsIs, Numbers DEF Data, Blocks
<1>4. tip <= headers.last /\ headers.next = IF headers.last = tip THEN 0 ELSE tip + 1
  BY <1>1 DEF HeadersPhase
<1>5. hs.next = tip + 1 /\ hs.last = m.to /\ hs.next # 0
  BY <1>1, <1>3, <1>4
<1>6. S = (tip + 1)..Min({m.to, tip + 1 + MaxInv - 1})
  BY <1>5 DEF Unresolved
<1> DEFINE to == Min({m.to, tip + 1 + MaxInv - 1})
<1>7. to \in Nat /\ tip + 1 <= to /\ to < tip + 1 + MaxInv
  <2>1. tip + 1 \in Nat /\ tip + 1 <= m.to
    BY <1>1, <1>3, <1>4
  <2> HIDE DEF m
  <2> QED
    BY <1>3, <2>1, Pages
<1> HIDE DEF m, hs, S, to
<1>8. Cardinality((tip + 1)..to) = to - tip
  <2>1. Cardinality((tip + 1)..to) = IF tip + 1 <= to THEN to - (tip + 1) + 1 ELSE 0
    BY <1>3, <1>7, FS_Interval
  <2> QED
    BY <1>3, <1>7, <2>1
<1>9. Cardinality(asked[p] \cup (S \ blockMap)) = to - tip
  <2>1. asked[p] \cup (S \ blockMap) = (tip + 1)..to
    BY <1>2, <1>6 DEF to
  <2> QED
    BY <1>8, <2>1
<1>10. ~(to - tip >= MaxRequest)
  BY <1>3, <1>7, Numbers
<1> QED
  BY <1>9, <1>10 DEF TooMany, m, hs, S

LEMMA HandleHeadersSync ==
  ASSUME Base, Syncing, checkpoints, RequestsAgree, Quiet, ~crowded', NEW p \in Peer,
         HandleHeaders(p)
  PROVE  Syncing'
<1>1. Types /\ Data /\ LockInv /\ LinkInv
  BY BaseParts
<1> DEFINE m == job[p]
           hs == [headers EXCEPT !.last = m.to, !.next = IF @ = 0 THEN m.from ELSE @]
           S == Unresolved(hs)
<1>2. /\ Holds(p, "headers") /\ ~Ignored(p, "headers") /\ Unlock(p) /\ chain' = chain
  BY DEF HandleHeaders
<1>3. /\ load = p /\ headers.first = tip /\ HeadersPhase /\ HeadersOf(p)
      /\ p \in syncing \ asking /\ Plain(wire[p]) /\ link[p] = "up"
      /\ m.from = headers.last + 1 /\ m.from <= m.to /\ m.to <= headers.target
  BY <1>2, HeadersFollow DEF Follows
<1>4. m \in Msg /\ m.from \in Blocks /\ m.to \in Blocks /\ wire[p] \in Seq(Msg)
  BY <1>1, <1>2, HoldsIs DEF Data
<1>5. /\ headers.target \in Nat /\ tip \in Nat /\ headers.last \in Nat /\ m.from \in Nat
      /\ m.to \in Nat /\ headers.target \in Checkpoints /\ tip < headers.target
      /\ headers \in [first : Nat, last : 0..Top, next : Nat, target : Nat]
      /\ m.to \in 0..Top /\ tip + 1 # 0
  <2>1. /\ headers.target \in Nat /\ headers.target \in Checkpoints /\ tip < headers.target
        /\ tip \in Nat
    BY SyncIs
  <2>2. headers \in [first : Nat, last : 0..Top, next : Nat, target : Nat] /\ Top \in Nat
    BY <1>1, Numbers DEF Data
  <2>3. m.from \in Nat /\ m.to \in Nat /\ m.to \in 0..Top /\ headers.last \in Nat
    BY <1>4, <2>2 DEF Blocks
  <2>4. tip + 1 # 0
    BY <2>1
  <2> QED
    BY <2>1, <2>2, <2>3, <2>4
<1>6. /\ tip <= headers.last /\ headers.next = IF headers.last = tip THEN 0 ELSE tip + 1
  BY <1>3 DEF HeadersPhase
<1>7. hs = [first |-> tip, last |-> m.to, next |-> tip + 1, target |-> headers.target]
  <2>1. (IF headers.next = 0 THEN m.from ELSE headers.next) = tip + 1
    BY <1>3, <1>5, <1>6
  <2>2. /\ headers = [first |-> tip, last |-> headers.last, next |-> headers.next,
                      target |-> headers.target]
        /\ headers.first = tip
    BY <1>3, <1>5
  <2>3. hs = [headers EXCEPT !.last = m.to, !.next = tip + 1]
    BY <2>1
  <2> HIDE DEF hs
  <2> QED
    BY <2>2, <2>3
<1>8. /\ headers.target \in m.from..m.to =>
           /\ headers' = [hs EXCEPT !.first = @ + 1, !.next = NextLeft(hs)]
           /\ Asked(p, S) /\ SentGetData(p, S \ blockMap)
           /\ headers.target - headers.first <= MaxRequest
      /\ headers.target \notin m.from..m.to =>
           /\ headers' = hs
           /\ Sent(p, GetHeaders(m.to, headers.target))
           /\ UNCHANGED <<asked, blockMap>>
      /\ checkpoints' = checkpoints /\ resync' = resync
      /\ link' = link /\ load' = load /\ syncing' = syncing /\ asking' = asking
  <2>1. ~TooMany(p, S)
    BY <1>2, HeadersFit DEF hs, S
  <2>2. ~(m.from # headers.last + 1)
    BY <1>3
  <2>3. CASE headers.target \in m.from..m.to
    <3>1. /\ crowded' = (crowded \/ headers.target - headers.first > MaxRequest)
          /\ headers' = [hs EXCEPT !.first = @ + 1, !.next = NextLeft(hs)]
          /\ Asked(p, S) /\ SentGetData(p, S \ blockMap)
          /\ UNCHANGED <<checkpoints, half, compactBlocks, peers, resync, refill, blamed>>
      BY <2>1, <2>2, <2>3 DEF HandleHeaders
    <3>2. ~(headers.target - headers.first > MaxRequest)
      BY <3>1
    <3>3. headers.target - headers.first <= MaxRequest
      BY <1>3, <1>5, <3>2, Numbers
    <3> QED
      BY <2>3, <3>1, <3>3 DEF peers
  <2>4. CASE headers.target \notin m.from..m.to
    BY <2>2, <2>4 DEF HandleHeaders, peers, requests
  <2> QED
    BY <2>3, <2>4
<1>9. /\ job'[p] = Idle /\ Pending(p)' = {} /\ adding' = FALSE
      /\ \A q \in Peer \ {p} : job'[q] = job[q]
  BY <1>1, <1>2, Unlocked DEF Holds, Unlock, Types
<1>10. tip' = tip /\ orphans' = orphans /\ synced' = synced
  BY <1>2 DEF chain
<1>11. asked[p] = {} /\ blockMap = {}
  BY <1>3, AskedOfLoader DEF HeadersOf
<1>12. ASSUME NEW q \in Peer, q # p, asked'[q] = asked[q], wire'[q] = wire[q]
       PROVE  Out(q)'
  <2>1. Out(q)
    BY <1>3, <1>12 DEF Syncing
  <2> QED
    BY <1>8, <1>9, <1>12, <2>1, OutSame DEF Out
<1> HIDE DEF hs
<1>13. CASE headers.target \in m.from..m.to
  <2>1. m.to = headers.target
    BY <1>3, <1>5, <1>13
  <2>2. headers' = [first |-> tip + 1, last |-> headers.target, next |-> NextLeft(hs),
                    target |-> headers.target]
    <3>1. headers' = [hs EXCEPT !.first = @ + 1, !.next = NextLeft(hs)]
      BY <1>8, <1>13
    <3> QED
      BY <1>7, <2>1, <3>1
  <2> DEFINE to == AskedTo(headers')
  <2>3. /\ S = (tip + 1)..to /\ to <= headers.target /\ to \in Nat
        /\ headers'.next = 0
           \/ (tip + 2 <= headers'.next /\ headers'.next <= headers.target)
    <3>1. /\ hs.next = tip + 1 /\ hs.last = headers.target /\ hs.next # 0
          /\ headers'.next = NextLeft(hs) /\ headers'.target = headers.target
      BY <1>5, <1>7, <2>1, <2>2
    <3>2. /\ S = (tip + 1)..Min({headers.target, tip + 1 + MaxInv - 1})
          /\ NextLeft(hs) = IF tip + 1 + MaxInv > headers.target THEN 0 ELSE tip + 1 + MaxInv
      BY <3>1 DEF S, Unresolved, NextLeft
    <3>3. AskedTo(headers') = IF NextLeft(hs) = 0 THEN headers.target ELSE NextLeft(hs) - 1
      BY <3>1 DEF AskedTo
    <3> QED
      BY <1>5, <3>1, <3>2, <3>3, Pages
  <2>4. S \in SUBSET Blocks /\ S \ blockMap = S
    <3>1. headers.target <= Top
      BY <1>5, <2>1, Numbers
    <3> QED
      <4>1. Top \in Nat /\ S \ blockMap = S
        BY <1>11, Numbers
      <4> HIDE DEF S, to
      <4>2. \A n \in (tip + 1)..to : n \in 1..Top
        BY <1>5, <2>3, <3>1, <4>1
      <4> QED
        BY <2>3, <4>1, <4>2 DEF Blocks
  <2>5. \A n \in S, c \in Compact : n # c
    <3> TAKE n \in S, c \in Compact
    <3>1. headers.target < c /\ c \in Nat
      BY <1>5, Numbers, PoolAssumption
    <3> HIDE DEF S, to
    <3> QED
      BY <1>5, <2>3, <3>1
  <2> HIDE DEF S, to
  <2>6. /\ asked'[p] = S /\ \A q \in Peer \ {p} : asked'[q] = asked[q]
    <3>1. Asked(p, S)
      BY <1>8, <1>13
    <3>2. /\ asked'[p] = asked[p] \cup (S \ blockMap)
          /\ \A q \in Peer \ {p} : asked'[q] = asked[q]
      BY <1>1, <2>4, <3>1, AskedIs
    <3> QED
      BY <1>11, <2>4, <3>2
  <2>7. GetData(S) \in Seq(Msg) /\ InLine(GetData(S), S)
    BY <2>4, <2>5, GetDataIs
  <2>8. /\ wire'[p] = wire[p] \o GetData(S)
        /\ \A q \in Peer \ {p} : wire'[q] = wire[q]
    <3>1. cont[p] = 0 /\ cont[p] \in 0..best /\ best \in 0..Top
      BY <1>1 DEF Quiet, Data
    <3>2. Delivery(p, S) = GetData(S)
      BY <2>4, <3>1, DeliveryIs
    <3>3. SentGetData(p, S)
      BY <1>8, <1>13, <2>4
    <3>4. Sent(p, GetData(S))
      BY <3>2, <3>3 DEF SentGetData
    <3> QED
      BY <1>1, <3>4 DEF Sent, Data
  <2>9. InLine(wire'[p], S)
    BY <1>3, <1>4, <2>7, <2>8, InLineJoin
  <2>10. BlocksOf(p)'
    <3>1. asked'[p] \ Pending(p)' = S
      BY <1>9, <2>6
    <3>2. asked'[p] = (tip + 1)..AskedTo(headers)'
      BY <2>3, <2>6 DEF to, AskedTo
    <3>3. job'[p].kind \notin {"headers", "block"}
      BY <1>9, IdleIsNone
    <3> QED
      BY <1>3, <1>8, <1>9, <1>10, <2>9, <3>1, <3>2, <3>3 DEF BlocksOf
  <2>11. BlocksPhase' /\ headers'.first # tip'
    <3>1. headers'.first = tip' + 1 /\ headers'.last = headers'.target /\ headers'.first # tip'
      BY <1>5, <1>10, <2>2
    <3>2. headers'.next = 0 \/ (tip' + 2 <= headers'.next /\ headers'.next <= headers'.target)
      BY <1>10, <2>2, <2>3
    <3>3. headers'.target - tip' <= MaxRequest
      BY <1>3, <1>8, <1>10, <1>13, <2>2
    <3>4. load' # None /\ load' = p
      BY <1>3, <1>8, PoolAssumption
    <3> QED
      BY <2>10, <3>1, <3>2, <3>3, <3>4 DEF BlocksPhase
  <2>12. headers'.target = NextTip(tip')
    BY <1>10, <2>2, SyncIs
  <2>13. \A q \in Peer : q # p => Out(q)'
    BY <1>12, <2>6, <2>8
  <2> QED
    BY <1>3, <1>8, <1>9, <1>10, <2>11, <2>12, <2>13 DEF Syncing
<1>14. CASE headers.target \notin m.from..m.to
  <2>1. m.to < headers.target /\ m.to # tip /\ tip <= m.to
    BY <1>3, <1>5, <1>6, <1>14
  <2>2. headers' = [first |-> tip, last |-> m.to, next |-> tip + 1, target |-> headers.target]
    BY <1>7, <1>8, <1>14
  <2> DEFINE s == GetHeaders(m.to, headers.target)
  <2>3. s \in Seq(Msg) /\ Announces(s, m.to, headers.target)
    BY <1>1, <1>5, GetHeadersIs DEF Data
  <2>4. Sent(p, s) /\ asked' = asked
    BY <1>8, <1>14
  <2> HIDE DEF s
  <2>5. /\ wire'[p] = wire[p] \o s /\ \A q \in Peer \ {p} : wire'[q] = wire[q]
    BY <1>1, <2>4 DEF Sent, Data
  <2>6. Announces(wire'[p], m.to, headers.target)
    BY <1>3, <1>4, <2>3, <2>5, AnnouncesJoin
  <2>7. HeadersOf(p)'
    <3>1. job'[p].kind \notin {"headers", "block"}
      BY <1>9, IdleIsNone
    <3>2. headers'.last = m.to /\ headers'.target = headers.target
      BY <2>2
    <3> QED
      BY <1>3, <1>8, <1>11, <2>4, <2>6, <3>1, <3>2 DEF HeadersOf
  <2>8. HeadersPhase' /\ headers'.first = tip'
    BY <1>3, <1>8, <1>10, <2>1, <2>2, <2>7, PoolAssumption DEF HeadersPhase
  <2>9. headers'.target = NextTip(tip')
    BY <1>10, <2>2, SyncIs
  <2>10. \A q \in Peer : q # p => Out(q)'
    BY <1>12, <2>4, <2>5
  <2> QED
    BY <1>3, <1>8, <1>9, <1>10, <2>8, <2>9, <2>10 DEF Syncing
<1> QED
  BY <1>13, <1>14

LEMMA AddBlockSync ==
  ASSUME Base, Syncing, NEW p \in Peer, AddBlock(p)
  PROVE  Syncing'
<1>1. Types /\ Data /\ LockInv /\ LinkInv /\ PeerWire(p)
  BY BaseParts
<1> DEFINE n == job[p].from
<1>2. Holds(p, "block") /\ ~Ignored(p, "block") /\ chain' = chain
  BY DEF AddBlock
<1>3. /\ lock # <<>> /\ Head(lock) = p /\ ~adding /\ job[p].kind = "block"
      /\ n \in Blocks /\ link[p] = "up"
  BY <1>2, HoldsIs
<1>4. p = load /\ p # None
  BY <1>3, LoaderIs, PoolAssumption
<1>5. BlocksPhase /\ BlocksOf(p) /\ headers.first # tip
  <2>1. headers.first # tip
    BY <1>3, <1>4 DEF Syncing, HeadersPhase, HeadersOf
  <2> QED
    BY <1>4, <2>1 DEF Syncing, BlocksPhase
<1>6. Pending(p) = {n} /\ n = tip + 1
  BY <1>3, <1>5 DEF Pending, Waits, BlocksOf
<1>7. n \in asked[p]
  BY <1>1, <1>6 DEF PeerWire
<1>8. /\ Resolved(p, n) /\ adding' = TRUE /\ header' = header
      /\ link' = link /\ load' = load /\ syncing' = syncing /\ asking' = asking
      /\ job' = job /\ lock' = lock /\ wire' = wire /\ resync' = resync
  BY <1>7 DEF AddBlock, peers, remote
<1>9. /\ tip' = tip /\ orphans' = orphans /\ synced' = synced /\ headers' = headers
  BY <1>2, <1>8 DEF chain, header
<1>10. /\ asked'[p] = asked[p] \ {n} /\ \A q \in Peer \ {p} : asked'[q] = asked[q]
  BY <1>1, <1>8 DEF Resolved, Data
<1>11. Pending(p)' = {}
  BY <1>3, <1>8, NotWaitingThen
<1> DEFINE to == AskedTo(headers)
<1>12. asked[p] = (tip + 1)..to
  BY <1>3, <1>5 DEF BlocksOf
<1>13. asked'[p] = (tip + 2)..to
  <2>1. tip \in Nat /\ to \in Nat
    BY <1>5, SyncIs, AskedToIs
  <2> HIDE DEF to
  <2> QED
    BY <1>6, <1>10, <1>12, <2>1
<1>14. InLine(wire'[p], asked'[p] \ Pending(p)')
  <2>1. asked'[p] \ Pending(p)' = asked[p] \ Pending(p)
    BY <1>6, <1>10, <1>11
  <2> QED
    BY <1>5, <1>8, <2>1 DEF BlocksOf
<1>15. BlocksPhase'
  <2>1. asked'[p] = (tip + 2)..AskedTo(headers')
    BY <1>9, <1>13
  <2>2. BlocksOf(p)'
    BY <1>5, <1>8, <1>9, <1>14, <2>1 DEF BlocksOf, AskedTo
  <2> QED
    BY <1>4, <1>5, <1>8, <1>9, <2>2 DEF BlocksPhase
<1>16. ASSUME NEW q \in Peer, q # p PROVE Out(q)'
  BY <1>4, <1>8, <1>10, <1>16, OutSame DEF Syncing, Out
<1> QED
  BY <1>3, <1>4, <1>8, <1>9, <1>15, <1>16 DEF Syncing

\* The block that was added is the next of the headers, so its peer is not destroyed.
LEMMA AddedNext ==
  ASSUME Base, Syncing, checkpoints, NEW p \in Peer, AddedBlock(p)
  PROVE  LET n == job[p].from
         IN /\ n = tip + 1 /\ n = headers.first /\ load = p /\ BlocksPhase /\ BlocksOf(p)
            /\ adding /\ Head(lock) = p
            /\ tip' = n /\ orphans' = {} /\ ~synced' /\ Unlock(p)
            /\ ResolveChain(p, n, n, FALSE, {})
<1> DEFINE n == job[p].from
           full == synced \/ Connected(n) >= Recent
<1>1. adding /\ Head(lock) = p
  BY DEF AddedBlock
<1>2. load = p /\ BlocksPhase /\ BlocksOf(p)
  BY <1>1, SyncIs DEF BlocksPhase
<1>3. job[p].kind = "block" /\ n \in Blocks
  BY <1>1, AddedIs
<1>4. n = tip + 1 /\ n = headers.first
  BY <1>2, <1>3 DEF BlocksPhase, BlocksOf
<1>5. tip \in Nat /\ tip < headers.target /\ headers.target < Recent /\ headers.target \in Nat
      /\ Recent \in Nat
  BY SyncIs, Numbers
<1>6. Connected(n) = n /\ ~full /\ full \in BOOLEAN
  BY <1>3, <1>4, <1>5, ConnectedIs DEF Syncing
<1>7. ~(n <= tip \/ n \in orphans) /\ ~(n > tip + 1)
  BY <1>4, <1>5 DEF Syncing
<1>8. /\ tip' = Connected(n) /\ orphans' = orphans \ n..Connected(n) /\ synced' = full
      /\ ResolveChain(p, n, Connected(n), full,
                      IF full /\ ~synced THEN resync \cup {FALSE} ELSE resync)
      /\ Unlock(p)
  BY <1>7 DEF AddedBlock
<1>9. resync = {} /\ orphans = {}
  BY DEF Syncing
<1>10. full = FALSE
  BY <1>6
<1> HIDE DEF n, full
<1>11. ResolveChain(p, n, n, FALSE, {})
  BY <1>6, <1>8, <1>9, <1>10
<1>12. tip' = n /\ orphans' = {} /\ ~synced'
  BY <1>6, <1>8, <1>9
<1> QED
  BY <1>1, <1>2, <1>4, <1>8, <1>11, <1>12 DEF n

\* The next page of blocks goes on where the last ended, and all that are asked for
\* are less than may be.
LEMMA BlocksFit ==
  ASSUME Base, Syncing, RequestsAgree, adding, NEW p \in Peer, load = p,
         tip + 1 < headers.target
  PROVE  LET S == Unresolved(headers)
             hs == [headers EXCEPT !.first = @ + 1, !.next = NextLeft(headers)]
         IN /\ hs = [first |-> tip + 2, last |-> headers.target,
                     next |-> NextLeft(headers), target |-> headers.target]
            /\ S \in SUBSET Blocks /\ S \ blockMap = S
            /\ \A a \in asked[p], b \in S : a < b
            /\ \A b \in S, c \in Compact : b # c
            /\ asked[p] \cup S = (tip + 2)..AskedTo(hs)
            /\ hs.next = 0 \/ (tip + 3 <= hs.next /\ hs.next <= headers.target)
            /\ ~TooMany(p, S)
<1> DEFINE S == Unresolved(headers)
           hs == [headers EXCEPT !.first = @ + 1, !.next = NextLeft(headers)]
           a == headers.next
           b == headers.target
<1>1. /\ BlocksPhase /\ BlocksOf(p) /\ headers.first = tip + 1 /\ headers.last = b
      /\ a = 0 \/ (tip + 2 <= a /\ a <= b)
      /\ b - tip <= MaxRequest /\ asked[p] = (tip + 2)..AskedTo(headers)
  BY SyncIs DEF BlocksPhase, BlocksOf
<1>2. tip \in Nat /\ a \in Nat /\ b \in Nat /\ b \in Checkpoints
  BY SyncIs, AskedToIs, <1>1
<1>3. headers \in [first : Nat, last : 0..Top, next : Nat, target : Nat]
  BY BaseParts DEF Data
<1>4. blockMap = asked[p]
  BY AskedOfLoader
<1>5. b <= Top /\ Top \in Nat /\ MaxRequest \in Nat
  BY <1>1, <1>3, Numbers
<1>6. hs = [first |-> tip + 2, last |-> b, next |-> NextLeft(headers), target |-> b]
  <2>1. headers = [first |-> tip + 1, last |-> b, next |-> a, target |-> b]
    BY <1>1, <1>3
  <2>2. tip + 1 + 1 = tip + 2
    BY <1>2
  <2>3. headers.first + 1 = tip + 2
    BY <1>1, <2>2
  <2>4. hs = [headers EXCEPT !.first = tip + 2, !.next = NextLeft(headers)]
    BY <2>3
  <2> HIDE DEF hs, a, b
  <2> QED
    BY <2>1, <2>4
<1>7. \E to \in Nat :
      /\ to <= b /\ AskedTo(hs) = to /\ asked[p] \cup S = (tip + 2)..to
      /\ tip + 2 <= to
      /\ S = {} \/ (S = a..to /\ asked[p] = (tip + 2)..(a - 1))
      /\ (S # {} => a # 0)
      /\ hs.next = 0 \/ (tip + 3 <= hs.next /\ hs.next <= b)
  <2>1. hs.next = NextLeft(headers) /\ hs.target = b
    BY <1>6
  <2>2. CASE a = 0
    <3>1. S = {} /\ hs.next = 0 /\ AskedTo(hs) = b /\ asked[p] = (tip + 2)..b
      BY <1>1, <2>1, <2>2 DEF Unresolved, NextLeft, AskedTo
    <3>2. tip + 2 <= b
      BY <1>2
    <3> HIDE DEF S, hs, a
    <3> QED
      BY <1>2, <3>1, <3>2
  <2>3. CASE a # 0
    <3> DEFINE next == IF a + MaxInv > b THEN 0 ELSE a + MaxInv
               to == IF next = 0 THEN b ELSE next - 1
    <3>1. /\ tip + 2 <= a /\ a <= b /\ S = a..Min({b, a + MaxInv - 1})
          /\ NextLeft(headers) = next /\ asked[p] = (tip + 2)..(a - 1)
      BY <1>1, <2>3 DEF Unresolved, NextLeft, AskedTo
    <3>2. /\ Min({b, a + MaxInv - 1}) = to
          /\ to \in Nat /\ a <= to /\ to <= b
          /\ next = 0 \/ (a + 1 <= next /\ next <= b)
          /\ next \in Nat
      <4> HIDE DEF a, b
      <4> QED
        BY <1>2, <3>1, Pages
    <3>3. AskedTo(hs) = to /\ hs.next = next /\ S = a..to
      BY <2>1, <3>1, <3>2 DEF AskedTo
    <3> HIDE DEF S, hs, a, b, to, next
    <3>4. tip + 2 <= to /\ (next = 0 \/ (tip + 3 <= next /\ next <= b))
      BY <1>2, <3>1, <3>2
    <3>5. (tip + 2)..(a - 1) \cup a..to = (tip + 2)..to
      BY <1>2, <3>1, <3>2
    <3> QED
      BY <2>3, <3>1, <3>2, <3>3, <3>4, <3>5
  <2> QED
    BY <2>2, <2>3
<1>8. PICK to \in Nat :
      /\ to <= b /\ AskedTo(hs) = to /\ asked[p] \cup S = (tip + 2)..to
      /\ tip + 2 <= to
      /\ S = {} \/ (S = a..to /\ asked[p] = (tip + 2)..(a - 1))
      /\ (S # {} => a # 0)
      /\ hs.next = 0 \/ (tip + 3 <= hs.next /\ hs.next <= b)
  BY <1>7
<1> HIDE DEF S, hs, a, b
<1>9. S \subseteq (tip + 2)..to
  BY <1>8
<1>10. S \in SUBSET Blocks
  <2>1. \A x \in (tip + 2)..to : x \in 1..Top
    BY <1>2, <1>5, <1>8
  <2> QED
    BY <1>9, <2>1 DEF Blocks
<1>11. \A x \in asked[p], y \in S : x < y
  BY <1>2, <1>8
<1>12. S \ blockMap = S
  <2>1. \A x \in S : x \notin asked[p]
    BY <1>2, <1>8
  <2> QED
    BY <1>4, <2>1
<1>13. \A x \in S, c \in Compact : x # c
  <2> TAKE x \in S, c \in Compact
  <2>1. b < c /\ c \in Nat
    BY <1>2, Numbers, PoolAssumption
  <2> QED
    BY <1>2, <1>8, <1>9, <2>1
<1>14. ~TooMany(p, S)
  <2>1. Cardinality((tip + 2)..to) = IF tip + 2 <= to THEN to - (tip + 2) + 1 ELSE 0
    BY <1>2, <1>8, FS_Interval
  <2>2. ~(Cardinality((tip + 2)..to) >= MaxRequest)
    BY <1>1, <1>2, <1>5, <1>8, <2>1 DEF b
  <2> QED
    BY <1>8, <1>12, <2>2 DEF TooMany
<1> QED
  BY <1>6, <1>8, <1>10, <1>11, <1>12, <1>13, <1>14 DEF S, hs, b

LEMMA AddedBlockSync ==
  ASSUME Base, Syncing, Quiet, RequestsAgree, checkpoints, checkpoints', NEW p \in Peer,
         AddedBlock(p)
  PROVE  Syncing'
<1>1. Types /\ Data /\ LockInv /\ LinkInv
  BY BaseParts
<1> DEFINE n == job[p].from
<1>2. /\ n = tip + 1 /\ n = headers.first /\ load = p /\ BlocksPhase /\ BlocksOf(p)
      /\ tip' = n /\ orphans' = {} /\ ~synced'
      /\ ResolveChain(p, n, n, FALSE, {})
  BY AddedNext
<1>3. adding /\ Head(lock) = p /\ Unlock(p)
  BY AddedNext
<1>4. lock # <<>> /\ Pending(p) = {} /\ Pending(p)' = {} /\ n \in Blocks
  BY <1>1, <1>3, AddedIs, Unlocked
<1>5. /\ job'[p] = Idle /\ adding' = FALSE /\ \A q \in Peer \ {p} : job'[q] = job[q]
  BY <1>1, <1>3 DEF Unlock, Types
<1>6. /\ asked[p] = (tip + 2)..AskedTo(headers) /\ InLine(wire[p], asked[p])
      /\ link[p] = "up" /\ p \in syncing \ asking
      /\ headers.last = headers.target /\ headers.target - tip <= MaxRequest
      /\ headers.next = 0 \/ (tip + 2 <= headers.next /\ headers.next <= headers.target)
  <2>1. asked[p] \ Pending(p) = asked[p]
    BY <1>4
  <2> QED
    BY <1>2, <1>3, <2>1 DEF BlocksPhase, BlocksOf
<1>7. /\ tip \in Nat /\ tip < headers.target /\ headers.target \in Nat
      /\ headers.target \in Checkpoints /\ headers.target <= LastCheckpoint
      /\ headers.target = NextTip(tip) /\ tip < LastCheckpoint /\ LastCheckpoint \in Nat
      /\ headers \in [first : Nat, last : 0..Top, next : Nat, target : Nat]
      /\ wire[p] \in Seq(Msg) /\ best \in 0..Top /\ n \in Nat
  BY <1>1, <1>2, SyncIs, LastIs DEF Data, Syncing
<1>8. /\ n # LastCheckpoint /\ resync' = {}
      /\ link' = link /\ load' = load /\ syncing' = syncing /\ asking' = asking
      /\ n = headers.target =>
           /\ headers' = [headers EXCEPT !.target = NextTip(n)]
           /\ Sent(p, GetHeaders(n, NextTip(n))) /\ asked' = asked
      /\ n # headers.target =>
           /\ headers' = [headers EXCEPT !.first = @ + 1, !.next = NextLeft(headers)]
           /\ Asked(p, Unresolved(headers))
           /\ SentGetData(p, Unresolved(headers) \ blockMap)
  <2>1. n # headers.target => tip + 1 < headers.target
    BY <1>2, <1>7
  <2>2. n # headers.target => ~TooMany(p, Unresolved(headers))
    BY <1>2, <1>3, <2>1, BlocksFit
  <2> HIDE DEF n
  <2>3. n # LastCheckpoint
    BY <1>2, <2>2 DEF ResolveChain
  <2> QED
    BY <1>2, <2>2, <2>3 DEF ResolveChain, peers
<1>9. ASSUME NEW q \in Peer, q # p, asked'[q] = asked[q], wire'[q] = wire[q]
      PROVE  Out(q)'
  <2>1. Out(q)
    BY <1>2, <1>9 DEF Syncing
  <2> QED
    BY <1>5, <1>8, <1>9, <2>1, OutSame DEF Out
<1>10. job'[p].kind \notin {"headers", "block"}
  BY <1>5, IdleIsNone
<1>11. p # None
  BY PoolAssumption
<1>12. CASE n = headers.target
  <2>1. n < LastCheckpoint
    BY <1>7, <1>8, <1>12
  <2>2. NextTip(n) \in Nat /\ n < NextTip(n)
    BY <1>7, <2>1, NextTipIs
  <2>3. headers' = [first |-> n, last |-> n, next |-> 0, target |-> NextTip(n)]
    <3>0. headers.next = 0
      BY <1>2, <1>6, <1>7, <1>12
    <3>1. headers = [first |-> n, last |-> n, next |-> 0, target |-> headers.target]
      BY <1>2, <1>6, <1>7, <1>12, <3>0
    <3>2. headers' = [headers EXCEPT !.target = NextTip(n)]
      BY <1>8, <1>12
    <3> HIDE DEF n
    <3> QED
      BY <3>1, <3>2
  <2> DEFINE s == GetHeaders(n, NextTip(n))
  <2>4. s \in Seq(Msg) /\ Announces(s, n, NextTip(n))
    BY <1>7, <2>2, GetHeadersIs
  <2>5. Sent(p, s) /\ asked' = asked
    BY <1>8, <1>12
  <2> HIDE DEF s
  <2>6. /\ wire'[p] = wire[p] \o s /\ \A q \in Peer \ {p} : wire'[q] = wire[q]
    BY <1>1, <2>5 DEF Sent, Data
  <2>7. asked[p] = {} /\ Plain(wire[p])
    <3>0. headers.next = 0
      BY <1>2, <1>6, <1>7, <1>12
    <3>1. asked[p] = {}
      BY <1>2, <1>6, <1>7, <1>12, <3>0 DEF AskedTo
    <3> QED
      BY <1>6, <1>7, <3>1, InLineNone
  <2>8. Announces(wire'[p], n, NextTip(n))
    BY <1>7, <2>4, <2>6, <2>7, AnnouncesJoin
  <2> HIDE DEF n
  <2>9. HeadersOf(p)'
    <3>1. headers'.last = n /\ headers'.target = NextTip(n)
      BY <2>3
    <3> QED
      BY <1>6, <1>8, <1>10, <2>5, <2>7, <2>8, <3>1 DEF HeadersOf
  <2>10. HeadersPhase' /\ headers'.first = tip'
    BY <1>2, <1>7, <1>8, <1>11, <2>2, <2>3, <2>9 DEF HeadersPhase
  <2>11. headers'.target = NextTip(tip') /\ tip' < LastCheckpoint
    BY <1>2, <2>1, <2>3
  <2>12. \A q \in Peer : q # p => Out(q)'
    BY <1>9, <2>5, <2>6
  <2> QED
    BY <1>2, <1>5, <1>6, <1>8, <2>10, <2>11, <2>12 DEF Syncing
<1>13. CASE n # headers.target
  <2>1. n < headers.target /\ n < LastCheckpoint /\ NextTip(n) = NextTip(tip)
    <3>1. n < NextTip(tip) /\ tip <= n
      BY <1>2, <1>7, <1>13
    <3> HIDE DEF n
    <3> QED
      BY <1>7, <3>1, NextTipSame
  <2> DEFINE S == Unresolved(headers)
             hs == [headers EXCEPT !.first = @ + 1, !.next = NextLeft(headers)]
             to == AskedTo(hs)
  <2>2. /\ hs = [first |-> tip + 2, last |-> headers.target,
                 next |-> NextLeft(headers), target |-> headers.target]
        /\ S \in SUBSET Blocks /\ S \ blockMap = S
        /\ \A a \in asked[p], b \in S : a < b
        /\ \A b \in S, c \in Compact : b # c
        /\ asked[p] \cup S = (tip + 2)..to
        /\ hs.next = 0 \/ (tip + 3 <= hs.next /\ hs.next <= headers.target)
    <3>1. tip + 1 < headers.target
      BY <1>2, <2>1
    <3> QED
      BY <1>2, <1>3, <3>1, BlocksFit
  <2>3. headers' = hs /\ Asked(p, S) /\ SentGetData(p, S)
    BY <1>8, <1>13, <2>2
  <2>4. AskedTo(headers') = to
    BY <2>3
  <2> HIDE DEF S, hs, to
  <2>5. /\ asked'[p] = asked[p] \cup S /\ \A q \in Peer \ {p} : asked'[q] = asked[q]
    BY <1>1, <2>2, <2>3, AskedIs
  <2>6. /\ wire'[p] = wire[p] \o GetData(S) /\ \A q \in Peer \ {p} : wire'[q] = wire[q]
    <3>1. cont[p] = 0 /\ cont[p] \in 0..best /\ best \in 0..Top
      BY <1>1 DEF Quiet, Data
    <3>2. Delivery(p, S) = GetData(S)
      BY <2>2, <3>1, DeliveryIs
    <3>3. Sent(p, GetData(S))
      BY <2>3, <3>2 DEF SentGetData
    <3> QED
      BY <1>1, <3>3 DEF Sent, Data
  <2>7. InLine(wire'[p], asked'[p])
    <3>1. GetData(S) \in Seq(Msg) /\ InLine(GetData(S), S)
      BY <2>2, GetDataIs
    <3> DEFINE s == GetData(S)
               A == asked[p]
               w == wire[p]
    <3>2. s \in Seq(Msg) /\ InLine(s, S) /\ w \in Seq(Msg) /\ InLine(w, A)
      BY <1>6, <1>7, <3>1
    <3>3. \A a \in A, b \in S : a < b
      BY <2>2
    <3>4. wire'[p] = w \o s /\ asked'[p] = A \cup S
      BY <2>5, <2>6
    <3> HIDE DEF s, A, w
    <3>5. InLine(w \o s, A \cup S)
      BY <3>2, <3>3, InLineMore
    <3> QED
      BY <3>4, <3>5
  <2>8. asked'[p] = (tip' + 1)..to
    <3>1. tip' + 1 = tip + 2
      BY <1>2, <1>7
    <3> QED
      BY <2>2, <2>5, <3>1
  <2> HIDE DEF n
  <2>9. BlocksOf(p)'
    <3>1. asked'[p] \ Pending(p)' = asked'[p]
      BY <1>4
    <3>2. adding' = FALSE /\ asked'[p] = (tip' + 1)..AskedTo(headers')
      BY <1>5, <2>4, <2>8
    <3> QED
      BY <1>6, <1>8, <1>10, <2>7, <3>1, <3>2 DEF BlocksOf, AskedTo
  <2>10. BlocksPhase' /\ headers'.first # tip'
    <3>1. tip' = tip + 1 /\ tip + 1 + 1 = tip + 2 /\ tip + 1 # tip + 2 /\ tip + 1 + 2 = tip + 3
      BY <1>2, <1>7
    <3>2. headers'.first = tip' + 1 /\ headers'.last = headers'.target
          /\ headers'.first # tip' /\ headers'.target = headers.target
      BY <2>2, <2>3, <3>1
    <3>3. headers'.next = 0 \/ (tip' + 2 <= headers'.next /\ headers'.next <= headers'.target)
      BY <2>2, <2>3, <3>1, <3>2
    <3>4. headers'.target - tip' <= MaxRequest
      <4>1. headers.target - (tip + 1) <= MaxRequest
        BY <1>6, <1>7, Numbers
      <4> QED
        BY <3>1, <3>2, <4>1
    <3>5. load' # None /\ load' = p
      BY <1>2, <1>8, <1>11
    <3> QED
      BY <2>9, <3>2, <3>3, <3>4, <3>5 DEF BlocksPhase
  <2>11. headers'.target = NextTip(tip') /\ tip' < LastCheckpoint
    BY <1>2, <1>7, <2>1, <2>2, <2>3
  <2>12. \A q \in Peer : q # p => Out(q)'
    BY <1>9, <2>5, <2>6
  <2> QED
    BY <1>2, <1>5, <1>6, <1>8, <2>10, <2>11, <2>12 DEF Syncing
<1> QED
  BY <1>12, <1>13

LEMMA MineSync == ASSUME Base, Syncing, Mine PROVE Syncing'
<1>1. Types /\ Data /\ LockInv
  BY BaseParts
<1> DEFINE m == Packet("inv", best + 1, best + 1)
           s(p) == IF link[p] = "up" THEN <<m>> ELSE <<>>
<1>2. /\ link' = link /\ LockSame /\ asked' = asked /\ best < Top
      /\ chain' = chain /\ header' = header /\ load' = load /\ syncing' = syncing
      /\ asking' = asking /\ resync' = resync
      /\ wire' = [p \in Peer |-> wire[p] \o s(p)]
  BY DEF Mine, LockSame, handling, requests, peers
<1>3. /\ tip' = tip /\ headers' = headers /\ adding' = adding /\ job' = job /\ lock' = lock
      /\ orphans' = orphans /\ synced' = synced
  BY <1>2 DEF chain, header, LockSame
<1>4. m \in Msg /\ m.kind = "inv"
  BY <1>1, <1>2, Numbers DEF Packet, Msg, Blocks, Data
<1> HIDE DEF m
<1>5. \A p \in Peer : s(p) \in Seq(Msg) /\ Plain(s(p)) /\ wire[p] \in Seq(Msg)
  <2>1. <<m>> \in Seq(Msg) /\ Plain(<<m>>)
    BY <1>4 DEF Plain
  <2>2. <<>> \in Seq(Msg) /\ Plain(<<>>)
    BY DEF Plain
  <2> QED
    BY <1>1, <2>1, <2>2 DEF Data
<1>6. \A p \in Peer : wire'[p] = wire[p] \o s(p)
  BY <1>2
<1> HIDE DEF s
<1>7. ASSUME NEW p \in Peer, Plain(wire[p]) PROVE Plain(wire'[p])
  BY <1>5, <1>6, <1>7, PlainTwice
<1>8. ASSUME NEW p \in Peer, Out(p) PROVE Out(p)'
  BY <1>2, <1>3, <1>7, <1>8 DEF Out
<1>9. load \in Peer \cup {None} /\ None \notin Peer
  BY SyncIs
<1>10. ASSUME NEW l \in Peer, HeadersOf(l) PROVE HeadersOf(l)'
  <2>1. /\ Announces(wire[l], headers.last, headers.target) =>
             Announces(wire'[l], headers.last, headers.target)
    BY <1>5, <1>6, PlainJoined
  <2> QED
    BY <1>2, <1>3, <1>7, <1>10, <2>1 DEF HeadersOf
<1>11. ASSUME NEW l \in Peer, BlocksOf(l) PROVE BlocksOf(l)'
  <2>1. Pending(l)' = Pending(l)
    BY <1>1, <1>2, PendingSame
  <2>2. InLine(wire'[l], asked[l] \ Pending(l))
    BY <1>5, <1>6, <1>11, InLineJoin DEF BlocksOf
  <2> QED
    BY <1>2, <1>3, <1>11, <2>1, <2>2 DEF BlocksOf
<1>12. HeadersPhase => HeadersPhase'
  BY <1>2, <1>3, <1>9, <1>10 DEF HeadersPhase
<1>13. BlocksPhase => BlocksPhase'
  BY <1>2, <1>3, <1>9, <1>11 DEF BlocksPhase
<1>14. load' # None /\ link'[load'] # "up" => Out(load)'
  BY <1>2, <1>8, <1>9 DEF Syncing
<1>15. \A q \in Peer : q # load' => Out(q)'
  BY <1>2, <1>8 DEF Syncing
<1> QED
  BY <1>2, <1>3, <1>12, <1>13, <1>14, <1>15 DEF Syncing

\* The loader is lost with no block of it under way, or another peer is.
LEMMA ClosedSync ==
  ASSUME Base, Syncing, checkpoints, NEW p \in Peer, Closed(p, tip, synced, resync),
         LockSame, chain' = chain, ~(load = p /\ adding)
  PROVE  Syncing'
<1>1. Types /\ Data /\ LockInv /\ LinkInv
  BY BaseParts
<1>2. /\ link'[p] = "none" /\ wire'[p] = <<>> /\ asked'[p] = {}
      /\ \A q \in Peer \ {p} :
           link'[q] = link[q] /\ wire'[q] = wire[q] /\ asked'[q] = asked[q]
  <2>1. tip \in 0..Top
    BY <1>1 DEF Data
  <2> QED
    BY <1>1, <2>1, ClosedTypes
<1>3. /\ load' = IF load = p THEN None ELSE load
      /\ syncing' = syncing \ {p} /\ asking' = asking \ {p} /\ resync' = resync
      /\ load = p => ResetChain(tip)
      /\ load # p => header' = header
  BY DEF Closed, Removed, Syncing
<1>4. /\ tip' = tip /\ orphans' = orphans /\ synced' = synced
      /\ job' = job /\ lock' = lock /\ adding' = adding
  BY DEF chain, LockSame
<1>5. Out(p)'
  BY <1>2, <1>3, OutClosed
<1>6. ASSUME NEW q \in Peer, q # p, Out(q) PROVE Out(q)'
  BY <1>2, <1>3, <1>4, <1>6, OutSame DEF Out
<1>7. load \in Peer \cup {None} /\ None \notin Peer
  BY SyncIs
<1>8. CASE load = p
  <2>1. ~adding /\ load' = None
    BY <1>3, <1>8
  <2>2. tip < LastCheckpoint /\ tip \in Nat /\ headers.target = NextTip(tip) /\ tip < NextTip(tip)
    BY SyncIs DEF Syncing
  <2>3. headers' = [first |-> tip, last |-> tip, next |-> 0, target |-> NextTip(tip)]
    BY <1>3, <1>8, <2>2 DEF ResetChain
  <2>4. HeadersPhase'
    BY <1>4, <2>1, <2>2, <2>3 DEF HeadersPhase
  <2>5. \A q \in Peer : Out(q)'
    BY <1>5, <1>6, <1>8 DEF Syncing
  <2> QED
    BY <1>3, <1>4, <2>1, <2>2, <2>3, <2>4, <2>5 DEF Syncing
<1>9. CASE load # p
  <2>1. load' = load /\ header' = header /\ headers' = headers
    BY <1>3, <1>9 DEF header
  <2>2. /\ adding' \/ headers'.first # tip' => BlocksPhase'
        /\ ~adding' /\ headers'.first = tip' => HeadersPhase'
    BY <1>2, <1>3, <1>7, <1>9, <2>1, PhaseSame
  <2>3. \A q \in Peer : q # load' => Out(q)'
    BY <1>5, <1>6, <2>1 DEF Syncing
  <2>4. load' # None /\ link'[load'] # "up" => Out(load)'
    BY <1>2, <1>6, <1>7, <1>9, <2>1 DEF Syncing
  <2>5. load' # None => link'[load'] # "none"
    BY <1>2, <1>7, <1>9, <2>1 DEF Syncing
  <2> QED
    BY <1>3, <1>4, <2>1, <2>2, <2>3, <2>4, <2>5 DEF Syncing
<1> QED
  BY <1>8, <1>9

LEMMA InitSync == Init => Syncing
<1> SUFFICES ASSUME Init PROVE Syncing
  OBVIOUS
<1>1. /\ tip = 0 /\ ~adding /\ load = None /\ synced = FALSE /\ orphans = {} /\ resync = {}
      /\ headers = [first |-> 0, last |-> 0, next |-> 0, target |-> NextTip(0)]
  BY DEF Init
<1>2. 0 < LastCheckpoint /\ 0 < NextTip(0) /\ NextTip(0) \in Nat
  BY LastIs, NextTipIs
<1>3. \A p \in Peer : Out(p)
  BY IdleIsNone DEF Init, Out, Plain
<1>4. HeadersPhase
  BY <1>1, <1>2 DEF HeadersPhase
<1> QED
  BY <1>1, <1>2, <1>3, <1>4 DEF Syncing

----------------------------------------------------------------------------
\* No inv is handled while the checkpoints are synced.

LEMMA QuietStep ==
  ASSUME Types, Quiet, NEW p \in Peer, resetting' = resetting,
         cont' = cont \/ cont' = [cont EXCEPT ![p] = 0],
         job' = job \/ Unlock(p) \/ \E m \in Msg : Lock(p, m)
  PROVE  Quiet'
<1>1. ASSUME NEW q \in Peer PROVE cont'[q] = 0
  BY DEF Quiet, Types, Data
<1>2. ASSUME NEW q \in Peer PROVE job'[q].kind \notin LeftKinds
  <2>1. job'[q] = job[q] \/ job'[q] = Idle \/ job'[q] \in Msg
    BY DEF Types, Unlock, Lock
  <2> QED
    BY <2>1, IdleIsNone, KindIs DEF Quiet
<1> QED
  BY <1>1, <1>2 DEF Quiet

LEMMA QuietSent ==
  ASSUME Types, Quiet, NEW p \in Peer, NEW S, SentGetData(p, S)
  PROVE  cont' = [cont EXCEPT ![p] = 0]
BY DEF Quiet, SentGetData

LEMMA HandleQuiet ==
  ASSUME Base, Syncing, Quiet, checkpoints, checkpoints', NEW p \in Peer, Handle(p)
  PROVE  Quiet'
<1>0. Types /\ LockInv
  BY BaseParts
<1>1. CASE Open(p) \/ SendSync(p) \/ Ignore(p)
  <2>1. resetting' = resetting /\ (job' = job \/ Unlock(p))
    BY <1>1 DEF Open, SendSync, Ignore, chain, handling
  <2>2. cont' = cont
    <3>1. CASE Open(p) \/ Ignore(p)
      BY <3>1 DEF Open, Ignore, remote
    <3>2. CASE SendSync(p)
      <4>1. CASE Located({p})
        BY <1>0, <4>1 DEF Located, Types, Data
      <4> QED
        BY <3>2, <4>1 DEF SendSync, remote
    <3> QED
      BY <1>1, <3>1, <3>2
  <2> QED
    BY <1>0, <2>1, <2>2, QuietStep
<1>2. CASE Receive(p)
  <2>1. /\ resetting' = resetting /\ cont' = cont /\ Lock(p, Head(wire[p]))
        /\ Read(p, {"headers", "inv", "block"})
    BY <1>2 DEF Receive, chain
  <2>2. Head(wire[p]) \in Msg
    BY <2>1, ReadIs
  <2> QED
    BY <1>0, <2>1, <2>2, QuietStep
<1>3. ~ReceiveCompact(p) /\ ~ReceiveTxn(p)
  <2>1. ASSUME NEW k \in {"cmpct", "blocktxn"}, Read(p, {k}) PROVE FALSE
    <3>1. Head(wire[p]).kind \in {"inv", "headers", "block"}
      BY <2>1, NoneCompact
    <3> QED
      BY <2>1, <3>1 DEF Read
  <2> QED
    BY <2>1 DEF ReceiveCompact, ReceiveTxn
<1>4. CASE HandleHeaders(p)
  <2>1. resetting' = resetting /\ Unlock(p)
    BY <1>4 DEF HandleHeaders, chain
  <2>2. \/ \E r : Closed(p, tip, synced, r)
        \/ \E S : SentGetData(p, S)
        \/ cont' = cont
    BY <1>4, Zenon DEF HandleHeaders, Overrun
  <2>3. cont' = cont \/ cont' = [cont EXCEPT ![p] = 0]
    BY <1>0, <2>2, QuietSent DEF Closed
  <2> QED
    BY <1>0, <2>1, <2>3, QuietStep
<1>5. ~HandleHash(p) /\ ~ResolveOrphan(p) /\ ~ContinueFrom(p) /\ ~RequestItems(p)
  <2>1. \A k \in LeftKinds : ~Holds(p, k)
    BY DEF Quiet, Holds
  <2>2. ~(Holds(p, "inv") /\ ~Ignored(p, "inv"))
    BY DEF Ignored
  <2> QED
    BY <2>1, <2>2 DEF HandleHash, ResolveOrphan, ContinueFrom, RequestItems, LeftKinds
<1>6. CASE AddBlock(p)
  <2>1. resetting' = resetting /\ (job' = job \/ Unlock(p))
    BY <1>6 DEF AddBlock, chain
  <2>2. cont' = cont \/ Closed(p, tip, synced, resync)
    BY <1>6 DEF AddBlock, remote
  <2> QED
    BY <1>0, <2>1, <2>2, QuietStep DEF Closed
<1>7. CASE AddedBlock(p)
  <2>1. /\ adding /\ Head(lock) = p /\ load = p /\ Unlock(p)
        /\ ResolveChain(p, job[p].from, job[p].from, FALSE, {})
    BY <1>7, AddedNext
  <2>2. resetting' = resetting
    BY <1>7 DEF AddedBlock, chain
  <2>3. \/ \E r : Closed(p, job[p].from, FALSE, r)
        \/ \E S : SentGetData(p, S)
        \/ cont' = cont
    BY <2>1 DEF ResolveChain, Overrun
  <2>4. cont' = cont \/ cont' = [cont EXCEPT ![p] = 0]
    BY <1>0, <2>3, QuietSent DEF Closed
  <2> QED
    BY <1>0, <2>1, <2>2, <2>4, QuietStep
<1> QED
  BY <1>1, <1>2, <1>3, <1>4, <1>5, <1>6, <1>7 DEF Handle

----------------------------------------------------------------------------
\* A handler destroys no peer that keeps to the protocol.

\* What is being resolved is an orphan.
Rooted == \A p \in Peer : job[p].kind = "root" => job[p].from \in orphans
RootInv == ~disturbed => Rooted

HonestInv == Base /\ IInv /\ CheckpointsInv /\ RootInv /\ HonestKept

\* Neither the mode comes back nor is a disturbance forgotten.
Steady ==
  /\ checkpoints' => checkpoints
  /\ disturbed => disturbed'
  /\ crowded => crowded'

LEMMA ClosedSteady ==
  ASSUME NEW p, NEW t, NEW full, NEW r, Closed(p, t, full, r)
  PROVE  checkpoints' => checkpoints
BY DEF Closed, header

LEMMA HandleSteady ==
  ASSUME NEW p \in Peer, Handle(p)
  PROVE  Steady
<1> USE DEF Steady, history, header
<1>1. CASE \/ Open(p) \/ SendSync(p) \/ Receive(p) \/ ReceiveTxn(p) \/ Ignore(p)
           \/ HandleHash(p) \/ ContinueFrom(p)
  BY <1>1 DEF Open, SendSync, Receive, ReceiveTxn, Ignore, HandleHash, ContinueFrom
<1>2. CASE ReceiveCompact(p)
  BY <1>2, ClosedSteady DEF ReceiveCompact
<1>3. CASE HandleHeaders(p)
  <2>1. disturbed' = disturbed
    BY <1>3 DEF HandleHeaders
  <2>2. crowded => crowded'
    BY <1>3, Zenon DEF HandleHeaders
  <2>3. (\E r : Closed(p, tip, synced, r)) \/ checkpoints' = checkpoints
    BY <1>3, Zenon DEF HandleHeaders, Overrun
  <2> QED
    BY <2>1, <2>2, <2>3, ClosedSteady
<1>4. CASE AddBlock(p)
  BY <1>4, ClosedSteady DEF AddBlock
<1>5. CASE AddedBlock(p)
  <2>1. ASSUME NEW n, NEW t, NEW full, NEW r, ResolveChain(p, n, t, full, r) PROVE Steady
    <3>1. CASE ~checkpoints \/ load # p
      BY <2>1, <3>1 DEF ResolveChain
    <3>2. CASE checkpoints /\ load = p
      BY <2>1, <3>2 DEF ResolveChain, Overrun
    <3> QED
      BY <3>1, <3>2
  <2>2. CASE \/ UNCHANGED <<chain, header, requests, peers, remote, resync, refill, history>>
             \/ UNCHANGED <<tip, synced, resetting, header, requests, peers, remote, resync,
                            refill, history>>
    BY <2>2
  <2> QED
    BY <1>5, <2>1, <2>2 DEF AddedBlock
<1>6. CASE ResolveOrphan(p)
  BY <1>6, ClosedSteady DEF ResolveOrphan
<1>7. CASE RequestItems(p)
  BY <1>7, ClosedSteady DEF RequestItems, Overrun
<1> QED
  BY <1>1, <1>2, <1>3, <1>4, <1>5, <1>6, <1>7 DEF Handle

LEMMA NextSteady == ASSUME [Next]_vars PROVE Steady
<1>1. ASSUME NEW p \in Peer, Handle(p) PROVE Steady
  BY <1>1, HandleSteady
<1>2. CASE Fill \/ Mine
  <2>1. header' = header /\ history' = history
    BY <1>2 DEF Fill, Mine
  <2> QED
    BY <2>1 DEF header, history, Steady
<1>3. ASSUME NEW p \in Peer, Close(p) \/ Stall(p) PROVE Steady
  <2>1. Closed(p, tip, synced, resync)
    BY <1>3 DEF Close, Stall
  <2>2. disturbed' = disturbed \/ disturbed' = (disturbed \/ (load = p /\ checkpoints /\ adding))
    BY <1>3 DEF Close, Stall, history
  <2>3. checkpoints' => checkpoints
    BY <2>1, ClosedSteady
  <2>4. disturbed => disturbed'
    <3>1. CASE disturbed' = disturbed
      BY <3>1
    <3>2. CASE disturbed' = (disturbed \/ (load = p /\ checkpoints /\ adding))
      BY <3>2, Zenon
    <3> QED
      BY <2>2, <3>1, <3>2
  <2>5. crowded' = crowded
    BY <1>3 DEF Close, Stall, history
  <2> QED
    BY <2>3, <2>4, <2>5 DEF Steady
<1>4. ASSUME NEW force \in BOOLEAN, Resync(force) PROVE Steady
  BY <1>4 DEF Resync, header, history, Steady
<1>5. ASSUME NEW h \in ResetTo, Reset(h) PROVE Steady
  <2>1. crowded' = crowded /\ (disturbed => disturbed')
    BY <1>5, Zenon DEF Reset
  <2>2. checkpoints' => checkpoints
    BY <1>5 DEF Reset, header
  <2> QED
    BY <2>1, <2>2 DEF Steady
<1>6. CASE PurgeOrphans
  <2>1. disturbed => disturbed'
    BY <1>6, Zenon DEF PurgeOrphans
  <2>2. header' = header /\ crowded' = crowded
    BY <1>6 DEF PurgeOrphans
  <2> QED
    BY <2>1, <2>2 DEF header, Steady
<1>7. CASE UNCHANGED vars
  BY <1>7 DEF vars, header, history, Steady
<1> QED
  BY <1>1, <1>2, <1>3, <1>4, <1>5, <1>6, <1>7 DEF Next

LEMMA HandleSync ==
  ASSUME Base, Syncing, Quiet, RequestsAgree, checkpoints, checkpoints', ~crowded',
         NEW p \in Peer, Handle(p)
  PROVE  Syncing'
<1>1. ~ReceiveCompact(p) /\ ~ReceiveTxn(p)
  <2>1. ASSUME NEW k \in {"cmpct", "blocktxn"}, Read(p, {k}) PROVE FALSE
    <3>1. Head(wire[p]).kind \in {"inv", "headers", "block"}
      BY <2>1, NoneCompact
    <3> QED
      BY <2>1, <3>1 DEF Read
  <2> QED
    BY <2>1 DEF ReceiveCompact, ReceiveTxn
<1>2. ~HandleHash(p) /\ ~ResolveOrphan(p) /\ ~ContinueFrom(p) /\ ~RequestItems(p)
  <2>1. \A k \in LeftKinds : ~Holds(p, k)
    BY DEF Quiet, Holds
  <2>2. ~(Holds(p, "inv") /\ ~Ignored(p, "inv"))
    BY DEF Ignored
  <2> QED
    BY <2>1, <2>2 DEF HandleHash, ResolveOrphan, ContinueFrom, RequestItems, LeftKinds
<1> QED
  BY <1>1, <1>2, OpenSync, SendSyncSync, ReceiveSync, IgnoreSync, HandleHeadersSync,
     AddBlockSync, AddedBlockSync DEF Handle

LEMMA CheckpointsNext == ASSUME HonestInv, [Next]_vars PROVE CheckpointsInv'
<1> SUFFICES ASSUME checkpoints', ~disturbed', ~crowded' PROVE Syncing' /\ Quiet'
  BY DEF CheckpointsInv
<1>1. Base /\ RequestsAgree /\ checkpoints /\ ~disturbed /\ Syncing /\ Quiet
  BY NextSteady DEF Steady, HonestInv, IInv, CheckpointsInv
<1>0. Types
  BY <1>1, BaseParts
<1>2. ASSUME NEW p \in Peer, Handle(p) PROVE Syncing' /\ Quiet'
  BY <1>1, <1>2, HandleSync, HandleQuiet
<1>3. ASSUME NEW p \in Peer, Close(p) PROVE Syncing' /\ Quiet'
  <2>1. /\ Closed(p, tip, synced, resync) /\ LockSame /\ chain' = chain
        /\ ~(load = p /\ adding)
    BY <1>1, <1>3 DEF Close, LockSame, handling
  <2>2. Quiet'
    BY <1>0, <1>1, <2>1, QuietStep DEF Closed, chain, LockSame
  <2> QED
    BY <1>1, <2>1, <2>2, ClosedSync
<1>4. ASSUME NEW p \in Peer, Stall(p) PROVE Syncing' /\ Quiet'
  <2>1. Closed(p, tip, synced, resync) /\ LockSame /\ chain' = chain /\ job[p] = Idle
    BY <1>4 DEF Stall, LockSame, handling
  <2>2. ~(load = p /\ adding)
    BY <1>1, <2>1, IdleIsNone, BaseParts DEF Syncing, LockInv
  <2>3. Quiet'
    BY <1>0, <1>1, <2>1, QuietStep DEF Closed, chain, LockSame
  <2> QED
    BY <1>1, <2>1, <2>2, <2>3, ClosedSync
<1>5. ~\E force \in BOOLEAN : Resync(force)
  BY <1>1 DEF Resync, Syncing
<1>6. ~\E h \in ResetTo : Reset(h)
  BY <1>1, Zenon DEF Reset
<1>7. ~PurgeOrphans
  BY <1>1 DEF PurgeOrphans, Quiet
<1>8. CASE Fill
  <2>1. resetting' = resetting /\ cont' = cont /\ job' = job
    BY <1>8 DEF Fill, chain, remote, handling
  <2> QED
    BY <1>1, <1>8, <2>1, FillSync DEF Quiet
<1>9. CASE Mine
  <2>1. resetting' = resetting /\ cont' = cont /\ job' = job
    BY <1>9 DEF Mine, chain, handling
  <2> QED
    BY <1>1, <1>9, <2>1, MineSync DEF Quiet
<1>10. CASE UNCHANGED vars
  <2>1. /\ chain' = chain /\ header' = header /\ requests' = requests /\ peers' = peers
        /\ handling' = handling /\ wire' = wire /\ cont' = cont /\ resync' = resync
    BY <1>10 DEF vars, remote
  <2>2. /\ tip' = tip /\ orphans' = orphans /\ synced' = synced /\ LockSame
        /\ resetting' = resetting /\ asked' = asked /\ link' = link /\ load' = load
        /\ syncing' = syncing /\ asking' = asking
        /\ job' = job /\ lock' = lock /\ adding' = adding /\ headers' = headers
    BY <2>1 DEF chain, header, requests, peers, handling, LockSame
  <2>3. ASSUME NEW q \in Peer, Out(q) PROVE Out(q)'
    BY <2>1, <2>2, <2>3 DEF Out
  <2>4. /\ adding' \/ headers'.first # tip' => BlocksPhase'
        /\ ~adding' /\ headers'.first = tip' => HeadersPhase'
    BY <1>1, <2>1, <2>2, PhaseSame
  <2>5. load' # None /\ link'[load'] # "up" => Out(load)'
    BY <1>1, <2>2, <2>3, SyncIs DEF Syncing
  <2>6. Quiet'
    BY <1>1, <2>1, <2>2 DEF Quiet
  <2> QED
    BY <1>1, <2>1, <2>2, <2>3, <2>4, <2>5, <2>6 DEF Syncing
<1> QED
  BY <1>2, <1>3, <1>4, <1>5, <1>6, <1>7, <1>8, <1>9, <1>10 DEF Next

\* An orphan that is resolved stays one unless the orphans are purged.
LEMMA RootStep ==
  ASSUME Rooted, orphans' = orphans, NEW p \in Peer,
         \A q \in Peer \ {p} : job'[q] = job[q],
         \/ job'[p] = job[p] \/ job'[p].kind # "root" \/ job'[p].from \in orphans
  PROVE  Rooted'
BY DEF Rooted

\* What is left of a packet.
LEMMA LeftIs ==
  ASSUME NEW m \in Jobs, NEW k, NEW n
  PROVE  [m EXCEPT !.kind = k, !.from = n].kind = k /\ [m EXCEPT !.kind = k, !.from = n].from = n
<1>1. CASE m \in Msg
  BY <1>1 DEF Msg
<1>2. CASE m \in Left
  BY <1>2 DEF Left
<1>3. CASE m = Idle
  BY <1>3 DEF Idle
<1> QED
  BY <1>1, <1>2, <1>3 DEF Jobs

\* What the steps do to the packets, the others' apart.
LEMMA JobStep ==
  ASSUME Types, NEW p \in Peer,
         \/ job' = job \/ Unlock(p) \/ (\E m \in Msg : Lock(p, m))
         \/ \E n \in 1..(Top + 1) : Leave(p, "hashes", n) \/ Leave(p, "more", n)
  PROVE  /\ \A q \in Peer \ {p} : job'[q] = job[q]
         /\ job'[p] = job[p] \/ job'[p].kind # "root"
<1>1. CASE job' = job \/ Unlock(p) \/ (\E m \in Msg : Lock(p, m))
  <2>1. job'[p] = job[p] \/ job'[p] = Idle \/ job'[p] \in Msg
    BY <1>1 DEF Types, Unlock, Lock
  <2> QED
    BY <1>1, <2>1, IdleIsNone, KindIs DEF Types, Unlock, Lock, LeftKinds
<1>2. ASSUME NEW n \in 1..(Top + 1), Leave(p, "hashes", n) \/ Leave(p, "more", n)
      PROVE  /\ \A q \in Peer \ {p} : job'[q] = job[q]
             /\ job'[p].kind # "root"
  <2>1. PICK k \in {"hashes", "more"} : job' = [job EXCEPT ![p] = [@ EXCEPT !.kind = k, !.from = n]]
    BY <1>2 DEF Leave
  <2>2. job'[p] = [job[p] EXCEPT !.kind = k, !.from = n]
    BY <2>1 DEF Types
  <2>3. job[p] \in Jobs
    BY DEF Types
  <2>4. job'[p].kind = k
    BY <2>2, <2>3, LeftIs
  <2> QED
    BY <2>1, <2>4 DEF Types
<1> QED
  BY <1>1, <1>2

LEMMA HandleRooted ==
  ASSUME Base, Rooted, NEW p \in Peer, Handle(p)
  PROVE  Rooted'
<1>0. Types /\ LockInv
  BY BaseParts
<1>1. CASE Open(p) \/ SendSync(p) \/ Ignore(p) \/ HandleHeaders(p) \/ RequestItems(p) \/ AddBlock(p)
  <2>1. orphans' = orphans /\ (job' = job \/ Unlock(p))
    BY <1>1 DEF Open, SendSync, Ignore, HandleHeaders, RequestItems, AddBlock, chain, handling
  <2> QED
    BY <1>0, <2>1, JobStep, RootStep
<1>2. CASE Receive(p) \/ ReceiveCompact(p) \/ ReceiveTxn(p)
  <2>1. orphans' = orphans
    BY <1>2 DEF Receive, ReceiveCompact, ReceiveTxn, chain
  <2>2. Head(wire[p]) \in Msg
    BY <1>2, ReadIs DEF Receive, ReceiveCompact, ReceiveTxn
  <2>3. Packet("block", Head(wire[p]).from, Head(wire[p]).from) \in Msg
    BY <2>2 DEF Packet, Msg
  <2>4. job' = job \/ \E m \in Msg : Lock(p, m)
    BY <1>2, <2>2, <2>3 DEF Receive, ReceiveCompact, ReceiveTxn
  <2> QED
    BY <1>0, <2>1, <2>4, JobStep, RootStep
<1>3. CASE HandleHash(p)
  <2> DEFINE n == job[p].from
  <2>1. orphans' = orphans
    BY <1>3 DEF HandleHash, chain
  <2>2. n \in 1..(Top + 1) /\ n + 1 \in 1..(Top + 1) /\ job[p] \in Jobs
    BY <1>0, <1>3, HashIs DEF Types
  <2>3. \/ n \in orphans /\ Leave(p, "root", n)
        \/ Leave(p, "hashes", n + 1) \/ Leave(p, "more", n)
    BY <1>3 DEF HandleHash
  <2>4. CASE n \in orphans /\ Leave(p, "root", n)
    <3>1. job[p] \in Jobs
      BY <2>2
    <3>2. job'[p] = [job[p] EXCEPT !.kind = "root", !.from = n]
      BY <1>0, <2>4 DEF Leave, Types
    <3>3. job'[p].from = n
      BY <3>1, <3>2, LeftIs
    <3>4. \A q \in Peer \ {p} : job'[q] = job[q]
      BY <1>0, <2>4 DEF Leave, Types
    <3> QED
      BY <2>1, <2>4, <3>3, <3>4, RootStep
  <2>5. CASE Leave(p, "hashes", n + 1) \/ Leave(p, "more", n)
    <3> HIDE DEF n
    <3> QED
      BY <1>0, <2>1, <2>2, <2>5, JobStep, RootStep
  <2> QED
    BY <2>3, <2>4, <2>5
<1>4. CASE ResolveOrphan(p) \/ ContinueFrom(p)
  <2> DEFINE n == job[p].from
  <2>1. orphans' = orphans
    BY <1>4 DEF ResolveOrphan, ContinueFrom, chain
  <2>2. n + 1 \in 1..(Top + 1)
    <3>1. Holds(p, "root") \/ Holds(p, "more")
      BY <1>4 DEF ResolveOrphan, ContinueFrom
    <3>2. n \in Blocks
      BY <3>1, HoldsLeft DEF LeftKinds
    <3> QED
      BY <3>2, Numbers DEF Blocks
  <2>3. Unlock(p) \/ Leave(p, "hashes", n + 1)
    BY <1>4 DEF ResolveOrphan, ContinueFrom
  <2> HIDE DEF n
  <2> QED
    BY <1>0, <2>1, <2>2, <2>3, JobStep, RootStep
<1>5. CASE AddedBlock(p)
  <2> DEFINE n == job[p].from
  <2>1. adding
    BY <1>5 DEF AddedBlock
  <2>2. \A q \in Peer : job[q].kind # "root"
    BY <1>0, <2>1 DEF LockInv, LeftKinds
  <2>3. Unlock(p) \/ (Leave(p, "root", n) /\ n \in orphans')
    BY <1>5 DEF AddedBlock
  <2>4. CASE Unlock(p)
    <3>1. \A q \in Peer : job'[q].kind # "root"
      BY <1>0, <2>2, <2>4, JobStep
    <3> QED
      BY <3>1 DEF Rooted
  <2>5. CASE Leave(p, "root", n) /\ n \in orphans'
    <3>1. job[p] \in Jobs
      BY <1>0 DEF Types
    <3>2. job'[p] = [job[p] EXCEPT !.kind = "root", !.from = n]
      BY <1>0, <2>5 DEF Leave, Types
    <3>3. job'[p].from = n
      BY <3>1, <3>2, LeftIs
    <3>4. \A q \in Peer \ {p} : job'[q].kind # "root"
      BY <1>0, <2>2, <2>5 DEF Leave, Types
    <3> QED
      BY <2>5, <3>3, <3>4 DEF Rooted
  <2> QED
    BY <2>3, <2>4, <2>5
<1> QED
  BY <1>1, <1>2, <1>3, <1>4, <1>5 DEF Handle

LEMMA RootNext == ASSUME HonestInv, [Next]_vars PROVE RootInv'
<1> SUFFICES ASSUME ~disturbed' PROVE Rooted'
  BY DEF RootInv
<1>1. Base /\ Types /\ Rooted
  BY NextSteady, BaseParts DEF Steady, HonestInv, RootInv
<1>2. ASSUME NEW p \in Peer, Handle(p) PROVE Rooted'
  BY <1>1, <1>2, HandleRooted
<1>3. ASSUME job' = job, orphans' = orphans PROVE Rooted'
  BY <1>1, <1>3 DEF Rooted
<1>4. CASE PurgeOrphans
  <2>1. job' = job /\ ~\E p \in Peer : job[p].kind = "root"
    BY <1>4, Zenon DEF PurgeOrphans, handling
  <2> QED
    BY <2>1 DEF Rooted
<1>5. CASE Fill \/ Mine \/ UNCHANGED vars
  BY <1>3, <1>5 DEF Fill, Mine, vars, chain, handling
<1>6. ASSUME NEW p \in Peer, Close(p) \/ Stall(p) PROVE Rooted'
  BY <1>3, <1>6 DEF Close, Stall, chain, handling
<1>7. ASSUME NEW force \in BOOLEAN, Resync(force) PROVE Rooted'
  BY <1>3, <1>7 DEF Resync, chain, handling
<1>8. ASSUME NEW h \in ResetTo, Reset(h) PROVE Rooted'
  BY <1>3, <1>8 DEF Reset, handling
<1> QED
  BY <1>2, <1>4, <1>5, <1>6, <1>7, <1>8 DEF Next

\* The places where a handler destroys a peer.
LEMMA HandleBlames ==
  ASSUME HonestInv, NEW p \in Peer, Handle(p)
  PROVE  blamed' => blamed \/ disturbed' \/ crowded'
<1> SUFFICES ASSUME ~disturbed', ~crowded' PROVE blamed' = blamed
  OBVIOUS
<1>0. Base /\ RequestsAgree /\ Rooted /\ (checkpoints => Syncing)
  BY HandleSteady DEF Steady, HonestInv, IInv, CheckpointsInv, RootInv
<1> USE DEF history
<1>1. CASE \/ Open(p) \/ SendSync(p) \/ Receive(p) \/ ReceiveTxn(p) \/ Ignore(p)
           \/ HandleHash(p) \/ ContinueFrom(p)
  BY <1>1 DEF Open, SendSync, Receive, ReceiveTxn, Ignore, HandleHash, ContinueFrom
<1>2. CASE ReceiveCompact(p)
  <2>1. Read(p, {"cmpct"})
    BY <1>2 DEF ReceiveCompact
  <2>2. Head(wire[p]).from \in asked[p]
    BY <1>0, <2>1, ReadIs DEF Carriers
  <2> QED
    BY <1>2, <2>2 DEF ReceiveCompact
<1>3. CASE HandleHeaders(p)
  <2>1. Holds(p, "headers") /\ ~Ignored(p, "headers")
    BY <1>3 DEF HandleHeaders
  <2>2. checkpoints
    BY <2>1 DEF Ignored
  <2>3. job[p].from = headers.last + 1
    BY <1>0, <2>1, <2>2, HeadersFollow DEF Follows
  <2> DEFINE m == job[p]
             hs == [headers EXCEPT !.last = m.to, !.next = IF @ = 0 THEN m.from ELSE @]
  <2>4. ~TooMany(p, Unresolved(hs))
    BY <1>0, <2>1, <2>2, HeadersFit
  <2> QED
    BY <1>3, <2>3, <2>4 DEF HandleHeaders
<1>4. CASE AddBlock(p)
  <2>1. Holds(p, "block") /\ ~Ignored(p, "block")
    BY <1>4 DEF AddBlock
  <2>2. Pending(p) = {job[p].from}
    BY <1>0, <2>1, HoldsIs DEF Pending, Waits
  <2>3. job[p].from \in asked[p]
    BY <1>0, <2>2, BaseParts DEF PeerWire
  <2> QED
    BY <1>4, <2>3 DEF AddBlock
<1>5. CASE AddedBlock(p)
  <2>1. CASE ~(checkpoints /\ load = p)
    BY <1>5, <2>1 DEF AddedBlock, ResolveChain
  <2>2. CASE checkpoints /\ load = p
    <3> DEFINE n == job[p].from
    <3>1. /\ n = headers.first /\ n = tip + 1 /\ adding
          /\ ResolveChain(p, n, n, FALSE, {})
      BY <1>0, <1>5, <2>2, AddedNext
    <3>2. n # headers.target => ~TooMany(p, Unresolved(headers))
      <4>1. tip \in Nat /\ headers.target \in Nat /\ tip < headers.target
        BY <1>0, <2>2, SyncIs
      <4>2. n # headers.target => tip + 1 < headers.target
        BY <3>1, <4>1
      <4> QED
        BY <1>0, <2>2, <3>1, <4>2, BlocksFit
    <3> HIDE DEF n
    <3> QED
      BY <2>2, <3>1, <3>2 DEF ResolveChain
  <2> QED
    BY <2>1, <2>2
<1>6. CASE ResolveOrphan(p)
  <2>1. job[p].kind = "root"
    BY <1>6 DEF ResolveOrphan, Holds
  <2>2. job[p].from \in orphans
    BY <1>0, <2>1 DEF Rooted
  <2> QED
    BY <1>6, <2>2 DEF ResolveOrphan
<1>7. CASE RequestItems(p)
  BY <1>7 DEF RequestItems
<1> QED
  BY <1>1, <1>2, <1>3, <1>4, <1>5, <1>6, <1>7 DEF Handle

LEMMA NextBlames ==
  ASSUME HonestInv, [Next]_vars
  PROVE  blamed' => blamed \/ disturbed' \/ crowded'
<1>1. ASSUME NEW p \in Peer, Handle(p) PROVE blamed' => blamed \/ disturbed' \/ crowded'
  BY <1>1, HandleBlames
<1>2. ASSUME NEW p \in Peer, Close(p) \/ Stall(p) PROVE blamed' = blamed
  BY <1>2 DEF Close, Stall, history
<1>3. CASE Fill \/ Mine
  BY <1>3 DEF Fill, Mine, history
<1>4. ASSUME NEW force \in BOOLEAN, Resync(force) PROVE blamed' = blamed
  BY <1>4 DEF Resync, history
<1>5. ASSUME NEW h \in ResetTo, Reset(h) PROVE blamed' = blamed
  BY <1>5 DEF Reset
<1>6. CASE PurgeOrphans
  BY <1>6 DEF PurgeOrphans
<1>7. CASE UNCHANGED vars
  BY <1>7 DEF vars, history
<1> QED
  BY <1>1, <1>2, <1>3, <1>4, <1>5, <1>6, <1>7 DEF Next

LEMMA HonestInit == Init => HonestInv
<1> SUFFICES ASSUME Init PROVE HonestInv
  OBVIOUS
<1>1. Base /\ IInv /\ Syncing
  BY BaseInit, IInvInit, InitSync
<1>2. HonestKept
  BY DEF Init, HonestKept
<1>3. Quiet /\ Rooted
  BY IdleIsNone DEF Init, Quiet, Rooted
<1> QED
  BY <1>1, <1>2, <1>3 DEF HonestInv, CheckpointsInv, RootInv

LEMMA HonestNext == HonestInv /\ [Next]_vars => HonestInv'
<1> SUFFICES ASSUME HonestInv, [Next]_vars PROVE HonestInv'
  OBVIOUS
<1>1. Base' /\ IInv'
  BY BaseNext, IInvNext DEF HonestInv, IInv
<1>2. CheckpointsInv' /\ RootInv'
  BY CheckpointsNext, RootNext
<1>3. HonestKept'
  BY NextBlames, NextSteady DEF HonestInv, HonestKept, Steady
<1> QED
  BY <1>1, <1>2, <1>3 DEF HonestInv

\* No handler ever destroys a peer that keeps to the protocol, unless the headers
\* were reset while its answers were on the way, the orphans purged while one was
\* resolved, or there was more to ask it for than MAX_BLOCK_REQUEST allows
\* (handleHeaders, resolveChain, handleCmpctBlock, _addBlock, resolveOrphan, getBlock).
THEOREM HonestPeersKept == Spec => []HonestKept
<1>1. HonestInv => HonestKept
  BY DEF HonestInv
<1> QED
  BY HonestInit, HonestNext, <1>1, PTL DEF Spec

\* A block that comes from a peer that is there was asked of it, and no other packet
\* of it brings the same one: neither does one that waits for the lock already.
THEOREM PacketsAsked == Spec => []WireInv
<1>1. HonestInv => WireInv
  BY DEF HonestInv, Base
<1> QED
  BY HonestInit, HonestNext, <1>1, PTL DEF Spec
=============================================================================
