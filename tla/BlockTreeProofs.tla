--------------------------- MODULE BlockTreeProofs ---------------------------
(***************************************************************************)
(* What the recurrences by which ChainEntry computes heights and work say  *)
(* of all blocks: ancestors are lower and have less work, lie on one line, *)
(* one of them is the next step towards a block, and any two blocks have a *)
(* highest common ancestor.                                                *)
(***************************************************************************)
EXTENDS BlockTree, TLAPS, WellFoundedInduction

LEMMA Least ==
  ASSUME NEW T \in SUBSET Nat, T # {}
  PROVE  \E x \in T : \A y \in T : x <= y
<1>1. IsWellFoundedOn(OpToRel(<, Nat), Nat)
  BY NatLessThanWellFounded
<1>2. PICK x \in T : \A y \in T : ~(<<y, x>> \in OpToRel(<, Nat))
  BY <1>1, WFMin
<1>3. \A y \in T : ~(y < x)
  BY <1>2 DEF OpToRel
<1> QED
  BY <1>3

LEMMA TreeTypes ==
  /\ \A b \in Block : Height[b] \in Nat /\ ChainWork[b] \in Nat /\ Anc[b] \in SUBSET Block
  /\ \A b \in Block \ {Genesis} : Parent[b] \in Block /\ Height[Parent[b]] < Height[b]
BY TreeAssumption

\* The line of blocks from the genesis block to b.
Line(b) ==
  /\ Genesis \in Anc[b] /\ b \in Anc[b]
  /\ \A a \in Anc[b] :
       /\ Anc[a] \subseteq Anc[b]
       /\ a # b => /\ Height[a] < Height[b]
                   /\ ChainWork[a] < ChainWork[b]
                   /\ \E c \in Anc[b] : Parent[c] = a
       /\ \A c \in Anc[b] : Height[a] <= Height[c] => a \in Anc[c]

LEMMA GenesisLine == Line(Genesis)
BY TreeAssumption DEF Line

\* A block lengthens the line of its parent by one.
LEMMA NextLine ==
  ASSUME NEW b \in Block \ {Genesis}, Line(Parent[b])
  PROVE  Line(b)
<1> DEFINE p == Parent[b]
<1>1. /\ p \in Block /\ b \notin Anc[p] /\ Anc[b] = Anc[p] \cup {b}
      /\ Height[b] = Height[p] + 1 /\ ChainWork[b] > ChainWork[p]
  BY TreeAssumption
<1>2. /\ Height[b] \in Nat /\ ChainWork[b] \in Nat /\ Height[p] \in Nat /\ ChainWork[p] \in Nat
      /\ \A a \in Anc[p] : a \in Block /\ Height[a] \in Nat /\ ChainWork[a] \in Nat
  BY <1>1, TreeTypes
<1>3. Line(p)
  OBVIOUS
<1> HIDE DEF p
<1>4. \A a \in Anc[p] : Height[a] < Height[b] /\ ChainWork[a] < ChainWork[b]
  BY <1>1, <1>2, <1>3 DEF Line
<1>5. ASSUME NEW a \in Anc[b], a # b
      PROVE  \E c \in Anc[b] : Parent[c] = a
  BY <1>1, <1>3, <1>5 DEF Line, p
<1>6. \A a \in Anc[b] : Anc[a] \subseteq Anc[b]
  BY <1>1, <1>3 DEF Line
<1>7. ASSUME NEW a \in Anc[b], NEW c \in Anc[b], Height[a] <= Height[c]
      PROVE  a \in Anc[c]
  BY <1>1, <1>2, <1>3, <1>4, <1>7 DEF Line
<1>8. Genesis \in Anc[b] /\ b \in Anc[b]
  BY <1>1, <1>3 DEF Line
<1> QED
  BY <1>1, <1>4, <1>5, <1>6, <1>7, <1>8 DEF Line

\* A lowest block that is on no line would have a parent that is on one.
LEMMA AllLines == \A b \in Block : Line(b)
<1> SUFFICES ASSUME NEW x \in Block, ~Line(x)
             PROVE  FALSE
  OBVIOUS
<1> DEFINE bad == {b \in Block : ~Line(b)}
           heights == {Height[b] : b \in bad}
<1>1. heights \in SUBSET Nat /\ heights # {}
  BY TreeTypes
<1>2. PICK h \in heights : \A g \in heights : h <= g
  <2> HIDE DEF heights
  <2> QED
    BY <1>1, Least
<1>3. PICK b \in bad : Height[b] = h
  OBVIOUS
<1>4. b # Genesis
  BY <1>3, GenesisLine
<1>5. Parent[b] \in Block /\ Height[Parent[b]] < Height[b]
  BY <1>3, <1>4, TreeTypes
<1>6. Parent[b] \notin bad
  <2>1. \A c \in bad : Height[b] <= Height[c]
    BY <1>2, <1>3
  <2> QED
    BY <1>3, <1>5, <2>1, TreeTypes
<1> QED
  BY <1>3, <1>4, <1>5, <1>6, NextLine

\* Chain#findFork always finds a fork point.
LEMMA ForkExists ==
  ASSUME NEW a \in Block, NEW b \in Block
  PROVE  \E f \in Block : IsFork(f, a, b)
<1> DEFINE common == Anc[a] \cap Anc[b]
           depths == {Height[b] - Height[c] : c \in common}
<1>1. Genesis \in common /\ common \subseteq Block
  BY AllLines, TreeTypes DEF Line
<1>2. \A c \in common : Height[c] \in Nat /\ Height[c] <= Height[b] /\ Height[b] \in Nat
  BY <1>1, AllLines, TreeTypes DEF Line
<1> HIDE DEF common
<1>3. \A c \in common : Height[b] - Height[c] \in Nat
  BY <1>2
<1>4. depths \in SUBSET Nat /\ depths # {}
  BY <1>1, <1>3
<1>5. PICK d \in depths : \A e \in depths : d <= e
  <2> HIDE DEF depths
  <2> QED
    BY <1>4, Least
<1>6. PICK f \in common : d = Height[b] - Height[f]
  OBVIOUS
<1>7. \A c \in common : Height[b] - Height[f] <= Height[b] - Height[c]
  BY <1>5, <1>6
<1>8. \A c \in common : Height[c] <= Height[f]
  BY <1>2, <1>7
<1> QED
  BY <1>1, <1>8 DEF IsFork, common

\* Ancestry is what the chain takes it for: a block's ancestors are lower, have
\* less work and lie on one line towards it, and any two blocks have a fork point.
THEOREM AncestryFacts ==
  \A b \in Block :
    /\ Genesis \in Anc[b]
    /\ \A a \in Anc[b] :
         /\ Anc[a] \subseteq Anc[b]
         /\ a # b => /\ Height[a] < Height[b]
                     /\ ChainWork[a] < ChainWork[b]
                     /\ \E c \in Anc[b] : Parent[c] = a
         /\ \A c \in Anc[b] : Height[a] <= Height[c] => a \in Anc[c]
    /\ \A a \in Block : \E f \in Block : IsFork(f, a, b)
BY AllLines, ForkExists DEF Line
=============================================================================
