---------------------------- MODULE WalletProofs ----------------------------
(***************************************************************************)
(* Proofs about Wallet: what holds whatever fails, torn records and        *)
(* rescans included. First the operators: sums of values, the lines of the *)
(* tree of blocks, the transactions of valid blocks, what removing and     *)
(* appending do to sequences. Then txdb, one batch at a time (Db): a spend *)
(* record names a transaction that is there and spends the coin, and the   *)
(* record of a block lists the transactions mined at its height, each      *)
(* once. Then Inv1, the types with the shape of the queue, of the job and  *)
(* of its batches, which every step of Next keeps. Then C(T), which says   *)
(* where the requests that wait lead: T lists the tips the chain had       *)
(* before each of them, and the wallet's own hashes lie on a line that the *)
(* requests, taken in order, move to the tip of the chain.                 *)
(***************************************************************************)
EXTENDS Wallet, BlockTreeProofs, FiniteSetTheorems, SequenceTheorems

----------------------------------------------------------------------------
\* Sums of values.

Chosen(s) == CHOOSE c \in s : TRUE
Folded(f, s) == IF s = {} THEN 0 ELSE Value[Chosen(s)] + f[s \ {Chosen(s)}]

LEMMA CoinsFinite ==
  /\ \A s \in SUBSET Coin : IsFiniteSet(s) /\ Cardinality(s) \in Nat
  /\ \A s \in SUBSET Coin : \A c \in s :
       s \ {c} \in SUBSET Coin /\ Cardinality(s \ {c}) = Cardinality(s) - 1
  /\ \A s \in SUBSET Coin : Cardinality(s) = 0 <=> s = {}
  /\ \A s \in SUBSET Coin : Cardinality(s) <= Cardinality(Coin)
  /\ Cardinality(Coin) \in Nat
<1>1. IsFiniteSet(Coin)
  BY TxAssumption
<1>2. \A s \in SUBSET Coin : IsFiniteSet(s) /\ Cardinality(s) <= Cardinality(Coin)
  BY <1>1, FS_Subset
<1>3. \A s \in SUBSET Coin : \A c \in s : Cardinality(s \ {c}) = Cardinality(s) - 1
  BY <1>2, FS_RemoveElement
<1>4. \A s \in SUBSET Coin : Cardinality(s) = 0 <=> s = {}
  BY <1>2, FS_EmptySet
<1> QED
  BY <1>1, <1>2, <1>3, <1>4, FS_CardinalityType

LEMMA Values == \A c \in Coin : Value[c] \in Nat /\ Value[c] > 0
BY TxDBAssumption

LEMMA ChosenIs == \A s \in SUBSET Coin : s # {} => Chosen(s) \in s /\ Chosen(s) \in Coin
BY DEF Chosen

\* f sums every set of at most n coins.
SumsTo(f, n) ==
  /\ f \in [SUBSET Coin -> Nat]
  /\ \A s \in SUBSET Coin : Cardinality(s) <= n => f[s] = Folded(f, s)

LEMMA SumsExist == \A n \in Nat : \E f : SumsTo(f, n)
<1> DEFINE Bad == {n \in Nat : ~\E f : SumsTo(f, n)}
<1> SUFFICES ASSUME Bad # {} PROVE FALSE
  OBVIOUS
<1>1. PICK n \in Bad : \A k \in Bad : n <= k
  BY Least
<1>2. CASE n = 0
  <2> DEFINE f == [s \in SUBSET Coin |-> 0]
  <2>1. f \in [SUBSET Coin -> Nat]
    OBVIOUS
  <2>2. \A s \in SUBSET Coin : Cardinality(s) <= 0 => s = {}
    BY CoinsFinite
  <2>3. SumsTo(f, 0)
    BY <2>1, <2>2 DEF SumsTo, Folded
  <2> QED
    BY <1>1, <1>2, <2>3
<1>3. CASE n # 0
  <2>1. n - 1 \in Nat /\ n - 1 \notin Bad /\ n \in Nat
    BY <1>1, <1>3
  <2>2. PICK f : SumsTo(f, n - 1)
    BY <2>1
  <2> DEFINE g == [s \in SUBSET Coin |-> IF Cardinality(s) <= n - 1 THEN f[s] ELSE Folded(f, s)]
  <2>3. f \in [SUBSET Coin -> Nat]
    BY <2>2 DEF SumsTo
  <2>4. \A s \in SUBSET Coin : Folded(f, s) \in Nat
    BY <2>3, ChosenIs, Values DEF Folded
  <2>5. g \in [SUBSET Coin -> Nat]
    BY <2>3, <2>4
  <2>6. ASSUME NEW s \in SUBSET Coin, Cardinality(s) <= n
        PROVE  g[s] = Folded(g, s)
    <3>1. g[s] = Folded(f, s)
      BY <2>2, <2>6 DEF SumsTo
    <3>2. CASE s = {}
      BY <3>1, <3>2 DEF Folded
    <3>3. CASE s # {}
      <4> DEFINE r == s \ {Chosen(s)}
      <4>1. r \in SUBSET Coin /\ Cardinality(r) <= n - 1
        BY <2>6, <2>1, <3>3, ChosenIs, CoinsFinite
      <4>2. g[r] = f[r]
        BY <4>1
      <4> QED
        BY <3>1, <3>3, <4>2 DEF Folded
    <3> QED
      BY <3>2, <3>3
  <2> HIDE DEF g
  <2>7. SumsTo(g, n)
    BY <2>5, <2>6 DEF SumsTo
  <2> QED
    BY <1>1, <2>7
<1> QED
  BY <1>2, <1>3

\* One function sums them all, and the fold of the community modules is that one.
Total == CHOOSE f : SumsTo(f, Cardinality(Coin))

LEMMA TotalIs ==
  /\ Total \in [SUBSET Coin -> Nat]
  /\ \A s \in SUBSET Coin : Total[s] = Folded(Total, s)
<1>1. \E f : SumsTo(f, Cardinality(Coin))
  BY SumsExist, CoinsFinite
<1>2. SumsTo(Total, Cardinality(Coin))
  BY <1>1 DEF Total
<1> QED
  BY <1>2, CoinsFinite DEF SumsTo

LEMMA SumIsTotal == ASSUME NEW S \in SUBSET Coin PROVE Sum(S) = Total[S]
<1> DEFINE Fix(f) == f = [s \in SUBSET S |->
              IF s = {} THEN 0 ELSE Value[Chosen(s)] + f[s \ {Chosen(s)}]]
           it == CHOOSE f : Fix(f)
<1>1. Sum(S) = it[S]
  BY DEF Sum, SumFunctionOnSet, FoldFunctionOnSet, MapThenFoldSet, Chosen
<1> DEFINE g == [s \in SUBSET S |-> Total[s]]
<1>2. Fix(g)
  <2>1. \A s \in SUBSET S : g[s] = IF s = {} THEN 0 ELSE Value[Chosen(s)] + g[s \ {Chosen(s)}]
    <3> TAKE s \in SUBSET S
    <3>1. s \in SUBSET Coin /\ s \ {Chosen(s)} \in SUBSET S /\ s \in SUBSET S
      OBVIOUS
    <3>2. g[s] = Total[s] /\ g[s \ {Chosen(s)}] = Total[s \ {Chosen(s)}]
      BY <3>1
    <3>3. Total[s] = Folded(Total, s)
      BY <3>1, TotalIs
    <3> QED
      BY <3>2, <3>3 DEF Folded
  <2> QED
    BY <2>1
<1>3. \E f : Fix(f)
  <2> HIDE DEF Fix, g
  <2> QED
    BY <1>2
<1>4. Fix(it)
  <2> HIDE DEF Fix
  <2> QED
    BY <1>3
<1>5. \A s \in SUBSET S :
        it[s] = IF s = {} THEN 0 ELSE Value[Chosen(s)] + it[s \ {Chosen(s)}]
  <2> HIDE DEF it
  <2> QED
    BY <1>4
<1> HIDE DEF it, Fix, g
<1> DEFINE Bad == {s \in SUBSET S : it[s] # Total[s]}
           sizes == {Cardinality(s) : s \in Bad}
<1>6. Bad = {}
  <2> SUFFICES ASSUME Bad # {} PROVE FALSE
    OBVIOUS
  <2>1. Bad \subseteq SUBSET Coin
    OBVIOUS
  <2>2. sizes \in SUBSET Nat /\ sizes # {}
    BY <2>1, CoinsFinite
  <2>3. PICK n \in sizes : \A k \in sizes : n <= k
    <3> HIDE DEF sizes
    <3> QED
      BY <2>2, Least
  <2>4. PICK s \in Bad : Cardinality(s) = n
    OBVIOUS
  <2>5. s \in SUBSET S /\ s \in SUBSET Coin /\ it[s] # Total[s]
    OBVIOUS
  <2>6. s # {}
    BY <2>5, <1>5, TotalIs DEF Folded
  <2> DEFINE r == s \ {Chosen(s)}
  <2>7. r \in SUBSET S /\ Cardinality(r) = n - 1
    BY <2>4, <2>5, <2>6, ChosenIs, CoinsFinite
  <2>8. r \notin Bad
    <3>1. n \in Nat
      BY <2>2
    <3>2. r \in Bad => n <= n - 1
      BY <2>3, <2>7
    <3> QED
      BY <3>1, <3>2
  <2>9. it[r] = Total[r]
    BY <2>7, <2>8
  <2>10. it[s] = Value[Chosen(s)] + it[r]
    BY <1>5, <2>5, <2>6
  <2>11. Total[s] = Value[Chosen(s)] + Total[r]
    BY TotalIs, <2>5, <2>6 DEF Folded
  <2> QED
    BY <2>5, <2>9, <2>10, <2>11
<1> QED
  BY <1>1, <1>6

\* The order in which the fold takes the coins does not matter.
Parts(s) == \A d \in s : Total[s] = Value[d] + Total[s \ {d}]

LEMMA AllParts == \A s \in SUBSET Coin : Parts(s)
<1> DEFINE Bad == {s \in SUBSET Coin : ~Parts(s)}
           sizes == {Cardinality(s) : s \in Bad}
<1> SUFFICES ASSUME Bad # {} PROVE FALSE
  OBVIOUS
<1>1. sizes \in SUBSET Nat /\ sizes # {}
  BY CoinsFinite
<1>2. PICK n \in sizes : \A k \in sizes : n <= k
  <2> HIDE DEF sizes
  <2> QED
    BY <1>1, Least
<1>3. PICK s \in Bad : Cardinality(s) = n
  OBVIOUS
<1>4. PICK d \in s : Total[s] # Value[d] + Total[s \ {d}]
  BY <1>3 DEF Parts
<1> DEFINE x == Chosen(s)
           r == s \ {x}
           q == s \ {d}
<1>5. s \in SUBSET Coin /\ n \in Nat /\ d \in Coin /\ x \in s /\ x \in Coin
  BY <1>1, <1>3, <1>4, ChosenIs
<1>6. Total[s] = Value[x] + Total[r]
  BY <1>5, <1>4, TotalIs DEF Folded
<1>7. d # x
  BY <1>4, <1>6
<1>8. /\ r \in SUBSET Coin /\ Cardinality(r) = n - 1 /\ d \in r
      /\ q \in SUBSET Coin /\ Cardinality(q) = n - 1 /\ x \in q
      /\ r \ {d} = q \ {x} /\ r \ {d} \in SUBSET Coin
  BY <1>3, <1>5, <1>7, CoinsFinite
<1>9. Parts(r) /\ Parts(q)
  <2>1. \A t \in SUBSET Coin : Cardinality(t) = n - 1 => t \notin Bad
    <3> SUFFICES ASSUME NEW t \in Bad, Cardinality(t) = n - 1 PROVE FALSE
      OBVIOUS
    <3>1. n - 1 \in sizes
      OBVIOUS
    <3> QED
      BY <1>2, <1>5, <3>1
  <2> QED
    BY <1>8, <2>1
<1>10. Total[r] = Value[d] + Total[r \ {d}] /\ Total[q] = Value[x] + Total[r \ {d}]
  BY <1>8, <1>9 DEF Parts
<1>11. Value[x] \in Nat /\ Value[d] \in Nat /\ Total[r \ {d}] \in Nat
  BY <1>5, <1>8, Values, TotalIs
<1> QED
  BY <1>4, <1>6, <1>10, <1>11

LEMMA SumType == \A S \in SUBSET Coin : Sum(S) \in Nat
BY SumIsTotal, TotalIs

LEMMA SumEmpty == Sum({}) = 0
BY SumIsTotal, TotalIs DEF Folded

LEMMA SumLess == ASSUME NEW S \in SUBSET Coin, NEW d \in S
                 PROVE  Sum(S) = Value[d] + Sum(S \ {d})
BY SumIsTotal, AllParts DEF Parts

\* Sums and counts of coins taken away and added.
LEMMA SumUnion ==
  ASSUME NEW A \in SUBSET Coin, NEW B \in SUBSET Coin, A \cap B = {}
  PROVE  Sum(A \cup B) = Sum(A) + Sum(B)
<1> DEFINE Good(s) == Sum(A \cup s) = Sum(A) + Sum(s)
           Bad == {s \in SUBSET B : ~Good(s)}
           sizes == {Cardinality(s) : s \in Bad}
<1> SUFFICES ASSUME Bad # {} PROVE FALSE
  OBVIOUS
<1>0. Bad \subseteq SUBSET Coin
  OBVIOUS
<1>1. sizes \in SUBSET Nat /\ sizes # {}
  <2> HIDE DEF Bad
  <2> QED
    BY <1>0, CoinsFinite
<1>2. PICK n \in sizes : \A k \in sizes : n <= k
  <2> HIDE DEF sizes
  <2> QED
    BY <1>1, Least
<1>3. PICK s \in Bad : Cardinality(s) = n
  OBVIOUS
<1>4. s \in SUBSET Coin /\ n \in Nat /\ s \cap A = {} /\ s \subseteq B
  BY <1>1, <1>3
<1>5. s # {}
  <2>1. Good({})
    BY SumEmpty, SumType
  <2> QED
    BY <1>3, <2>1
<1>6. PICK d \in s : TRUE
  BY <1>5
<1> DEFINE r == s \ {d}
<1>7. r \in SUBSET B /\ r \in SUBSET Coin /\ Cardinality(r) = n - 1
  BY <1>3, <1>4, CoinsFinite
<1>8. Good(r)
  <2>1. r \in Bad => n - 1 \in sizes
    BY <1>7
  <2>2. n - 1 \notin sizes
    <3> HIDE DEF sizes
    <3> QED
      BY <1>2, <1>4
  <2> QED
    BY <1>7, <2>1, <2>2
<1>9. Sum(s) = Value[d] + Sum(r)
  BY <1>4, <1>6, SumLess
<1>10. Sum(A \cup s) = Value[d] + Sum(A \cup r)
  <2>1. A \cup s \in SUBSET Coin /\ d \in A \cup s /\ (A \cup s) \ {d} = A \cup r
    BY <1>4, <1>6
  <2> QED
    BY <2>1, SumLess
<1>11. Value[d] \in Nat /\ Sum(A) \in Nat /\ Sum(r) \in Nat
  BY <1>4, <1>6, <1>7, Values, SumType
<1> QED
  BY <1>3, <1>8, <1>9, <1>10, <1>11

LEMMA SumMinus ==
  ASSUME NEW A \in SUBSET Coin, NEW B \in SUBSET A
  PROVE  Sum(A \ B) = Sum(A) - Sum(B)
<1>1. A \ B \in SUBSET Coin /\ B \in SUBSET Coin /\ (A \ B) \cap B = {} /\ (A \ B) \cup B = A
  OBVIOUS
<1>2. Sum(A) = Sum(A \ B) + Sum(B)
  BY <1>1, SumUnion
<1> QED
  BY <1>1, <1>2, SumType

LEMMA CountUnion ==
  ASSUME NEW A \in SUBSET Coin, NEW B \in SUBSET Coin, A \cap B = {}
  PROVE  Cardinality(A \cup B) = Cardinality(A) + Cardinality(B)
<1>1. IsFiniteSet(A) /\ IsFiniteSet(B) /\ Cardinality(A) \in Nat /\ Cardinality(B) \in Nat
  BY CoinsFinite
<1>2. Cardinality(A \cup B) = Cardinality(A) + Cardinality(B) - Cardinality(A \cap B)
  BY <1>1, FS_Union
<1>3. Cardinality(A \cap B) = 0
  BY FS_EmptySet
<1> QED
  BY <1>1, <1>2, <1>3

LEMMA CountMinus ==
  ASSUME NEW A \in SUBSET Coin, NEW B \in SUBSET A
  PROVE  Cardinality(A \ B) = Cardinality(A) - Cardinality(B)
<1>1. A \ B \in SUBSET Coin /\ B \in SUBSET Coin /\ (A \ B) \cap B = {} /\ (A \ B) \cup B = A
  OBVIOUS
<1>2. Cardinality(A) = Cardinality(A \ B) + Cardinality(B)
  BY <1>1, CountUnion
<1>3. Cardinality(A \ B) \in Nat /\ Cardinality(B) \in Nat
  BY <1>1, CoinsFinite
<1> QED
  BY <1>2, <1>3

LEMMA TxFinite ==
  /\ \A S \in SUBSET Tx : IsFiniteSet(S) /\ Cardinality(S) \in Nat
  /\ \A S \in SUBSET Tx : \A t \in Tx \ S : Cardinality(S \cup {t}) = Cardinality(S) + 1
  /\ \A S \in SUBSET Tx : \A t \in S : Cardinality(S \ {t}) = Cardinality(S) - 1
<1>1. IsFiniteSet(Tx)
  BY TxAssumption
<1>2. \A S \in SUBSET Tx : IsFiniteSet(S)
  BY <1>1, FS_Subset
<1>3. \A S \in SUBSET Tx : \A t \in Tx \ S : Cardinality(S \cup {t}) = Cardinality(S) + 1
  BY <1>2, FS_AddElement
<1>4. \A S \in SUBSET Tx : \A t \in S : Cardinality(S \ {t}) = Cardinality(S) - 1
  BY <1>2, FS_RemoveElement
<1> QED
  BY <1>2, <1>3, <1>4, FS_CardinalityType

----------------------------------------------------------------------------
\* The lines of the tree of blocks.

LEMMA Lines ==
  ASSUME NEW b \in Block
  PROVE  /\ b \in Anc[b] /\ Genesis \in Anc[b] /\ Anc[b] \subseteq Block
         /\ Height[b] \in Nat
         /\ \A a \in Anc[b] :
              /\ Anc[a] \subseteq Anc[b] /\ Height[a] <= Height[b]
              /\ Height[a] = Height[b] => a = b
              /\ b \in Anc[a] => a = b
              /\ a # b => \E c \in Anc[b] : Parent[c] = a
              /\ \A c \in Anc[b] : Height[a] <= Height[c] => a \in Anc[c]
              /\ \A c \in Anc[b] : Height[a] = Height[c] => a = c
<1>1. \A x \in Block : Line(x) /\ Height[x] \in Nat /\ Anc[x] \subseteq Block
  BY AllLines, TreeTypes
<1>2. \A x \in Block : \A a \in Anc[x] : a \in Block /\ Height[a] \in Nat
                                           /\ (a # x => Height[a] < Height[x])
  BY <1>1 DEF Line
<1>3. \A x \in Block : \A a \in Anc[x] : Height[a] <= Height[x] /\ (Height[a] = Height[x] => a = x)
  BY <1>1, <1>2
<1>4. \A a \in Anc[b] : \A c \in Anc[b] : Height[a] <= Height[c] => a \in Anc[c]
  BY <1>1 DEF Line
<1>5. \A a \in Anc[b] : \A c \in Anc[b] : Height[a] = Height[c] => a = c
  <2> TAKE a \in Anc[b]
  <2> TAKE c \in Anc[b]
  <2> HAVE Height[a] = Height[c]
  <2>1. a \in Anc[c] /\ c \in Block
    BY <1>2, <1>4
  <2> QED
    BY <1>3, <2>1
<1>6. \A a \in Anc[b] : b \in Anc[a] => a = b
  <2> TAKE a \in Anc[b]
  <2> HAVE b \in Anc[a]
  <2>1. a \in Block /\ Height[b] <= Height[a] /\ Height[a] <= Height[b]
    BY <1>2, <1>3
  <2> QED
    BY <1>1, <1>3, <2>1
<1> QED
  BY <1>1, <1>3, <1>4, <1>5, <1>6 DEF Line

LEMMA Parents1 ==
  ASSUME NEW b \in Block, b # Genesis
  PROVE  /\ Parent[b] \in Block /\ Anc[b] = Anc[Parent[b]] \cup {b} /\ b \notin Anc[Parent[b]]
         /\ Height[b] = Height[Parent[b]] + 1 /\ Parent[b] \in Anc[b] /\ Parent[b] # b
<1>1. /\ Parent[b] \in Block /\ Anc[b] = Anc[Parent[b]] \cup {b} /\ b \notin Anc[Parent[b]]
      /\ Height[b] = Height[Parent[b]] + 1
  BY TreeAssumption
<1> QED
  BY <1>1, Lines

\* A block whose parent is a block is not the first, and has one height more.
LEMMA Child ==
  ASSUME NEW b \in Block, NEW a \in Block, Parent[b] = a
  PROVE  /\ b # Genesis /\ Anc[b] = Anc[a] \cup {b} /\ b \notin Anc[a] /\ a # b
         /\ Height[b] = Height[a] + 1 /\ a \in Anc[b]
<1>1. b # Genesis
  BY TreeAssumption
<1> QED
  BY <1>1, Parents1

LEMMA AboveParent ==
  ASSUME NEW b \in Block, NEW a \in Anc[b], a # b
  PROVE  b # Genesis /\ a \in Anc[Parent[b]]
<1>1. b # Genesis
  BY TreeAssumption
<1> QED
  BY <1>1, Parents1

LEMMA LowestIsGenesis == ASSUME NEW b \in Block, Height[b] = 0 PROVE b = Genesis
BY Lines, TreeAssumption

LEMMA Bounded ==
  ASSUME NEW S \in SUBSET Nat, S # {}, NEW n \in Nat, \A x \in S : x <= n
  PROVE  Max(S) \in S /\ \A x \in S : x <= Max(S)
<1> DEFINE R == {n - x : x \in S}
<1>1. R \in SUBSET Nat /\ R # {}
  OBVIOUS
<1>2. PICK r \in R : \A y \in R : r <= y
  <2> HIDE DEF R
  <2> QED
    BY <1>1, Least
<1>3. PICK m \in S : r = n - m
  OBVIOUS
<1>4. \A x \in S : m >= x
  <2> TAKE x \in S
  <2>1. n - m <= n - x
    BY <1>2, <1>3
  <2> QED
    BY <2>1
<1>5. \E x \in S : \A y \in S : x >= y
  BY <1>4
<1>6. Max(S) \in S /\ \A y \in S : Max(S) >= y
  <2>1. Max(S) = CHOOSE x \in S : \A y \in S : x >= y
    BY DEF Max
  <2> QED
    BY <1>5, <2>1
<1>7. \A x \in S : x \in Nat /\ Max(S) \in Nat
  BY <1>6
<1> QED
  BY <1>6, <1>7

\* Every block has an ancestor at each height below it.
LEMMA AtHeight ==
  ASSUME NEW b \in Block, NEW h \in 0..Height[b]
  PROVE  \E a \in Anc[b] : Height[a] = h
<1> DEFINE up == {Height[a] : a \in {a \in Anc[b] : Height[a] >= h}}
<1>1. Height[b] \in Nat /\ b \in Anc[b] /\ h \in Nat /\ Height[b] >= h
  BY Lines
<1>2. \A a \in Anc[b] : a \in Block /\ Height[a] \in Nat
  BY Lines
<1>3. up \in SUBSET Nat /\ up # {}
  BY <1>1, <1>2
<1>4. PICK m \in up : \A k \in up : m <= k
  <2> HIDE DEF up
  <2> QED
    BY <1>3, Least
<1>5. PICK a \in Anc[b] : Height[a] = m /\ m >= h
  OBVIOUS
<1>6. CASE m = h
  BY <1>5, <1>6
<1>7. CASE m # h
  <2>1. a \in Block /\ a # Genesis /\ m \in Nat /\ m > h
    BY <1>1, <1>2, <1>5, <1>7, TreeAssumption
  <2>2. Parent[a] \in Anc[b] /\ Height[Parent[a]] = m - 1
    <3>1. Parent[a] \in Anc[a] /\ Height[a] = Height[Parent[a]] + 1
      BY <2>1, Parents1
    <3>2. Parent[a] \in Anc[b]
      BY <3>1, <1>5, Lines
    <3> QED
      BY <3>1, <3>2, <1>2, <1>5
  <2>3. m - 1 \in up
    BY <2>1, <2>2, <1>1
  <2> QED
    BY <1>4, <2>1, <2>3
<1> QED
  BY <1>6, <1>7

----------------------------------------------------------------------------
\* What validity says of the transactions of one line.

LEMMA TxTypes ==
  /\ \A t \in Tx : Inputs[t] \subseteq Coin /\ Inputs[t] # {}
  /\ \A c \in Coin : Maker[c] \in Tx \cup OtherId
  /\ \A b \in Block : BlockTxs[b] \in Seq(Tx) /\ TxsOf(b) \subseteq Tx
  /\ \A b \in Block : \A i \in 1..Len(BlockTxs[b]) : BlockTxs[b][i] \in TxsOf(b)
  /\ \A b \in Block : \A t \in TxsOf(b) : \E i \in 1..Len(BlockTxs[b]) : t = BlockTxs[b][i]
<1>1. \A b \in Block : BlockTxs[b] \in Seq(Tx)
  BY TxAssumption
<1>2. \A b \in Block : TxsOf(b) = {BlockTxs[b][i] : i \in 1..Len(BlockTxs[b])}
  BY <1>1 DEF TxsOf, ToSet
<1>3. \A b \in Block : \A i \in 1..Len(BlockTxs[b]) : BlockTxs[b][i] \in Tx
  BY <1>1
<1>4. \A b \in Block : TxsOf(b) \subseteq Tx
  BY <1>2, <1>3
<1>5. \A b \in Block : \A i \in 1..Len(BlockTxs[b]) : BlockTxs[b][i] \in TxsOf(b)
  BY <1>2
<1>6. \A b \in Block : \A t \in TxsOf(b) : \E i \in 1..Len(BlockTxs[b]) : t = BlockTxs[b][i]
  BY <1>2
<1>7. \A t \in Tx : Inputs[t] \subseteq Coin /\ Inputs[t] # {}
  BY TxAssumption
<1>8. \A c \in Coin : Maker[c] \in Tx \cup OtherId
  BY TxAssumption DEF TxId
<1> QED
  BY <1>1, <1>4, <1>5, <1>6, <1>7, <1>8

LEMMA ValidBelow ==
  ASSUME NEW b \in Block, FullyValid(b), NEW a \in Anc[b]
  PROVE  FullyValid(a)
BY Lines DEF FullyValid

\* What the blocks of a line make and spend, and that the coins left are the rest.
CreatedOn(b) == UNION {Creates[a] : a \in Anc[b]}
SpentOn(b) == UNION {Spends[a] : a \in Anc[b]}
Replayed(b) ==
  FullyValid(b) => SpentOn(b) \subseteq CreatedOn(b) /\ Unspent[b] = CreatedOn(b) \ SpentOn(b)

LEMMA ReplayedNext ==
  ASSUME NEW b \in Block, b # Genesis, Replayed(Parent[b])
  PROVE  Replayed(b)
<1> SUFFICES ASSUME FullyValid(b)
             PROVE  SpentOn(b) \subseteq CreatedOn(b) /\ Unspent[b] = CreatedOn(b) \ SpentOn(b)
  BY DEF Replayed
<1> DEFINE p == Parent[b]
<1>1. b \in Block \ {Genesis} /\ p \in Block /\ Anc[b] = Anc[p] \cup {b} /\ b \notin Anc[p]
      /\ p \in Anc[b] /\ b \in Anc[b]
  BY TreeAssumption, Lines
<1>2. Unspent[b] = (Unspent[p] \cup Creates[b]) \ Spends[b]
  BY <1>1, CoinAssumption
<1>3. SpentOn(p) \subseteq CreatedOn(p) /\ Unspent[p] = CreatedOn(p) \ SpentOn(p)
  BY <1>1, ValidBelow DEF Replayed
<1>4. Spends[b] \subseteq Unspent[p] \cup Creates[b]
  BY <1>1 DEF FullyValid, ValidInContext, InputsExist
<1>5. CreatedOn(b) = CreatedOn(p) \cup Creates[b] /\ SpentOn(b) = SpentOn(p) \cup Spends[b]
  BY <1>1 DEF CreatedOn, SpentOn
<1>6. CreatedOn(p) \cap Creates[b] = {}
  <2>1. \A a \in Anc[p] : Creates[a] \cap Creates[b] = {}
    BY <1>1, WalletAssumption
  <2> QED
    BY <2>1 DEF CreatedOn
<1> HIDE DEF p
<1> QED
  BY <1>2, <1>3, <1>4, <1>5, <1>6

\* A lowest block of which that is false would have a parent of which it is true.
LEMMA AllReplayed == \A b \in Block : Replayed(b)
<1> SUFFICES ASSUME NEW x \in Block, ~Replayed(x)
             PROVE  FALSE
  OBVIOUS
<1> DEFINE bad == {b \in Block : ~Replayed(b)}
           heights == {Height[b] : b \in bad}
<1>1. heights \in SUBSET Nat /\ heights # {}
  BY TreeTypes
<1>2. PICK h \in heights : \A g \in heights : h <= g
  <2> HIDE DEF heights
  <2> QED
    BY <1>1, Least
<1>3. PICK b \in bad : Height[b] = h
  OBVIOUS
<1>4. b # Genesis
  <2>1. Replayed(Genesis)
    BY TreeAssumption, CoinAssumption DEF Replayed, CreatedOn, SpentOn
  <2> QED
    BY <1>3, <2>1
<1>5. Parent[b] \in Block /\ Height[Parent[b]] < Height[b]
  BY <1>3, <1>4, TreeTypes
<1>6. Parent[b] \notin bad
  <2>1. \A c \in bad : Height[b] <= Height[c]
    BY <1>2, <1>3
  <2> QED
    BY <1>3, <1>5, <2>1, TreeTypes
<1> QED
  BY <1>3, <1>4, <1>5, <1>6, ReplayedNext

LEMMA ValidCoins ==
  ASSUME NEW a \in Block, FullyValid(a), NEW c \in Spends[a]
  PROVE  /\ a # Genesis
         /\ c \in Creates[a] \/ \E e \in Anc[Parent[a]] : c \in Creates[e]
         /\ c \notin Creates[a] => \A e \in Anc[Parent[a]] : c \notin Spends[e]
<1>1. a # Genesis
  BY CoinAssumption
<1>2. Parent[a] \in Block /\ ValidInContext(a) /\ FullyValid(Parent[a])
  BY <1>1, TreeAssumption, Lines, ValidBelow DEF FullyValid
<1>3. c \in Unspent[Parent[a]] \cup Creates[a]
  BY <1>1, <1>2 DEF ValidInContext, InputsExist
<1>4. Unspent[Parent[a]] = CreatedOn(Parent[a]) \ SpentOn(Parent[a])
  BY <1>2, AllReplayed DEF Replayed
<1> QED
  BY <1>1, <1>3, <1>4 DEF CreatedOn, SpentOn

LEMMA SpentOnce ==
  ASSUME NEW b \in Block, FullyValid(b), NEW a \in Anc[b], NEW e \in Anc[b],
         NEW c \in Spends[a] \cap Spends[e], Height[a] <= Height[e]
  PROVE  a = e
<1> SUFFICES ASSUME a # e PROVE FALSE
  OBVIOUS
<1>1. a \in Block /\ e \in Block /\ FullyValid(a) /\ FullyValid(e) /\ a \in Anc[e]
  BY Lines, ValidBelow
<1>2. e # Genesis /\ a \in Anc[Parent[e]]
  BY <1>1, AboveParent
<1>3. c \in Creates[e]
  BY <1>1, <1>2, ValidCoins
<1>4. PICK f \in Anc[a] : c \in Creates[f]
  <2>1. a # Genesis /\ (c \in Creates[a] \/ \E f \in Anc[Parent[a]] : c \in Creates[f])
    BY <1>1, ValidCoins
  <2> QED
    BY <1>1, <2>1, Parents1, Lines
<1>5. f \in Anc[e] /\ f # e
  <2>1. Parent[e] \in Block
    BY <1>1, <1>2, Parents1
  <2>2. f \in Anc[Parent[e]]
    BY <1>2, <1>4, <2>1, Lines
  <2> QED
    BY <1>1, <1>2, <2>2, Parents1
<1> QED
  BY <1>1, <1>3, <1>4, <1>5, WalletAssumption

\* On one line no two transactions spend the same coin, and none is there twice.
LEMMA OneSpender ==
  ASSUME NEW b \in Block, FullyValid(b), NEW a \in Anc[b], NEW e \in Anc[b],
         NEW t \in TxsOf(a), NEW x \in TxsOf(e), Inputs[t] \cap Inputs[x] # {}
  PROVE  a = e /\ t = x
<1>1. a \in Block /\ e \in Block /\ Height[a] \in Nat /\ Height[e] \in Nat
  BY Lines
<1>2. PICK c : c \in Inputs[t] \cap Inputs[x]
  OBVIOUS
<1>3. c \in Spends[a] /\ c \in Spends[e]
  BY <1>1, <1>2, TxAssumption
<1>4. a = e
  <2>1. CASE Height[a] <= Height[e]
    BY <1>3, <2>1, SpentOnce
  <2>2. CASE Height[e] <= Height[a]
    BY <1>3, <2>2, SpentOnce
  <2> QED
    BY <1>1, <2>1, <2>2
<1>5. PICK i \in 1..Len(BlockTxs[a]), j \in 1..Len(BlockTxs[a]) :
        t = BlockTxs[a][i] /\ x = BlockTxs[a][j]
  BY <1>1, <1>4, TxTypes
<1>6. FullyValid(a)
  BY ValidBelow
<1>7. i # j => Inputs[t] \cap Inputs[x] = {}
  BY <1>1, <1>5, <1>6, WalletAssumption
<1> QED
  BY <1>4, <1>5, <1>7

LEMMA OneBlock ==
  ASSUME NEW b \in Block, FullyValid(b), NEW a \in Anc[b], NEW e \in Anc[b],
         NEW t \in TxsOf(a), t \in TxsOf(e)
  PROVE  a = e
<1>1. t \in Tx /\ Inputs[t] # {}
  BY Lines, TxTypes
<1> QED
  BY <1>1, OneSpender

\* A block has each transaction in one place.
LEMMA OnePlace ==
  ASSUME NEW b \in Block, FullyValid(b), NEW i \in 1..Len(BlockTxs[b]),
         NEW j \in 1..Len(BlockTxs[b]), BlockTxs[b][i] = BlockTxs[b][j]
  PROVE  i = j
<1>1. BlockTxs[b][i] \in Tx
  BY TxTypes
<1>2. Inputs[BlockTxs[b][i]] # {}
  BY <1>1, TxTypes
<1> QED
  BY <1>2, WalletAssumption

\* What a transaction of a line spends was made on that line, in the same block
\* before it.
LEMMA MakerOnLine ==
  ASSUME NEW a \in Block, FullyValid(a), NEW t \in TxsOf(a), NEW c \in Inputs[t],
         Maker[c] \in Tx
  PROVE  \E e \in Anc[a] : Maker[c] \in TxsOf(e)
<1>1. c \in Spends[a] /\ c \in Coin
  BY TxAssumption, TxTypes
<1>2. PICK e \in Anc[a] : c \in Creates[e]
  <2>1. a # Genesis /\ (c \in Creates[a] \/ \E e \in Anc[Parent[a]] : c \in Creates[e])
    BY <1>1, ValidCoins
  <2> QED
    BY <2>1, Parents1, Lines
<1>3. e \in Block
  BY Lines
<1>4. Maker[c] \in TxsOf(e) \cup OtherId
  BY <1>2, <1>3, TxAssumption
<1> QED
  BY <1>2, <1>4, TxAssumption

LEMMA MakerBefore ==
  ASSUME NEW a \in Block, NEW i \in 1..Len(BlockTxs[a]), NEW j \in 1..Len(BlockTxs[a]),
         NEW c \in Inputs[BlockTxs[a][i]], Maker[c] = BlockTxs[a][j]
  PROVE  j < i
<1>1. BlockTxs[a][j] \in Parents(BlockTxs[a][i])
  BY DEF Parents
<1> QED
  BY <1>1, TxAssumption

----------------------------------------------------------------------------
\* Sequences.

FirstAt(s, e) == Min({i \in 1..Len(s) : s[i] = e})

LEMMA FirstIs ==
  ASSUME NEW X, NEW s \in Seq(X), NEW e, NEW n \in 1..Len(s), s[n] = e
  PROVE  /\ FirstAt(s, e) \in 1..Len(s) /\ s[FirstAt(s, e)] = e
         /\ RemoveFirst(s, e) = RemoveAt(s, FirstAt(s, e))
<1> DEFINE I == {i \in 1..Len(s) : s[i] = e}
<1>1. SelectInSeq(s, LAMBDA v : v = e) = IF I # {} THEN Min(I) ELSE 0
  BY DEF SelectInSeq
<1>2. I \in SUBSET Nat /\ I # {} /\ I \subseteq 1..Len(s)
  OBVIOUS
<1>3. Min(I) = CHOOSE x \in I : \A y \in I : x <= y
  BY DEF Min
<1>4. \E x \in I : \A y \in I : x <= y
  <2> HIDE DEF I
  <2> QED
    BY <1>2, Least
<1>5. Min(I) \in I
  <2> HIDE DEF I
  <2> QED
    BY <1>3, <1>4
<1>6. RemoveFirst(s, e) = RemoveAt(s, FirstAt(s, e))
  BY <1>1, <1>2 DEF RemoveFirst, FirstAt
<1> QED
  BY <1>2, <1>5, <1>6 DEF FirstAt

\* What is left without the first of the value e.
LEMMA Removed ==
  ASSUME NEW s \in Seq(Tx), NEW e \in Tx, NEW n \in 1..Len(s), s[n] = e
  PROVE  \E k \in 1..Len(s) :
           /\ s[k] = e
           /\ RemoveFirst(s, e) \in Seq(Tx) /\ Len(RemoveFirst(s, e)) = Len(s) - 1
           /\ \A i \in 1..(Len(s) - 1) :
                RemoveFirst(s, e)[i] = IF i < k THEN s[i] ELSE s[i + 1]
<1> DEFINE k == FirstAt(s, e)
<1>1. k \in 1..Len(s) /\ s[k] = e
  BY FirstIs
<1>2. RemoveFirst(s, e) = SubSeq(s, 1, k - 1) \o SubSeq(s, k + 1, Len(s))
  BY FirstIs DEF RemoveAt
<1> HIDE DEF k
<1> DEFINE a == SubSeq(s, 1, k - 1)
           b == SubSeq(s, k + 1, Len(s))
<1>3. a \in Seq(Tx) /\ Len(a) = k - 1 /\ \A i \in 1..(k - 1) : a[i] = s[i]
  BY <1>1
<1>4. b \in Seq(Tx) /\ Len(b) = Len(s) - k /\ \A i \in 1..(Len(s) - k) : b[i] = s[k + i]
  BY <1>1
<1> HIDE DEF a, b
<1>5. /\ a \o b \in Seq(Tx) /\ Len(a \o b) = Len(s) - 1
      /\ \A i \in 1..Len(a) + Len(b) : (a \o b)[i] = IF i <= Len(a) THEN a[i] ELSE b[i - Len(a)]
  <2>1. a \in Seq(Tx) /\ b \in Seq(Tx)
    BY <1>3, <1>4
  <2>2. /\ a \o b \in Seq(Tx) /\ Len(a \o b) = Len(a) + Len(b)
        /\ \A i \in 1..Len(a) + Len(b) : (a \o b)[i] = IF i <= Len(a) THEN a[i] ELSE b[i - Len(a)]
    BY <2>1, ConcatProperties
  <2>3. Len(a) + Len(b) = Len(s) - 1
    BY <1>1, <1>3, <1>4
  <2> QED
    BY <2>2, <2>3
<1>6. ASSUME NEW i \in 1..(Len(s) - 1)
      PROVE  (a \o b)[i] = IF i < k THEN s[i] ELSE s[i + 1]
  <2>1. (a \o b)[i] = IF i <= Len(a) THEN a[i] ELSE b[i - Len(a)]
    <3>1. i \in 1..Len(a) + Len(b)
      BY <1>1, <1>3, <1>4
    <3> QED
      BY <1>5, <3>1
  <2>2. CASE i < k
    BY <1>1, <1>3, <2>1, <2>2
  <2>3. CASE ~(i < k)
    <3>1. i - (k - 1) \in 1..(Len(s) - k) /\ k + (i - (k - 1)) = i + 1
      BY <1>1, <2>3
    <3>2. b[i - (k - 1)] = s[i + 1]
      BY <1>4, <3>1
    <3> QED
      BY <1>1, <1>3, <2>1, <2>3, <3>2
  <2> QED
    BY <2>2, <2>3
<1>7. RemoveFirst(s, e) = a \o b
  BY <1>2 DEF a, b
<1> QED
  BY <1>1, <1>5, <1>6, <1>7

LEMMA NotRemoved ==
  ASSUME NEW X, NEW s \in Seq(X), NEW e, \A n \in 1..Len(s) : s[n] # e
  PROVE  RemoveFirst(s, e) = s
BY DEF RemoveFirst

LEMMA Appended ==
  ASSUME NEW X, NEW s \in Seq(X), NEW e \in X
  PROVE  /\ Append(s, e) \in Seq(X) /\ Len(Append(s, e)) = Len(s) + 1
         /\ Append(s, e)[Len(s) + 1] = e
         /\ \A i \in 1..Len(s) : Append(s, e)[i] = s[i]
OBVIOUS

LEMMA Fronts ==
  ASSUME NEW X, NEW s \in Seq(X), s # <<>>
  PROVE  /\ Front(s) \in Seq(X) /\ Len(Front(s)) = Len(s) - 1 /\ Len(s) \in Nat \ {0}
         /\ \A i \in 1..(Len(s) - 1) : Front(s)[i] = s[i]
         /\ Last(s) = s[Len(s)] /\ Last(s) \in X
<1>1. Len(s) \in Nat \ {0}
  BY EmptySeq
<1> DEFINE n == Len(s) - 1
<1>2. n \in 0..Len(s) /\ n + 1 - 1 = n
  BY <1>1
<1>4. SubSeq(s, 1, n) \in Seq(X) /\ Len(SubSeq(s, 1, n)) = n
  BY <1>1, <1>2
<1>5. \A i \in 1..n : SubSeq(s, 1, n)[i] = s[i]
  BY <1>1, <1>2
<1>3. s[Len(s)] \in X
  BY <1>1
<1> QED
  BY <1>1, <1>2, <1>3, <1>4, <1>5 DEF Front, Last

LEMMA Tails ==
  ASSUME NEW X, NEW s \in Seq(X), s # <<>>
  PROVE  /\ Head(s) \in X /\ Head(s) = s[1] /\ Len(s) \in Nat \ {0}
         /\ Tail(s) \in Seq(X) /\ Len(Tail(s)) = Len(s) - 1
         /\ \A i \in 1..(Len(s) - 1) : Tail(s)[i] = s[i + 1]
<1>1. Len(s) \in Nat \ {0}
  BY EmptySeq
<1> QED
  BY <1>1

----------------------------------------------------------------------------
\* What holds of the records of txdb whatever the wallet is told.

IsPending(t) == txs[t] = Pending

\* A spend record names a transaction that is there and spends the coin.
SpentInv ==
  \A c \in Coin : spent[c] # NoTx =>
    /\ Exists(spent[c]) /\ c \in Inputs[spent[c]]
    /\ IsPending(spent[c]) \/ <<spent[c], c>> \in undo

\* Each block record lists mined transactions of its height, once each.
BlocksInv ==
  \A h \in Heights : \A i \in 1..Len(blocks[h]) :
    /\ Mined(blocks[h][i]) /\ Height[txs[blocks[h][i]]] = h
    /\ \A j \in 1..Len(blocks[h]) : blocks[h][i] = blocks[h][j] => i = j

\* And every mined transaction is in one.
RecordInv ==
  \A t \in Tx : Mined(t) =>
    \E i \in 1..Len(blocks[Height[txs[t]]]) : blocks[Height[txs[t]]][i] = t

Db == TxDBTypeOK /\ SpentInv /\ BlocksInv /\ RecordInv

\* s is r without its place k.
Without(s, r, k) ==
  /\ Len(s) = Len(r) - 1
  /\ \A i \in 1..(Len(r) - 1) : s[i] = IF i < k THEN r[i] ELSE r[i + 1]

LEMMA HeightIn == \A b \in Block : Height[b] \in Heights /\ Height[b] \in Nat
BY TreeTypes DEF Heights

LEMMA HeightsNat == Heights \subseteq Nat
BY TreeTypes DEF Heights

LEMMA States == ASSUME TxDBTypeOK, NEW t \in Tx
                PROVE  /\ txs[t] \in {Absent, Pending} \cup Block
                       /\ Mined(t) <=> txs[t] \notin {Absent, Pending}
                       /\ Exists(t) <=> Mined(t) \/ IsPending(t)
                       /\ ~(Mined(t) /\ IsPending(t))
                       /\ Absent # Pending /\ Absent \notin Block /\ Pending \notin Block
BY TxDBAssumption DEF TxDBTypeOK, Mined, Exists, IsPending

LEMMA AddedToDb ==
  ASSUME TxDBTypeOK, BlocksInv, RecordInv, NEW t \in Tx, NEW b \in Block, ~Mined(t),
         txs' = [txs EXCEPT ![t] = b], AddedTo(b, t)
  PROVE  /\ blocks' \in [Heights -> Seq(Tx)] /\ mapped' \subseteq Heights
         /\ BlocksInv' /\ RecordInv'
<1> DEFINE g == Height[b]
           r == blocks[g]
<1>1. g \in Heights /\ r \in Seq(Tx) /\ blocks \in [Heights -> Seq(Tx)]
  BY HeightIn DEF TxDBTypeOK
<1>2. /\ Append(r, t) \in Seq(Tx) /\ Len(Append(r, t)) = Len(r) + 1
      /\ Append(r, t)[Len(r) + 1] = t /\ Len(r) \in Nat
      /\ \A i \in 1..Len(r) : Append(r, t)[i] = r[i]
  <2> HIDE DEF r
  <2> QED
    BY <1>1, Appended
<1>3. blocks' = [blocks EXCEPT ![g] = Append(r, t)]
  BY DEF AddedTo
<1>4. blocks' \in [Heights -> Seq(Tx)] /\ mapped' \subseteq Heights
  BY <1>1, <1>2, <1>3 DEF AddedTo, TxDBTypeOK
<1>5. /\ blocks'[g] = Append(r, t)
      /\ \A h \in Heights \ {g} : blocks'[h] = blocks[h]
  BY <1>1, <1>3
<1>6. txs'[t] = b /\ \A x \in Tx \ {t} : txs'[x] = txs[x]
  BY DEF TxDBTypeOK
<1> HIDE DEF r, g
<1>7. \A h \in Heights : \A i \in 1..Len(blocks[h]) :
        blocks[h][i] # t /\ blocks[h][i] \in Tx
  BY <1>1 DEF BlocksInv
<1>8. \A i \in 1..Len(r) : r[i] # t /\ r[i] \in Tx
  BY <1>1, <1>7 DEF r
<1>9. BlocksInv'
  <2>1. ASSUME NEW h \in Heights, NEW i \in 1..Len(blocks'[h])
        PROVE  /\ txs'[blocks'[h][i]] \in Block /\ Height[txs'[blocks'[h][i]]] = h
               /\ \A j \in 1..Len(blocks'[h]) : blocks'[h][i] = blocks'[h][j] => i = j
    <3>1. CASE h # g
      <4>1. blocks'[h] = blocks[h] /\ i \in 1..Len(blocks[h])
        BY <1>5, <3>1, <2>1
      <4>2. blocks[h][i] \in Tx \ {t}
        BY <1>7, <4>1
      <4>3. /\ txs[blocks[h][i]] \in Block /\ Height[txs[blocks[h][i]]] = h
            /\ \A j \in 1..Len(blocks[h]) : blocks[h][i] = blocks[h][j] => i = j
        BY <4>1 DEF BlocksInv, Mined
      <4> QED
        BY <1>6, <4>1, <4>2, <4>3
    <3>2. CASE h = g /\ i # Len(r) + 1
      <4>1. i \in 1..Len(r) /\ blocks'[h][i] = r[i] /\ r = blocks[h]
        BY <1>2, <1>5, <3>2, <2>1 DEF r
      <4>2. r[i] \in Tx \ {t}
        BY <1>8, <4>1
      <4>3. /\ txs[r[i]] \in Block /\ Height[txs[r[i]]] = h
            /\ \A j \in 1..Len(r) : r[i] = r[j] => i = j
        BY <4>1 DEF BlocksInv, Mined
      <4>4. \A j \in 1..Len(blocks'[h]) : j = Len(r) + 1 \/ j \in 1..Len(r)
        BY <1>2, <1>5, <3>2
      <4>5. \A j \in 1..Len(blocks'[h]) : blocks'[h][i] = blocks'[h][j] => i = j
        BY <1>2, <1>5, <3>2, <4>1, <4>2, <4>3, <4>4
      <4> QED
        BY <1>6, <4>1, <4>2, <4>3, <4>5
    <3>3. CASE h = g /\ i = Len(r) + 1
      <4>1. blocks'[h][i] = t
        BY <1>2, <1>5, <3>3
      <4>2. \A j \in 1..Len(blocks'[h]) : j = Len(r) + 1 \/ j \in 1..Len(r)
        BY <1>2, <1>5, <3>3
      <4>3. \A j \in 1..Len(r) : blocks'[h][j] # t
        BY <1>2, <1>5, <1>8, <3>3
      <4> QED
        BY <1>6, <4>1, <4>2, <4>3, <3>3 DEF g
    <3> QED
      BY <3>1, <3>2, <3>3
  <2> QED
    BY <2>1 DEF BlocksInv, Mined
<1>10. RecordInv'
  <2>1. ASSUME NEW x \in Tx, txs'[x] \in Block
        PROVE  \E i \in 1..Len(blocks'[Height[txs'[x]]]) : blocks'[Height[txs'[x]]][i] = x
    <3>1. CASE x = t
      <4>1. txs'[x] = b /\ Height[b] = g
        BY <1>6, <3>1 DEF g
      <4>2. Len(r) + 1 \in 1..Len(blocks'[g]) /\ blocks'[g][Len(r) + 1] = x
        BY <1>2, <1>5, <3>1
      <4> QED
        BY <4>1, <4>2
    <3>2. CASE x # t
      <4>1. txs'[x] = txs[x] /\ Mined(x)
        BY <1>6, <2>1, <3>2 DEF Mined
      <4>2. PICK i \in 1..Len(blocks[Height[txs[x]]]) : blocks[Height[txs[x]]][i] = x
        BY <4>1 DEF RecordInv
      <4>3. Height[txs[x]] \in Heights
        BY <4>1, HeightIn DEF Mined
      <4>4. CASE Height[txs[x]] = g
        <5>1. i \in 1..Len(r) /\ r[i] = x
          BY <4>2, <4>4 DEF r
        <5>2. i \in 1..Len(blocks'[g]) /\ blocks'[g][i] = x
          BY <1>2, <1>5, <5>1
        <5> QED
          BY <4>1, <4>4, <5>2
      <4>5. CASE Height[txs[x]] # g
        BY <1>5, <4>1, <4>2, <4>3, <4>5
      <4> QED
        BY <4>4, <4>5
    <3> QED
      BY <3>1, <3>2
  <2> QED
    BY <2>1 DEF RecordInv, Mined
<1> QED
  BY <1>4, <1>9, <1>10

LEMMA TakenDb ==
  ASSUME TxDBTypeOK, BlocksInv, RecordInv, NEW t \in Tx, Mined(t),
         NEW v, v \notin Block, txs' = [txs EXCEPT ![t] = v],
         NEW k \in 1..Len(blocks[Height[txs[t]]]), blocks[Height[txs[t]]][k] = t,
         NEW s \in Seq(Tx), Without(s, blocks[Height[txs[t]]], k),
         blocks' = [blocks EXCEPT ![Height[txs[t]]] = s]
  PROVE  blocks' \in [Heights -> Seq(Tx)] /\ BlocksInv' /\ RecordInv'
<1> DEFINE g == Height[txs[t]]
           r == blocks[g]
<1>1. g \in Heights /\ r \in Seq(Tx) /\ blocks \in [Heights -> Seq(Tx)]
  BY HeightIn DEF TxDBTypeOK, Mined
<1>2. blocks' \in [Heights -> Seq(Tx)]
  BY <1>1
<1>3. blocks'[g] = s /\ \A h \in Heights \ {g} : blocks'[h] = blocks[h]
  BY <1>1
<1>4. txs'[t] = v /\ \A x \in Tx \ {t} : txs'[x] = txs[x]
  BY DEF TxDBTypeOK
<1>5. /\ Len(s) = Len(r) - 1 /\ Len(r) \in Nat /\ k \in 1..Len(r) /\ r[k] = t
      /\ \A i \in 1..(Len(r) - 1) : s[i] = IF i < k THEN r[i] ELSE r[i + 1]
  BY <1>1 DEF Without
<1>5a. \A i \in 1..Len(r) :
         /\ r[i] \in Tx /\ txs[r[i]] \in Block /\ Height[txs[r[i]]] = g
         /\ \A j \in 1..Len(r) : r[i] = r[j] => i = j
  BY <1>1 DEF BlocksInv, Mined
<1>5b. \A h \in Heights \ {g} : \A i \in 1..Len(blocks[h]) : blocks[h][i] \in Tx \ {t}
  <2> TAKE h \in Heights \ {g}
  <2> TAKE i \in 1..Len(blocks[h])
  <2>1. blocks[h][i] \in Tx
    BY <1>1
  <2>2. Height[txs[blocks[h][i]]] = h
    BY DEF BlocksInv
  <2> QED
    BY <2>1, <2>2
<1> HIDE DEF r
<1>6. \A i \in 1..(Len(r) - 1) : \E j \in 1..Len(r) :
        s[i] = r[j] /\ j # k /\ j = (IF i < k THEN i ELSE i + 1)
  <2> TAKE i \in 1..(Len(r) - 1)
  <2>1. CASE i < k
    BY <1>5, <2>1
  <2>2. CASE ~(i < k)
    <3>1. i + 1 \in 1..Len(r) /\ i + 1 # k
      BY <1>5, <2>2
    <3> QED
      BY <1>5, <2>2, <3>1
  <2> QED
    BY <2>1, <2>2
<1>7. BlocksInv'
  <2>1. ASSUME NEW h \in Heights, NEW i \in 1..Len(blocks'[h])
        PROVE  /\ txs'[blocks'[h][i]] \in Block /\ Height[txs'[blocks'[h][i]]] = h
               /\ \A j \in 1..Len(blocks'[h]) : blocks'[h][i] = blocks'[h][j] => i = j
    <3>1. CASE h # g
      <4>1. blocks'[h] = blocks[h] /\ i \in 1..Len(blocks[h])
        BY <1>3, <3>1, <2>1
      <4>2. blocks[h][i] \in Tx \ {t}
        BY <1>5b, <4>1, <3>1
      <4>3. /\ txs[blocks[h][i]] \in Block /\ Height[txs[blocks[h][i]]] = h
            /\ \A j \in 1..Len(blocks[h]) : blocks[h][i] = blocks[h][j] => i = j
        BY <4>1 DEF BlocksInv, Mined
      <4> QED
        BY <1>4, <4>1, <4>2, <4>3
    <3>2. CASE h = g
      <4>1. blocks'[h] = s /\ i \in 1..(Len(r) - 1)
        BY <1>3, <1>5, <3>2, <2>1
      <4>2. PICK a \in 1..Len(r) : s[i] = r[a] /\ a # k /\ a = (IF i < k THEN i ELSE i + 1)
        BY <1>6, <4>1
      <4>3. s[i] \in Tx \ {t} /\ txs[s[i]] \in Block /\ Height[txs[s[i]]] = h
        BY <1>5, <1>5a, <4>2, <3>2
      <4>4. ASSUME NEW j \in 1..Len(s), s[i] = s[j]
            PROVE  i = j
        <5>1. j \in 1..(Len(r) - 1)
          BY <1>5
        <5>2. PICK e \in 1..Len(r) : s[j] = r[e] /\ e # k /\ e = (IF j < k THEN j ELSE j + 1)
          BY <1>6, <5>1
        <5>3. a = e
          BY <1>5a, <4>2, <4>4, <5>2
        <5> QED
          BY <4>1, <4>2, <5>1, <5>2, <5>3, <1>5
      <4> QED
        BY <1>4, <4>1, <4>3, <4>4
    <3> QED
      BY <3>1, <3>2
  <2> QED
    BY <2>1 DEF BlocksInv, Mined
<1>8. RecordInv'
  <2>1. ASSUME NEW x \in Tx, txs'[x] \in Block
        PROVE  \E i \in 1..Len(blocks'[Height[txs'[x]]]) : blocks'[Height[txs'[x]]][i] = x
    <3>1. x # t /\ txs'[x] = txs[x] /\ Mined(x)
      BY <1>4, <2>1 DEF Mined
    <3>2. PICK i \in 1..Len(blocks[Height[txs[x]]]) : blocks[Height[txs[x]]][i] = x
      BY <3>1 DEF RecordInv
    <3>3. Height[txs[x]] \in Heights
      BY <3>1, HeightIn DEF Mined
    <3>4. CASE Height[txs[x]] # g
      BY <1>3, <3>1, <3>2, <3>3, <3>4
    <3>5. CASE Height[txs[x]] = g
      <4>1. i \in 1..Len(r) /\ r[i] = x /\ i # k
        BY <3>1, <3>2, <3>5, <1>5 DEF r
      <4> DEFINE j == IF i < k THEN i ELSE i - 1
      <4>2. j \in 1..(Len(r) - 1) /\ (IF j < k THEN j ELSE j + 1) = i
        BY <4>1, <1>5
      <4>3. s[j] = r[i]
        BY <4>2, <1>5
      <4>4. j \in 1..Len(blocks'[g]) /\ blocks'[g][j] = x
        BY <1>3, <1>5, <4>1, <4>2, <4>3
      <4> QED
        BY <3>1, <3>5, <4>4
    <3> QED
      BY <3>4, <3>5
  <2> QED
    BY <2>1 DEF RecordInv, Mined
<1> QED
  BY <1>2, <1>7, <1>8

LEMMA BalancedType ==
  ASSUME TxDBTypeOK, NEW n \in Int,
         NEW in \in SUBSET Coin, NEW out \in SUBSET Coin,
         NEW confIn \in SUBSET Coin, NEW confOut \in SUBSET Coin,
         Balanced(n, in, out, confIn, confOut)
  PROVE  balance' \in [tx : Int, coin : Int, unconfirmed : Int, confirmed : Int]
<1>1. /\ Cardinality(in) \in Int /\ Cardinality(out) \in Int
      /\ Sum(in) \in Int /\ Sum(out) \in Int /\ Sum(confIn) \in Int /\ Sum(confOut) \in Int
  BY CoinsFinite, SumType
<1>2. /\ balance.tx \in Int /\ balance.coin \in Int
      /\ balance.unconfirmed \in Int /\ balance.confirmed \in Int
  BY DEF TxDBTypeOK
<1> QED
  BY <1>1, <1>2 DEF Balanced

LEMMA CoinSets ==
  ASSUME TxDBTypeOK, NEW t \in Tx
  PROVE  /\ Ours(t) \subseteq Coin /\ Ours(t) \subseteq Mine /\ Mine \subseteq Coin
         /\ Inputs[t] \subseteq Coin /\ Undone(t) \subseteq Inputs[t] /\ Undone(t) \subseteq Mine
         /\ credits \subseteq Coin /\ Newly(t) \subseteq Inputs[t] \cap credits
         /\ \A c \in Coin : c \in Ours(t) <=> c \in Mine /\ Maker[c] = t
BY TxTypes, TxDBAssumption DEF TxDBTypeOK, Ours, Outputs, Undone, Newly

LEMMA InsertDb ==
  ASSUME Db, NEW t \in Tx, NEW b \in Block \cup {NoBlock}, txs[t] = Absent, Insert(t, b)
  PROVE  Db' /\ \A x \in Tx \ {t} : txs'[x] = txs[x]
<1> DEFINE known == Inputs[t] \cap credits
           conf == b # NoBlock
<1>0. TxDBTypeOK
  BY DEF Db
<1>s. /\ Ours(t) \subseteq Coin /\ Ours(t) \subseteq Mine /\ Mine \subseteq Coin
      /\ Inputs[t] \subseteq Coin /\ credits \subseteq Coin
  BY <1>0, CoinSets
<1>1. CASE known \cup Ours(t) = {}
  <2>1. UNCHANGED txdb
    BY <1>1 DEF Insert
  <2> QED
    BY <2>1 DEF Db, TxDBTypeOK, SpentInv, BlocksInv, RecordInv, Mined, Exists, IsPending,
                txdb, coinVars
<1>2. CASE known \cup Ours(t) # {}
  <2>1. /\ txs' = [txs EXCEPT ![t] = IF conf THEN b ELSE Pending]
        /\ credits' = (credits \ IF conf THEN known ELSE {}) \cup Ours(t)
        /\ flagged' = IF conf THEN flagged \ known ELSE flagged \cup known
        /\ mined' = IF conf THEN (mined \ known) \cup Ours(t) ELSE mined
        /\ undo' = undo \cup Undos(t, known)
        /\ undoMined' = undoMined \cup Undos(t, known \cap mined)
        /\ spent' = [c \in Coin |->
                       IF c \in known \/ (~conf /\ c \in Inputs[t]) THEN t ELSE spent[c]]
        /\ watch' = (IF conf THEN watch \ known ELSE watch \cup Inputs[t]) \cup Ours(t)
        /\ IF conf THEN AddedTo(b, t) ELSE UNCHANGED <<blocks, mapped>>
        /\ Balanced(1, Ours(t), known, IF conf THEN Ours(t) ELSE {},
                    IF conf THEN known ELSE {})
    BY <1>2 DEF Insert
  <2>2. conf => b \in Block
    OBVIOUS
  <2>3. txs' \in [Tx -> {Absent, Pending} \cup Block]
    BY <2>1, <2>2, <1>0 DEF TxDBTypeOK
  <2>4. /\ flagged' \subseteq credits' /\ mined' \subseteq credits' /\ credits' \subseteq Mine
    BY <2>1, <1>0, <1>s DEF TxDBTypeOK
  <2>5. undoMined' \subseteq undo' /\ undo' \subseteq Tx \X Mine
    BY <2>1, <1>0, <1>s DEF TxDBTypeOK, Undos
  <2>6. spent' \in [Coin -> Tx \cup {NoTx}]
    BY <2>1, <1>0 DEF TxDBTypeOK
  <2>7. watch' \subseteq Coin
    BY <2>1, <1>0, <1>s DEF TxDBTypeOK
  <2>8. balance' \in [tx : Int, coin : Int, unconfirmed : Int, confirmed : Int]
    <3> DEFINE confIn == IF conf THEN Ours(t) ELSE {}
               confOut == IF conf THEN known ELSE {}
    <3>1. known \in SUBSET Coin /\ Ours(t) \in SUBSET Coin /\ confIn \in SUBSET Coin /\ confOut \in SUBSET Coin
      BY <1>s
    <3>2. Balanced(1, Ours(t), known, confIn, confOut)
      BY <2>1
    <3> HIDE DEF known, conf, confIn, confOut
    <3> QED
      BY <3>1, <3>2, <1>0, BalancedType
  <2>9. txs'[t] = (IF conf THEN b ELSE Pending) /\ \A x \in Tx \ {t} : txs'[x] = txs[x]
    BY <2>1, <1>0 DEF TxDBTypeOK
  <2>10. txs'[t] # Absent /\ (~conf => txs'[t] = Pending)
    BY <2>9, <2>2, TxDBAssumption
  <2>11. SpentInv'
    <3> SUFFICES ASSUME NEW c \in Coin, spent'[c] # NoTx
                 PROVE  /\ txs'[spent'[c]] # Absent /\ c \in Inputs[spent'[c]]
                        /\ txs'[spent'[c]] = Pending \/ <<spent'[c], c>> \in undo'
      BY DEF SpentInv, Exists, IsPending
    <3>1. CASE c \in known \/ (~conf /\ c \in Inputs[t])
      <4>1. spent'[c] = t
        BY <2>1, <3>1
      <4>2. c \in known => <<t, c>> \in undo'
        BY <2>1 DEF Undos
      <4> QED
        BY <3>1, <4>1, <4>2, <2>10
    <3>2. CASE ~(c \in known \/ (~conf /\ c \in Inputs[t]))
      <4>1. spent'[c] = spent[c]
        BY <2>1, <3>2
      <4>2. /\ txs[spent[c]] # Absent /\ c \in Inputs[spent[c]]
            /\ txs[spent[c]] = Pending \/ <<spent[c], c>> \in undo
        BY <4>1 DEF Db, SpentInv, Exists, IsPending
      <4>3. spent[c] \in Tx
        BY <4>1, <1>0 DEF TxDBTypeOK
      <4>4. spent[c] # t
        BY <4>2
      <4> QED
        BY <4>1, <4>2, <4>3, <4>4, <2>9, <2>1
    <3> QED
      BY <3>1, <3>2
  <2>12. blocks' \in [Heights -> Seq(Tx)] /\ mapped' \subseteq Heights /\ BlocksInv' /\ RecordInv'
    <3>1. CASE conf
      <4>1. txs' = [txs EXCEPT ![t] = b] /\ AddedTo(b, t) /\ b \in Block
        BY <2>1, <2>2, <3>1
      <4>2. ~Mined(t)
        BY <1>0, States
      <4> QED
        BY <4>1, <4>2, <1>0, AddedToDb DEF Db
    <3>2. CASE ~conf
      <4>1. blocks' = blocks /\ mapped' = mapped
        BY <2>1, <3>2
      <4>2. \A x \in Tx : txs'[x] \in Block <=> txs[x] \in Block
        BY <2>9, <2>10, <3>2, TxDBAssumption
      <4>3. \A x \in Tx : txs[x] \in Block => txs'[x] = txs[x]
        BY <2>9, TxDBAssumption
      <4>4. \A h \in Heights : \A i \in 1..Len(blocks[h]) : blocks[h][i] \in Tx
        BY <1>0 DEF TxDBTypeOK
      <4>5. BlocksInv'
        BY <4>1, <4>2, <4>3, <4>4 DEF Db, BlocksInv, Mined
      <4>6. RecordInv'
        BY <4>1, <4>2, <4>3 DEF Db, RecordInv, Mined
      <4> QED
        BY <4>1, <4>5, <4>6, <1>0 DEF TxDBTypeOK
    <3> QED
      BY <3>1, <3>2
  <2>13. TxDBTypeOK'
    BY <2>3, <2>4, <2>5, <2>6, <2>7, <2>8, <2>12 DEF TxDBTypeOK
  <2> QED
    BY <2>9, <2>11, <2>12, <2>13 DEF Db
<1> QED
  BY <1>1, <1>2

LEMMA ConfirmDb ==
  ASSUME Db, NEW t \in Tx, NEW b \in Block, txs[t] = Pending, Confirm(t, b)
  PROVE  Db' /\ txs'[t] = b /\ \A x \in Tx \ {t} : txs'[x] = txs[x]
<1> DEFINE known == Undone(t) \cup Newly(t)
           fresh == Ours(t) \ credits
<1>0. TxDBTypeOK
  BY DEF Db
<1>s. /\ Ours(t) \subseteq Coin /\ Ours(t) \subseteq Mine /\ Mine \subseteq Coin
      /\ Inputs[t] \subseteq Coin /\ Undone(t) \subseteq Inputs[t] /\ Undone(t) \subseteq Mine
      /\ credits \subseteq Coin /\ Newly(t) \subseteq Inputs[t] \cap credits
  BY <1>0, CoinSets
<1>1. /\ txs' = [txs EXCEPT ![t] = b]
      /\ credits' = (credits \ known) \cup Ours(t)
      /\ flagged' = flagged \ known
      /\ mined' = (mined \ known) \cup Ours(t)
      /\ undo' = undo \cup Undos(t, Newly(t))
      /\ undoMined' = undoMined \cup Undos(t, Newly(t))
                        \cup SpentCoins(Ours(t) \cap flagged)
      /\ spent' = [c \in Coin |->
                     IF c \in Newly(t) THEN t
                     ELSE IF c \in Inputs[t] \ known THEN NoTx ELSE spent[c]]
      /\ watch' = (watch \ Inputs[t]) \cup Ours(t)
      /\ AddedTo(b, t)
      /\ Balanced(0, fresh, Newly(t), Ours(t), known)
  BY DEF Confirm
<1>2. txs'[t] = b /\ \A x \in Tx \ {t} : txs'[x] = txs[x]
  BY <1>1, <1>0 DEF TxDBTypeOK
<1>3. txs' \in [Tx -> {Absent, Pending} \cup Block]
  BY <1>1, <1>0 DEF TxDBTypeOK
<1>4. flagged' \subseteq credits' /\ mined' \subseteq credits' /\ credits' \subseteq Mine
  BY <1>1, <1>0, <1>s DEF TxDBTypeOK
<1>5. undoMined' \subseteq undo' /\ undo' \subseteq Tx \X Mine
  <2>1. Undos(t, Newly(t)) \subseteq Tx \X Mine
    BY <1>0, <1>s DEF Undos, TxDBTypeOK
  <2>2. SpentCoins(Ours(t) \cap flagged) \subseteq undo
    BY DEF SpentCoins
  <2> QED
    BY <1>1, <1>0, <2>1, <2>2 DEF TxDBTypeOK
<1>6. spent' \in [Coin -> Tx \cup {NoTx}]
  BY <1>1, <1>0 DEF TxDBTypeOK
<1>7. watch' \subseteq Coin
  BY <1>1, <1>0, <1>s DEF TxDBTypeOK
<1>8. balance' \in [tx : Int, coin : Int, unconfirmed : Int, confirmed : Int]
  <2>1. /\ fresh \in SUBSET Coin /\ Newly(t) \in SUBSET Coin /\ Ours(t) \in SUBSET Coin
        /\ known \in SUBSET Coin
    BY <1>s
  <2> HIDE DEF fresh, known
  <2> QED
    BY <1>0, <1>1, <2>1, BalancedType
<1>9. SpentInv'
  <2> SUFFICES ASSUME NEW c \in Coin, spent'[c] # NoTx
               PROVE  /\ txs'[spent'[c]] # Absent /\ c \in Inputs[spent'[c]]
                      /\ txs'[spent'[c]] = Pending \/ <<spent'[c], c>> \in undo'
    BY DEF SpentInv, Exists, IsPending
  <2>0. b # Absent
    BY TxDBAssumption
  <2>1. CASE c \in Newly(t)
    <3>1. spent'[c] = t /\ <<t, c>> \in undo' /\ c \in Inputs[t]
      BY <1>1, <1>s, <2>1 DEF Undos
    <3> QED
      BY <3>1, <1>2, <2>0
  <2>2. CASE c \notin Newly(t)
    <3>1. spent'[c] = spent[c] /\ ~(c \in Inputs[t] \ known)
      BY <1>1, <2>2
    <3>2. /\ txs[spent[c]] # Absent /\ c \in Inputs[spent[c]]
          /\ txs[spent[c]] = Pending \/ <<spent[c], c>> \in undo
      BY <3>1 DEF Db, SpentInv, Exists, IsPending
    <3>3. spent[c] \in Tx
      BY <3>1, <1>0 DEF TxDBTypeOK
    <3>4. CASE spent[c] = t
      <4>1. c \in Undone(t)
        BY <3>1, <3>2, <3>4, <2>2
      <4>2. <<t, c>> \in undo
        BY <4>1 DEF Undone
      <4> QED
        BY <3>1, <3>2, <3>4, <4>2, <1>1, <1>2, <2>0
    <3>5. CASE spent[c] # t
      BY <3>1, <3>2, <3>3, <3>5, <1>1, <1>2
    <3> QED
      BY <3>4, <3>5
  <2> QED
    BY <2>1, <2>2
<1>10. blocks' \in [Heights -> Seq(Tx)] /\ mapped' \subseteq Heights /\ BlocksInv' /\ RecordInv'
  <2>1. ~Mined(t)
    BY <1>0, States, TxDBAssumption DEF Mined
  <2> QED
    BY <1>0, <1>1, <2>1, AddedToDb DEF Db
<1>11. TxDBTypeOK'
  BY <1>3, <1>4, <1>5, <1>6, <1>7, <1>8, <1>10 DEF TxDBTypeOK
<1> QED
  BY <1>2, <1>9, <1>10, <1>11 DEF Db

LEMMA EraseDb ==
  ASSUME Db, NEW t \in Tx, txs[t] # Absent, Erase(t)
  PROVE  Db' /\ txs'[t] = Absent /\ \A x \in Tx \ {t} : txs'[x] = txs[x]
<1> DEFINE known == Undone(t)
           foreign == Inputs[t] \ known
           conf == txs[t] # Pending
           h == Height[txs[t]]
<1>0. TxDBTypeOK
  BY DEF Db
<1>s. /\ Ours(t) \subseteq Coin /\ Ours(t) \subseteq Mine /\ Mine \subseteq Coin
      /\ Inputs[t] \subseteq Coin /\ Undone(t) \subseteq Inputs[t] /\ Undone(t) \subseteq Mine
      /\ credits \subseteq Coin
  BY <1>0, CoinSets
<1>1. /\ txs' = [txs EXCEPT ![t] = Absent]
      /\ credits' = (credits \cup known) \ Ours(t)
      /\ flagged' = flagged \ (known \cup Ours(t))
      /\ mined' = ((mined \ known) \cup {c \in known : <<t, c>> \in undoMined}) \ Ours(t)
      /\ undo' = undo \ Undos(t, known)
      /\ undoMined' = undoMined \ Undos(t, known)
      /\ spent' = [c \in Coin |->
                     IF c \in known \/ (~conf /\ c \in foreign) THEN NoTx ELSE spent[c]]
      /\ watch' = ((watch \ IF conf THEN {} ELSE foreign) \cup known) \ Ours(t)
      /\ IF conf THEN /\ blocks' = [blocks EXCEPT ![h] = RemoveFirst(@, t)]
                      /\ mapped' = mapped \ {h}
         ELSE UNCHANGED <<blocks, mapped>>
      /\ Balanced(-1, known, Ours(t), IF conf THEN known ELSE {},
                  IF conf THEN Ours(t) ELSE {})
  BY DEF Erase
<1>2. txs'[t] = Absent /\ \A x \in Tx \ {t} : txs'[x] = txs[x]
  BY <1>1, <1>0 DEF TxDBTypeOK
<1>3. txs' \in [Tx -> {Absent, Pending} \cup Block]
  BY <1>1, <1>0 DEF TxDBTypeOK
<1>4. flagged' \subseteq credits' /\ mined' \subseteq credits' /\ credits' \subseteq Mine
  BY <1>1, <1>0, <1>s DEF TxDBTypeOK
<1>5. undoMined' \subseteq undo' /\ undo' \subseteq Tx \X Mine
  BY <1>1, <1>0 DEF TxDBTypeOK
<1>6. spent' \in [Coin -> Tx \cup {NoTx}]
  BY <1>1, <1>0 DEF TxDBTypeOK
<1>7. watch' \subseteq Coin
  BY <1>1, <1>0, <1>s DEF TxDBTypeOK
<1>8. balance' \in [tx : Int, coin : Int, unconfirmed : Int, confirmed : Int]
  <2> DEFINE confIn == IF conf THEN known ELSE {}
             confOut == IF conf THEN Ours(t) ELSE {}
  <2>1. /\ known \in SUBSET Coin /\ Ours(t) \in SUBSET Coin
        /\ confIn \in SUBSET Coin /\ confOut \in SUBSET Coin /\ -1 \in Int
    BY <1>s
  <2>2. Balanced(-1, known, Ours(t), confIn, confOut)
    BY <1>1
  <2> HIDE DEF known, conf, confIn, confOut
  <2> QED
    BY <1>0, <2>1, <2>2, BalancedType
<1>9. SpentInv'
  <2> SUFFICES ASSUME NEW c \in Coin, spent'[c] # NoTx
               PROVE  /\ txs'[spent'[c]] # Absent /\ c \in Inputs[spent'[c]]
                      /\ txs'[spent'[c]] = Pending \/ <<spent'[c], c>> \in undo'
    BY DEF SpentInv, Exists, IsPending
  <2>1. spent'[c] = spent[c] /\ ~(c \in known \/ (~conf /\ c \in foreign))
    BY <1>1
  <2>2. /\ txs[spent[c]] # Absent /\ c \in Inputs[spent[c]]
        /\ txs[spent[c]] = Pending \/ <<spent[c], c>> \in undo
    BY <2>1 DEF Db, SpentInv, Exists, IsPending
  <2>3. spent[c] \in Tx
    BY <2>1, <1>0 DEF TxDBTypeOK
  <2>4. spent[c] # t
    BY <2>1, <2>2 DEF Undone
  <2>5. <<spent[c], c>> \notin Undos(t, known)
    BY <2>4 DEF Undos
  <2> QED
    BY <2>1, <2>2, <2>3, <2>4, <2>5, <1>1, <1>2
<1>10. blocks' \in [Heights -> Seq(Tx)] /\ mapped' \subseteq Heights /\ BlocksInv' /\ RecordInv'
  <2>1. CASE conf
    <3>1. Mined(t) /\ h \in Heights
      BY <1>0, <2>1, HeightIn DEF Mined, TxDBTypeOK
    <3> DEFINE r == blocks[h]
    <3>2. r \in Seq(Tx)
      BY <3>1, <1>0 DEF TxDBTypeOK
    <3>3. PICK n \in 1..Len(r) : r[n] = t
      BY <3>1 DEF Db, RecordInv
    <3>4. PICK k \in 1..Len(r) :
            /\ r[k] = t
            /\ RemoveFirst(r, t) \in Seq(Tx) /\ Len(RemoveFirst(r, t)) = Len(r) - 1
            /\ \A i \in 1..(Len(r) - 1) :
                 RemoveFirst(r, t)[i] = IF i < k THEN r[i] ELSE r[i + 1]
      <4> HIDE DEF r, h
      <4> QED
        BY <3>2, <3>3, Removed
    <3>5. Without(RemoveFirst(r, t), r, k)
      BY <3>4 DEF Without
    <3>6. blocks' = [blocks EXCEPT ![h] = RemoveFirst(r, t)] /\ mapped' = mapped \ {h}
      BY <1>1, <2>1
    <3>7. blocks' \in [Heights -> Seq(Tx)] /\ BlocksInv' /\ RecordInv'
      <4> DEFINE s == RemoveFirst(r, t)
      <4>1. s \in Seq(Tx) /\ Without(s, r, k) /\ blocks' = [blocks EXCEPT ![h] = s]
        BY <3>4, <3>5, <3>6
      <4>2. Absent \notin Block
        BY TxDBAssumption
      <4> HIDE DEF s
      <4> QED
        BY <1>0, <1>1, <3>1, <3>4, <4>1, <4>2, TakenDb DEF Db
    <3> QED
      BY <1>0, <3>6, <3>7 DEF TxDBTypeOK
  <2>2. CASE ~conf
    <3>1. blocks' = blocks /\ mapped' = mapped
      BY <1>1, <2>2
    <3>2. \A x \in Tx : txs'[x] \in Block <=> txs[x] \in Block
      BY <1>2, <2>2, TxDBAssumption
    <3>3. \A x \in Tx : txs[x] \in Block => txs'[x] = txs[x]
      BY <1>2, <2>2, TxDBAssumption
    <3>4. \A n \in Heights : \A i \in 1..Len(blocks[n]) : blocks[n][i] \in Tx
      BY <1>0 DEF TxDBTypeOK
    <3>5. BlocksInv'
      BY <3>1, <3>2, <3>3, <3>4 DEF Db, BlocksInv, Mined
    <3>6. RecordInv'
      BY <3>1, <3>2, <3>3 DEF Db, RecordInv, Mined
    <3> QED
      BY <3>1, <3>5, <3>6, <1>0 DEF TxDBTypeOK
  <2> QED
    BY <2>1, <2>2
<1>11. TxDBTypeOK'
  BY <1>3, <1>4, <1>5, <1>6, <1>7, <1>8, <1>10 DEF TxDBTypeOK
<1> QED
  BY <1>2, <1>9, <1>10, <1>11 DEF Db

LEMMA DisconnectDb ==
  ASSUME Db, NEW t \in Tx, Mined(t), DisconnectHolds(t), Disconnect(t)
  PROVE  /\ Db' /\ txs'[t] = Pending /\ \A x \in Tx \ {t} : txs'[x] = txs[x]
         /\ blocks' = [blocks EXCEPT ![Height[txs[t]]] = Front(@)]
<1> DEFINE known == Undone(t)
           h == Height[txs[t]]
           made == Ours(t) \cap credits
<1>0. TxDBTypeOK
  BY DEF Db
<1>s. /\ Ours(t) \subseteq Coin /\ Ours(t) \subseteq Mine /\ Mine \subseteq Coin
      /\ Inputs[t] \subseteq Coin /\ Undone(t) \subseteq Inputs[t] /\ Undone(t) \subseteq Mine
      /\ credits \subseteq Coin
  BY <1>0, CoinSets
<1>1. /\ txs' = [txs EXCEPT ![t] = Pending]
      /\ credits' = credits \cup known
      /\ flagged' = flagged \cup known
      /\ mined' = (mined \cup known) \ made
      /\ undo' = undo
      /\ undoMined' = undoMined \cup SpentCoins((Ours(t) \ credits) \cup (made \cap flagged))
      /\ spent' = [c \in Coin |-> IF c \in Inputs[t] \ known THEN t ELSE spent[c]]
      /\ watch' = watch \cup Inputs[t] \cup made
      /\ blocks' = [blocks EXCEPT ![h] = IF @ = <<>> THEN @ ELSE Front(@)]
      /\ mapped' = mapped \ {h}
      /\ Balanced(0, {}, {}, known, made)
  BY DEF Disconnect
<1>2. txs'[t] = Pending /\ \A x \in Tx \ {t} : txs'[x] = txs[x]
  BY <1>1, <1>0 DEF TxDBTypeOK
<1>3. txs' \in [Tx -> {Absent, Pending} \cup Block]
  BY <1>1, <1>0 DEF TxDBTypeOK
<1>4. flagged' \subseteq credits' /\ mined' \subseteq credits' /\ credits' \subseteq Mine
  BY <1>1, <1>0, <1>s DEF TxDBTypeOK
<1>5. undoMined' \subseteq undo' /\ undo' \subseteq Tx \X Mine
  BY <1>1, <1>0 DEF TxDBTypeOK, SpentCoins
<1>6. spent' \in [Coin -> Tx \cup {NoTx}]
  BY <1>1, <1>0 DEF TxDBTypeOK
<1>7. watch' \subseteq Coin
  BY <1>1, <1>0, <1>s DEF TxDBTypeOK
<1>8. balance' \in [tx : Int, coin : Int, unconfirmed : Int, confirmed : Int]
  <2>1. known \in SUBSET Coin /\ made \in SUBSET Coin /\ {} \in SUBSET Coin
    BY <1>s
  <2> HIDE DEF known, made
  <2> QED
    BY <1>0, <1>1, <2>1, BalancedType
<1>9. SpentInv'
  <2> SUFFICES ASSUME NEW c \in Coin, spent'[c] # NoTx
               PROVE  /\ txs'[spent'[c]] # Absent /\ c \in Inputs[spent'[c]]
                      /\ txs'[spent'[c]] = Pending \/ <<spent'[c], c>> \in undo'
    BY DEF SpentInv, Exists, IsPending
  <2>0. Pending # Absent
    BY TxDBAssumption
  <2>1. CASE c \in Inputs[t] \ known
    <3>1. spent'[c] = t
      BY <1>1, <2>1
    <3> QED
      BY <3>1, <1>2, <2>0, <2>1
  <2>2. CASE c \notin Inputs[t] \ known
    <3>1. spent'[c] = spent[c]
      BY <1>1, <2>2
    <3>2. /\ txs[spent[c]] # Absent /\ c \in Inputs[spent[c]]
          /\ txs[spent[c]] = Pending \/ <<spent[c], c>> \in undo
      BY <3>1 DEF Db, SpentInv, Exists, IsPending
    <3>3. spent[c] \in Tx
      BY <3>1, <1>0 DEF TxDBTypeOK
    <3> QED
      BY <3>1, <3>2, <3>3, <1>1, <1>2, <2>0
  <2> QED
    BY <2>1, <2>2
<1>10. /\ blocks' \in [Heights -> Seq(Tx)] /\ mapped' \subseteq Heights /\ BlocksInv' /\ RecordInv'
       /\ blocks' = [blocks EXCEPT ![h] = Front(@)]
  <2>1. h \in Heights
    BY HeightIn DEF Mined
  <2> DEFINE r == blocks[h]
  <2>2. r \in Seq(Tx)
    BY <2>1, <1>0 DEF TxDBTypeOK
  <2>3. PICK n \in 1..Len(r) : r[n] = t
    BY DEF Db, RecordInv
  <2>4. r # <<>>
    <3> HIDE DEF r
    <3> QED
      BY <2>2, <2>3
  <2>5. /\ Front(r) \in Seq(Tx) /\ Len(Front(r)) = Len(r) - 1 /\ Len(r) \in Nat \ {0}
        /\ \A i \in 1..(Len(r) - 1) : Front(r)[i] = r[i]
        /\ Last(r) = r[Len(r)]
    <3> HIDE DEF r
    <3> QED
      BY <2>2, <2>4, Fronts
  <2>6. r[Len(r)] = t
    BY <2>4, <2>5 DEF DisconnectHolds
  <2> DEFINE s == Front(r)
             k == Len(r)
  <2>7. k \in 1..Len(r) /\ s \in Seq(Tx) /\ Without(s, r, k) /\ r[k] = t
    BY <2>5, <2>6 DEF Without
  <2>8. blocks' = [blocks EXCEPT ![h] = s]
    BY <1>1, <2>4
  <2>9. Pending \notin Block
    BY TxDBAssumption
  <2>10. blocks' \in [Heights -> Seq(Tx)] /\ BlocksInv' /\ RecordInv'
    <3> HIDE DEF s, k
    <3> QED
      BY <1>0, <1>1, <2>7, <2>8, <2>9, TakenDb DEF Db
  <2> QED
    BY <1>0, <1>1, <2>8, <2>10 DEF TxDBTypeOK
<1>11. TxDBTypeOK'
  BY <1>3, <1>4, <1>5, <1>6, <1>7, <1>8, <1>10 DEF TxDBTypeOK
<1> QED
  BY <1>2, <1>9, <1>10, <1>11 DEF Db

----------------------------------------------------------------------------
\* The order in which transactions are erased.

LEMMA DoomedIs ==
  ASSUME TxDBTypeOK, NEW roots \in SUBSET Tx
  PROVE  /\ roots \subseteq Doomed(roots) /\ Doomed(roots) \in SUBSET Tx
         /\ Spenders(Doomed(roots)) \subseteq Doomed(roots)
         /\ \A S \in SUBSET Tx : roots \subseteq S /\ Spenders(S) \subseteq S => Doomed(roots) \subseteq S
<1> DEFINE Closed(S) == roots \subseteq S /\ Spenders(S) \subseteq S
<1>1. Doomed(roots) = {x \in Tx : \A S \in SUBSET Tx : Closed(S) => x \in S}
  BY DEF Doomed
<1>2. roots \subseteq Doomed(roots) /\ Doomed(roots) \in SUBSET Tx
  BY <1>1
<1>3. \A S \in SUBSET Tx : Closed(S) => Doomed(roots) \subseteq S
  BY <1>1
<1>4. Spenders(Doomed(roots)) \subseteq Doomed(roots)
  <2> SUFFICES ASSUME NEW x \in Spenders(Doomed(roots)) PROVE x \in Doomed(roots)
    OBVIOUS
  <2>0. PICK c \in UNION {Outputs(u) : u \in Doomed(roots)} : x = spent[c] /\ x # NoTx
    BY DEF Spenders
  <2>1. PICK t \in Doomed(roots) : c \in Outputs(t)
    OBVIOUS
  <2>2. c \in Coin
    BY <2>1 DEF Outputs
  <2>3. x \in Tx
    BY <2>0, <2>2 DEF TxDBTypeOK
  <2>4. ASSUME NEW S \in SUBSET Tx, Closed(S) PROVE x \in S
    <3>1. t \in S
      BY <1>3, <2>4
    <3>2. x \in Spenders(S)
      BY <2>0, <2>1, <3>1 DEF Spenders
    <3> QED
      BY <2>4, <3>2
  <2> HIDE DEF Closed
  <2> QED
    BY <1>1, <2>3, <2>4
<1> QED
  BY <1>2, <1>3, <1>4

\* f lists D, each transaction before those it spends from.
Lists(f, D) ==
  /\ f \in SetToSeqs(D)
  /\ \A i, j \in 1..Len(f) : f[j] \in Parents(f[i]) => i < j

LEMMA Orders == \A D \in SUBSET Tx : \E f : Lists(f, D)
<1> DEFINE Bad == {D \in SUBSET Tx : ~\E f : Lists(f, D)}
           sizes == {Cardinality(D) : D \in Bad}
<1> SUFFICES ASSUME Bad # {} PROVE FALSE
  OBVIOUS
<1>1. sizes \in SUBSET Nat /\ sizes # {}
  BY TxFinite
<1>2. PICK n \in sizes : \A k \in sizes : n <= k
  <2> HIDE DEF sizes
  <2> QED
    BY <1>1, Least
<1>3. PICK D \in Bad : Cardinality(D) = n
  OBVIOUS
<1>4. D \in SUBSET Tx /\ n \in Nat /\ IsFiniteSet(D)
  BY <1>1, <1>3, TxFinite
<1>5. D # {}
  <2> SUFFICES ASSUME D = {} PROVE FALSE
    OBVIOUS
  <2>1. Cardinality(D) = 0
    BY FS_EmptySet
  <2>2. <<>> \in SetToSeqs(D)
    BY <2>1 DEF SetToSeqs
  <2>3. Lists(<<>>, D)
    BY <2>2 DEF Lists
  <2> QED
    BY <1>3, <2>3
<1>6. PICK t \in D : Parents(t) \cap D = {}
  BY <1>4, <1>5, TxAssumption
<1> DEFINE R == D \ {t}
<1>7. R \in SUBSET Tx /\ Cardinality(R) = n - 1
  BY <1>3, <1>4, TxFinite
<1>8. R \notin Bad
  <2>1. R \in Bad => n - 1 \in sizes
    BY <1>7
  <2> QED
    BY <1>2, <1>4, <2>1
<1>9. PICK g : Lists(g, R)
  BY <1>7, <1>8
<1>10. n - 1 \in Nat
  BY <1>7, TxFinite
<1>11. /\ g \in [1..(n - 1) -> R]
       /\ \A i, j \in 1..(n - 1) : i # j => g[i] # g[j]
       /\ \A i, j \in 1..Len(g) : g[j] \in Parents(g[i]) => i < j
  BY <1>7, <1>9 DEF Lists, SetToSeqs
<1>12. Len(g) = n - 1 /\ g \in Seq(R)
  BY <1>10, <1>11
<1> DEFINE f == [i \in 1..n |-> IF i = n THEN t ELSE g[i]]
<1>13. \A i \in 1..n : i # n => i \in 1..(n - 1)
  BY <1>4
<1>14. f \in [1..n -> D]
  BY <1>11, <1>13
<1>15. \A i, j \in 1..n : i # j => f[i] # f[j]
  BY <1>11, <1>13
<1>16. Len(f) = n
  BY <1>4, <1>14
<1>17. \A i, j \in 1..n : f[j] \in Parents(f[i]) => i < j
  <2> TAKE i \in 1..n, j \in 1..n
  <2> HAVE f[j] \in Parents(f[i])
  <2>1. i # n
    BY <1>6, <1>14
  <2>2. CASE j = n
    BY <2>1, <2>2, <1>4
  <2>3. CASE j # n
    BY <1>11, <1>12, <1>13, <2>1, <2>3
  <2> QED
    BY <2>2, <2>3
<1> HIDE DEF f
<1>18. Lists(f, D)
  BY <1>3, <1>14, <1>15, <1>16, <1>17 DEF Lists, SetToSeqs
<1> QED
  BY <1>3, <1>18

LEMMA ErasuresIs ==
  ASSUME TxDBTypeOK, NEW roots \in SUBSET Tx
  PROVE  LET s == Erasures(roots)
             D == Doomed(roots)
         IN /\ s \in Seq(Tx)
            /\ \A i \in 1..Len(s) : s[i] \in D
            /\ \A x \in D : \E i \in 1..Len(s) : s[i] = x
            /\ \A i, j \in 1..Len(s) : s[i] = s[j] => i = j
            /\ \A i, j \in 1..Len(s) : s[j] \in Parents(s[i]) => i < j
<1> DEFINE s == Erasures(roots)
           D == Doomed(roots)
           n == Cardinality(D)
<1>1. D \in SUBSET Tx /\ IsFiniteSet(D) /\ n \in Nat
  BY DoomedIs, TxFinite
<1>2. \E f \in SetToSeqs(D) : \A i, j \in 1..Len(f) : f[j] \in Parents(f[i]) => i < j
  <2> HIDE DEF D
  <2> QED
    BY <1>1, Orders DEF Lists
<1>3. s \in SetToSeqs(D) /\ \A i, j \in 1..Len(s) : s[j] \in Parents(s[i]) => i < j
  BY <1>2 DEF Erasures
<1>4. s \in [1..n -> D] /\ \A i, j \in 1..n : i # j => s[i] # s[j]
  BY <1>3 DEF SetToSeqs
<1> HIDE DEF s, D, n
<1>5. Len(s) = n /\ s \in Seq(Tx)
  BY <1>1, <1>4
<1>6. ASSUME NEW x \in D PROVE \E i \in 1..n : s[i] = x
  <2> SUFFICES ASSUME \A i \in 1..n : s[i] # x PROVE FALSE
    OBVIOUS
  <2> DEFINE T == D \ {x}
             N == 1..n
  <2>1. s \in [N -> T]
    BY <1>4
  <2>2. IsFiniteSet(N) /\ Cardinality(N) = n
    BY <1>1, FS_Interval
  <2>3. IsFiniteSet(T) /\ Cardinality(T) = n - 1
    BY <1>1, FS_RemoveElement DEF n
  <2>4. Cardinality(T) < Cardinality(N)
    BY <1>1, <2>2, <2>3
  <2>5. \E i, j \in N : i # j /\ s[i] = s[j]
    <3> HIDE DEF T, N
    <3> QED
      BY <2>1, <2>2, <2>3, <2>4, FS_PigeonHole
  <2> QED
    BY <2>5, <1>4
<1>7. /\ s \in Seq(Tx)
      /\ \A i \in 1..Len(s) : s[i] \in D
      /\ \A x \in D : \E i \in 1..Len(s) : s[i] = x
      /\ \A i, j \in 1..Len(s) : s[i] = s[j] => i = j
      /\ \A i, j \in 1..Len(s) : s[j] \in Parents(s[i]) => i < j
  BY <1>3, <1>4, <1>5, <1>6
<1> QED
  BY <1>7 DEF s, D

\* The first n batches of w erase transactions that are there, each once, after
\* those that spend from it.
Erases(w, n) ==
  \A i \in 1..n :
    /\ w[i][1] = "erase" /\ w[i][2] \in Tx /\ Exists(w[i][2])
    /\ \A j \in 1..n : w[i][2] = w[j][2] => i = j
    /\ \A c \in Outputs(w[i][2]) : spent[c] # NoTx => \E j \in 1..(i - 1) : w[j][2] = spent[c]

Batches == {"insert", "confirm", "erase", "disconnect"} \X Tx

LEMMA ErasingIs ==
  ASSUME Db, NEW roots \in SUBSET Tx, \A x \in roots : Exists(x)
  PROVE  LET w == Erasing(roots)
         IN /\ w \in Seq(Batches) /\ Erases(w, Len(w))
            /\ \A x \in roots : \E i \in 1..Len(w) : w[i][2] = x
            /\ \A S \in SUBSET Tx : roots \subseteq S /\ Spenders(S) \subseteq S =>
                 \A i \in 1..Len(w) : w[i][2] \in S
<1> DEFINE s == Erasures(roots)
           D == Doomed(roots)
           w == Erasing(roots)
<1>0. TxDBTypeOK
  BY DEF Db
<1>1. /\ s \in Seq(Tx)
      /\ \A i \in 1..Len(s) : s[i] \in D
      /\ \A x \in D : \E i \in 1..Len(s) : s[i] = x
      /\ \A i, j \in 1..Len(s) : s[i] = s[j] => i = j
      /\ \A i, j \in 1..Len(s) : s[j] \in Parents(s[i]) => i < j
  BY <1>0, ErasuresIs
<1>2. w = [i \in 1..Len(s) |-> <<"erase", s[i]>>]
  BY DEF Erasing
<1>3. /\ roots \subseteq D /\ D \in SUBSET Tx /\ Spenders(D) \subseteq D
      /\ \A S \in SUBSET Tx : roots \subseteq S /\ Spenders(S) \subseteq S => D \subseteq S
  BY <1>0, DoomedIs
<1>4. \A x \in D : Exists(x)
  <2> DEFINE there == {x \in Tx : Exists(x)}
  <2>1. Spenders(there) \subseteq there
    <3> SUFFICES ASSUME NEW t \in there, NEW c \in Outputs(t), spent[c] # NoTx
                 PROVE  spent[c] \in there
      BY DEF Spenders
    <3>1. c \in Coin
      BY DEF Outputs
    <3> QED
      BY <3>1 DEF Db, SpentInv, TxDBTypeOK
  <2> QED
    BY <1>3, <2>1
<1> HIDE DEF s, D
<1>5. Len(s) \in Nat /\ w \in Seq(Batches) /\ Len(w) = Len(s)
  <2>1. Len(s) \in Nat /\ \A i \in 1..Len(s) : <<"erase", s[i]>> \in Batches
    BY <1>1 DEF Batches
  <2> QED
    BY <2>1, <1>2
<1>6. \A i \in 1..Len(s) : w[i][1] = "erase" /\ w[i][2] = s[i] /\ s[i] \in D
  BY <1>1, <1>2
<1>7. ASSUME NEW i \in 1..Len(s), NEW c \in Outputs(s[i]), spent[c] # NoTx
      PROVE  \E j \in 1..(i - 1) : s[j] = spent[c]
  <2>1. c \in Coin /\ Maker[c] = s[i]
    BY DEF Outputs
  <2>2. spent[c] \in D
    BY <1>3, <1>6, <1>7 DEF Spenders
  <2>3. PICK j \in 1..Len(s) : s[j] = spent[c]
    BY <1>1, <2>2
  <2>4. c \in Inputs[spent[c]]
    BY <1>7, <2>1 DEF Db, SpentInv
  <2>5. s[i] \in Parents(s[j])
    BY <2>1, <2>3, <2>4 DEF Parents
  <2>6. j < i
    BY <1>1, <2>5
  <2> QED
    BY <1>5, <2>3, <2>6
<1>8. Erases(w, Len(w))
  <2> SUFFICES ASSUME NEW i \in 1..Len(s)
               PROVE  /\ w[i][1] = "erase" /\ w[i][2] \in Tx /\ Exists(w[i][2])
                      /\ \A j \in 1..Len(s) : w[i][2] = w[j][2] => i = j
                      /\ \A c \in Outputs(w[i][2]) : spent[c] # NoTx =>
                           \E j \in 1..(i - 1) : w[j][2] = spent[c]
    BY <1>5 DEF Erases
  <2>1. w[i][1] = "erase" /\ w[i][2] \in Tx /\ Exists(w[i][2])
    BY <1>3, <1>4, <1>6
  <2>2. \A j \in 1..Len(s) : w[i][2] = w[j][2] => i = j
    BY <1>1, <1>6
  <2>3. ASSUME NEW c \in Outputs(w[i][2]), spent[c] # NoTx
        PROVE  \E j \in 1..(i - 1) : w[j][2] = spent[c]
    <3>1. w[i][2] = s[i]
      BY <1>6
    <3>2. PICK j \in 1..(i - 1) : s[j] = spent[c]
      BY <1>7, <2>3, <3>1
    <3>3. j \in 1..Len(s)
      BY <1>5, <3>2
    <3> QED
      BY <1>6, <3>2, <3>3
  <2> QED
    BY <2>1, <2>2, <2>3
<1>9. \A x \in roots : \E i \in 1..Len(w) : w[i][2] = x
  BY <1>1, <1>3, <1>5, <1>6
<1>10. \A S \in SUBSET Tx : roots \subseteq S /\ Spenders(S) \subseteq S =>
         \A i \in 1..Len(w) : w[i][2] \in S
  BY <1>3, <1>5, <1>6
<1> QED
  BY <1>5, <1>8, <1>9, <1>10

----------------------------------------------------------------------------
\* The shape of the queue, of the job that runs and of its batches.

Kind == IF queue = <<>> THEN "none" ELSE Head(queue).kind
W == hashes[height]
Events == {"connect", "disconnect"}

Done == Len(BlockTxs[run.block]) - Len(run.rest)

HeightInv == \A h \in 0..height : Height[hashes[h]] = h

BoundInv == \E n \in Nat : \A h \in mapped \cup run.left : h <= n

WellAsked(r) ==
  /\ r \in Request
  /\ r.kind \in Events => r.of \in Block \ {Genesis}
  /\ r.kind = "reset" => r.of \in Block
  /\ r.kind = "tx" => r.of \in Tx

QueueInv ==
  /\ Outstanding => locker = "event"
  /\ \A i, j \in 1..Len(queue) : i < j =>
       /\ queue[j].kind # "sync"
       /\ queue[i].kind \in Events => queue[j].kind \in {"tx", "rescan"}
  /\ \A i \in 1..Len(queue) : WellAsked(queue[i])

InBlock ==
  /\ run.block \in Block /\ Height[run.block] \in {height, height + 1}
  /\ Len(run.rest) <= Len(BlockTxs[run.block])
  /\ \A i \in 1..Len(run.rest) : run.rest[i] = BlockTxs[run.block][Done + i]

AddingInv ==
  run.stage = "adding" =>
    /\ Kind \in {"tx", "connect", "rescan", "sync"}
    /\ Kind = "tx" => run.block = NoBlock /\ run.rest = <<>>
    /\ Kind # "tx" => InBlock
    /\ Kind = "connect" => run.block = Head(queue).of
    /\ Kind \in {"rescan", "sync"} => locker = "scan"

BackInv ==
  run.stage = "back" =>
    /\ Kind \in {"disconnect", "reset", "rescan", "sync"}
    /\ \E h \in 0..(height - 1) : run.block = hashes[h]
    /\ Kind = "disconnect" => /\ run.block = hashes[height - 1] /\ run.left \subseteq {height}
                              /\ Height[Head(queue).of] = height
    /\ Kind = "reset" => Height[run.block] = Height[Head(queue).of]
    /\ \A n \in run.left : n > Height[run.block]

StageInv ==
  /\ run.stage = "start" => run = NoJob
  /\ run.stage # "start" => queue # <<>>
  /\ run.stage # "back" => run.left = {}
  /\ AddingInv /\ BackInv
  /\ run.stage = "wait" => Kind \in {"connect", "rescan", "sync"}
  /\ run.stage = "scan" => Kind \in {"rescan", "sync"} /\ locker = "scan"
  /\ locker = "scan" => run.stage = "scan" \/ (run.stage = "adding" /\ Kind \in {"rescan", "sync"})

\* What the job adds now.
Current(t) ==
  IF run.block = NoBlock THEN t = Head(queue).of
  ELSE Done > 0 /\ t = BlockTxs[run.block][Done]

Inserts(w, t) ==
  /\ w # <<>> /\ Erases(w, Len(w) - 1) /\ w[Len(w)] = <<"insert", t>> /\ txs[t] = Absent
  /\ \A c \in Inputs[t] : spent[c] # NoTx => \E j \in 1..(Len(w) - 1) : w[j][2] = spent[c]

Confirms(w, t) == w = <<<<"confirm", t>>>> /\ IsPending(t)

Undoes(h) == work # <<>> /\ work = Undoing(h)

UndoWork ==
  /\ run.stage = "back"
  /\ \E h \in Heights : /\ Undoes(h) /\ h > Height[run.block] /\ \A n \in run.left : n < h
                        /\ Kind = "disconnect" => h = height

WorkInv ==
  \/ work = <<>>
  \/ Erases(work, Len(work))
  \/ /\ run.stage = "adding"
     /\ \E t \in Tx : /\ Current(t)
                      /\ Inserts(work, t) \/ (run.block # NoBlock /\ Confirms(work, t))
  \/ UndoWork

Inv1 ==
  /\ TypeOK /\ SpentInv /\ BlocksInv /\ RecordInv
  /\ HeightInv /\ BoundInv /\ QueueInv /\ StageInv /\ WorkInv

LEMMA Inv1Db == ASSUME Inv1 PROVE Db
BY DEF Inv1, TypeOK, Db

LEMMA Backwards ==
  ASSUME NEW b \in Seq(Tx)
  PROVE  LET u == [i \in 1..Len(b) |-> <<"disconnect", Reverse(b)[i]>>]
         IN /\ u \in Seq(Batches) /\ Len(u) = Len(b)
            /\ \A i \in 1..Len(b) : u[i] = <<"disconnect", b[Len(b) + 1 - i]>>
<1> DEFINE u == [i \in 1..Len(b) |-> <<"disconnect", Reverse(b)[i]>>]
<1>3. \A i \in 1..Len(b) : Reverse(b)[i] = b[Len(b) + 1 - i]
  BY DEF Reverse
<1>4. \A i \in 1..Len(b) : b[Len(b) + 1 - i] \in Tx
  OBVIOUS
<1>5. u = [i \in 1..Len(b) |-> <<"disconnect", b[Len(b) + 1 - i]>>]
  BY <1>3
<1>6. Len(b) \in Nat /\ \A i \in 1..Len(b) : <<"disconnect", b[Len(b) + 1 - i]>> \in Batches
  BY <1>4 DEF Batches
<1>7. u \in Seq(Batches) /\ Len(u) = Len(b)
  BY <1>5, <1>6
<1> QED
  BY <1>5, <1>7

LEMMA UndoingIs ==
  ASSUME TxDBTypeOK, NEW h \in Heights
  PROVE  /\ Undoing(h) \in Seq(Batches) /\ Len(Undoing(h)) = Len(blocks[h])
         /\ \A i \in 1..Len(blocks[h]) :
              Undoing(h)[i] = <<"disconnect", blocks[h][Len(blocks[h]) + 1 - i]>>
<1>1. blocks[h] \in Seq(Tx)
  BY DEF TxDBTypeOK
<1>2. Undoing(h) = [i \in 1..Len(blocks[h]) |-> <<"disconnect", Reverse(blocks[h])[i]>>]
  BY DEF Undoing
<1> QED
  BY <1>1, <1>2, Backwards

\* The batches of txdb.add.
LEMMA AddsIs ==
  ASSUME Db, NEW t \in Tx, NEW b \in Block \cup {NoBlock}
  PROVE  LET w == Adds(t, b)
         IN /\ w \in Seq(Batches)
            /\ \/ /\ w = <<>>
                  /\ \/ ~Concerns(t) \/ Mined(t) \/ (b = NoBlock /\ IsPending(t))
                     \/ b = NoBlock /\ \E x \in Conflicts(t) : Mined(x)
               \/ Confirms(w, t) /\ b # NoBlock
               \/ /\ Inserts(w, t) /\ Concerns(t)
                  /\ b = NoBlock => \A x \in Conflicts(t) : ~Mined(x)
                  /\ \A S \in SUBSET Tx : Conflicts(t) \subseteq S /\ Spenders(S) \subseteq S =>
                       \A i \in 1..(Len(w) - 1) : w[i][2] \in S
<1> DEFINE w == Adds(t, b)
<1>0. TxDBTypeOK
  BY DEF Db
<1>1. CASE ~Concerns(t)
  BY <1>1, EmptySeq DEF Adds
<1>2. CASE Concerns(t) /\ txs[t] # Absent
  <2>1. Mined(t) \/ IsPending(t)
    BY <1>0, <1>2, States DEF Exists
  <2>2. CASE IsPending(t) /\ b # NoBlock
    <3>1. w = <<<<"confirm", t>>>>
      BY <1>2, <2>2 DEF Adds, IsPending
    <3>2. w \in Seq(Batches)
      BY <3>1 DEF Batches
    <3> QED
      BY <3>1, <3>2, <2>2 DEF Confirms
  <2>3. CASE ~(IsPending(t) /\ b # NoBlock)
    <3>1. w = <<>>
      BY <1>2, <2>3 DEF Adds, IsPending
    <3>2. Mined(t) \/ (b = NoBlock /\ IsPending(t))
      BY <2>1, <2>3
    <3>3. <<>> \in Seq(Batches)
      BY EmptySeq
    <3> QED
      BY <3>1, <3>2, <3>3
  <2> QED
    BY <2>2, <2>3
<1>3. CASE Concerns(t) /\ txs[t] = Absent /\ b = NoBlock /\ \E x \in Conflicts(t) : txs[x] \in Block
  <2>1. w = <<>>
    BY <1>3 DEF Adds
  <2> QED
    BY <2>1, <1>3, EmptySeq DEF Mined
<1>4. CASE Concerns(t) /\ txs[t] = Absent /\ ~(b = NoBlock /\ \E x \in Conflicts(t) : txs[x] \in Block)
  <2> DEFINE e == Erasing(Conflicts(t))
  <2>1. w = e \o <<<<"insert", t>>>>
    BY <1>4 DEF Adds
  <2>2. Conflicts(t) \in SUBSET Tx /\ \A x \in Conflicts(t) : Exists(x)
    <3> SUFFICES ASSUME NEW c \in Inputs[t], spent[c] # NoTx
                 PROVE  spent[c] \in Tx /\ Exists(spent[c])
      BY DEF Conflicts
    <3>1. c \in Coin
      BY TxTypes
    <3> QED
      BY <3>1, <1>0 DEF TxDBTypeOK, Db, SpentInv
  <2>3. /\ e \in Seq(Batches) /\ Erases(e, Len(e))
        /\ \A x \in Conflicts(t) : \E i \in 1..Len(e) : e[i][2] = x
        /\ \A S \in SUBSET Tx : Conflicts(t) \subseteq S /\ Spenders(S) \subseteq S =>
             \A i \in 1..Len(e) : e[i][2] \in S
    BY <2>2, ErasingIs
  <2> HIDE DEF e
  <2> DEFINE g == <<"insert", t>>
  <2>4. g \in Batches
    BY DEF Batches
  <2>5. <<g>> \in Seq(Batches) /\ Len(<<g>>) = 1 /\ <<g>>[1] = g
    BY <2>4
  <2> HIDE DEF g
  <2>6. /\ w \in Seq(Batches) /\ Len(w) = Len(e) + 1 /\ Len(e) \in Nat
        /\ \A i \in 1..Len(e) + 1 : w[i] = IF i <= Len(e) THEN e[i] ELSE <<g>>[i - Len(e)]
    <3>1. w = e \o <<g>>
      BY <2>1 DEF g
    <3> HIDE DEF w
    <3> QED
      BY <3>1, <2>3, <2>5, ConcatProperties
  <2>7. \A i \in 1..Len(e) : w[i] = e[i]
    BY <2>6
  <2>8. w[Len(w)] = <<"insert", t>>
    BY <2>6, <2>5 DEF g
  <2>9. w # <<>> /\ Len(w) - 1 = Len(e)
    <3> HIDE DEF w
    <3> QED
      BY <2>6
  <2> HIDE DEF w
  <2>10. Erases(w, Len(w) - 1)
    <3> SUFFICES ASSUME NEW i \in 1..Len(e)
                 PROVE  /\ w[i][1] = "erase" /\ w[i][2] \in Tx /\ Exists(w[i][2])
                        /\ \A j \in 1..Len(e) : w[i][2] = w[j][2] => i = j
                        /\ \A c \in Outputs(w[i][2]) : spent[c] # NoTx =>
                             \E j \in 1..(i - 1) : w[j][2] = spent[c]
      BY <2>9 DEF Erases
    <3>1. \A j \in 1..(i - 1) : j \in 1..Len(e)
      BY <2>6
    <3> QED
      BY <2>3, <2>7, <3>1 DEF Erases
  <2>11. ASSUME NEW c \in Inputs[t], spent[c] # NoTx
         PROVE  \E j \in 1..(Len(w) - 1) : w[j][2] = spent[c]
    <3>1. c \in Coin
      BY TxTypes
    <3>2. spent[c] # t
      BY <1>4, <2>11, <3>1 DEF Db, SpentInv, Exists
    <3>3. spent[c] \in Conflicts(t)
      BY <2>11, <3>2 DEF Conflicts
    <3> QED
      BY <3>3, <2>3, <2>7, <2>9
  <2>12. Inserts(w, t)
    BY <1>4, <2>8, <2>9, <2>10, <2>11 DEF Inserts
  <2>13. \A S \in SUBSET Tx : Conflicts(t) \subseteq S /\ Spenders(S) \subseteq S =>
           \A i \in 1..(Len(w) - 1) : w[i][2] \in S
    BY <2>3, <2>7, <2>9
  <2>14. b = NoBlock => \A x \in Conflicts(t) : ~Mined(x)
    BY <1>4 DEF Mined
  <2> QED
    BY <1>4, <2>6, <2>12, <2>13, <2>14 DEF w
<1> QED
  BY <1>1, <1>2, <1>3, <1>4

----------------------------------------------------------------------------
\* The queue.

LEMMA QueueAppended ==
  ASSUME queue \in Seq(Request), QueueInv, NEW r, WellAsked(r), r.kind # "sync",
         Outstanding => r.kind \in {"tx", "rescan"},
         queue' = Append(queue, r),
         locker' = locker, r.kind \in Events => locker = "event"
  PROVE  /\ queue' \in Seq(Request) /\ QueueInv'
         /\ Len(queue') = Len(queue) + 1 /\ Len(queue) \in Nat
         /\ queue'[Len(queue) + 1] = r
         /\ \A i \in 1..Len(queue) : queue'[i] = queue[i]
         /\ queue # <<>> => Head(queue') = Head(queue) /\ Kind' = Kind
         /\ queue = <<>> => Kind' = r.kind
         /\ queue' # <<>>
         /\ Outstanding' <=> Outstanding \/ r.kind \in Events
<1>1. r \in Request
  BY DEF WellAsked
<1>2. /\ queue' \in Seq(Request) /\ Len(queue') = Len(queue) + 1 /\ Len(queue) \in Nat
      /\ queue'[Len(queue) + 1] = r
      /\ \A i \in 1..Len(queue) : queue'[i] = queue[i]
  BY <1>1, Appended
<1>3. queue' # <<>> /\ Head(queue') = queue'[1]
  BY <1>2
<1>4. queue # <<>> => Head(queue') = Head(queue)
  BY <1>2, <1>3
<1>5. queue = <<>> => Head(queue') = r
  BY <1>2, <1>3
<1>6. \A i \in 1..Len(queue') : i \in 1..Len(queue) \/ i = Len(queue) + 1
  BY <1>2
<1>7. Outstanding' <=> Outstanding \/ r.kind \in Events
  <2>1. Outstanding' <=> \E i \in 1..Len(queue') : queue'[i].kind \in Events
    BY DEF Outstanding, Events
  <2>2. Outstanding <=> \E i \in 1..Len(queue) : queue[i].kind \in Events
    BY DEF Outstanding, Events
  <2>3. Len(queue) + 1 \in 1..Len(queue') /\ \A i \in 1..Len(queue) : i \in 1..Len(queue')
    BY <1>2
  <2> QED
    BY <1>2, <1>6, <2>1, <2>2, <2>3
<1>8. \A i, j \in 1..Len(queue') : i < j =>
        /\ queue'[j].kind # "sync"
        /\ queue'[i].kind \in Events => queue'[j].kind \in {"tx", "rescan"}
  <2> TAKE i, j \in 1..Len(queue')
  <2> HAVE i < j
  <2>1. i \in 1..Len(queue) /\ queue'[i] = queue[i]
    BY <1>2
  <2>2. CASE j \in 1..Len(queue)
    BY <1>2, <2>1, <2>2 DEF QueueInv
  <2>3. CASE j = Len(queue) + 1
    <3>1. queue'[j] = r
      BY <1>2, <2>3
    <3>2. queue[i].kind \in Events => Outstanding
      BY <2>1 DEF Outstanding, Events
    <3> QED
      BY <2>1, <3>1, <3>2
  <2> QED
    BY <1>6, <2>2, <2>3
<1>9. \A i \in 1..Len(queue') : WellAsked(queue'[i])
  BY <1>2, <1>6 DEF QueueInv
<1>10. QueueInv'
  <2>1. Outstanding' => locker' = "event"
    BY <1>7 DEF QueueInv
  <2>2. \A i \in 1..Len(queue') : WellAsked(queue[i])'
    BY <1>9 DEF WellAsked
  <2> QED
    BY <2>1, <2>2, <1>8 DEF QueueInv, Events
<1> QED
  BY <1>2, <1>3, <1>4, <1>5, <1>7, <1>10 DEF Kind

LEMMA QueueShifted ==
  ASSUME queue \in Seq(Request), QueueInv, queue # <<>>, queue' = Tail(queue),
         Outstanding' => locker' = "event"
  PROVE  /\ queue' \in Seq(Request) /\ QueueInv'
         /\ Len(queue') = Len(queue) - 1 /\ Len(queue) \in Nat \ {0}
         /\ Head(queue) = queue[1]
         /\ \A i \in 1..(Len(queue) - 1) : queue'[i] = queue[i + 1]
<1>1. /\ Head(queue) = queue[1] /\ Len(queue) \in Nat \ {0}
      /\ queue' \in Seq(Request) /\ Len(queue') = Len(queue) - 1
      /\ \A i \in 1..(Len(queue) - 1) : queue'[i] = queue[i + 1]
  BY Tails
<1>2. \A i \in 1..Len(queue') : i + 1 \in 1..Len(queue) /\ queue'[i] = queue[i + 1]
  BY <1>1
<1>3. \A i \in 1..Len(queue') : WellAsked(queue[i])'
  <2>1. \A i \in 1..Len(queue') : WellAsked(queue'[i])
    BY <1>2 DEF QueueInv
  <2> QED
    BY <2>1 DEF WellAsked
<1>4. \A i, j \in 1..Len(queue') : i < j =>
        /\ queue'[j].kind # "sync"
        /\ queue'[i].kind \in Events => queue'[j].kind \in {"tx", "rescan"}
  <2> TAKE i, j \in 1..Len(queue')
  <2> HAVE i < j
  <2>1. i + 1 \in 1..Len(queue) /\ j + 1 \in 1..Len(queue) /\ i + 1 < j + 1
    BY <1>1
  <2> QED
    BY <1>2, <2>1 DEF QueueInv
<1> QED
  BY <1>1, <1>3, <1>4 DEF QueueInv, Events

\* A shorter queue has no events that were not there.
LEMMA NotOutstanding ==
  ASSUME queue \in Seq(Request), queue # <<>>, queue' = Tail(queue), Outstanding'
  PROVE  Outstanding
<1>1. PICK i \in 1..Len(queue') : queue'[i].kind \in {"connect", "disconnect"}
  BY DEF Outstanding
<1>2. Len(queue) \in Nat /\ Len(queue') = Len(queue) - 1 /\ \A n \in 1..(Len(queue) - 1) : queue'[n] = queue[n + 1]
  BY Tails
<1>3. i + 1 \in 1..Len(queue) /\ queue'[i] = queue[i + 1]
  BY <1>2
<1> QED
  BY <1>1, <1>3 DEF Outstanding

----------------------------------------------------------------------------
\* The batches are written one by one.

LEMMA WorkTail ==
  ASSUME Inv1, work # <<>>, work' = Tail(work)
  PROVE  /\ work' \in Seq(Batches) /\ Len(work) \in Nat \ {0} /\ Len(work') = Len(work) - 1
         /\ Head(work) = work[1] /\ Head(work) \in Batches
         /\ Head(work)[2] \in Tx /\ Head(work) = <<Head(work)[1], Head(work)[2]>>
         /\ \A i \in 1..(Len(work) - 1) : work'[i] = work[i + 1]
         /\ Len(work) = 1 => work' = <<>>
<1>1. work \in Seq(Batches)
  BY DEF Inv1, TypeOK, Batches
<1>2. /\ Head(work) \in Batches /\ Head(work) = work[1] /\ Len(work) \in Nat \ {0}
      /\ work' \in Seq(Batches) /\ Len(work') = Len(work) - 1
      /\ \A i \in 1..(Len(work) - 1) : work'[i] = work[i + 1]
  BY <1>1, Tails
<1>3. Len(work) = 1 => work' = <<>>
  BY <1>2, EmptySeq
<1>4. Head(work)[2] \in Tx /\ Head(work) = <<Head(work)[1], Head(work)[2]>>
  BY <1>2 DEF Batches
<1> QED
  BY <1>2, <1>3, <1>4

\* Which work the first batch belongs to.
LEMMA WorkHead ==
  ASSUME Inv1, work # <<>>
  PROVE  LET op == Head(work)[1]
             t == Head(work)[2]
         IN /\ t \in Tx
            /\ op = "insert" => /\ Len(work) = 1 /\ run.stage = "adding" /\ Current(t)
                                /\ Inserts(work, t) /\ txs[t] = Absent
                                /\ \A c \in Inputs[t] : spent[c] = NoTx
            /\ op = "confirm" => /\ Len(work) = 1 /\ run.stage = "adding" /\ Current(t)
                                 /\ run.block # NoBlock /\ IsPending(t)
            /\ op = "erase" => \/ Erases(work, Len(work))
                               \/ /\ run.stage = "adding" /\ Len(work) > 1
                                  /\ \E x \in Tx : Current(x) /\ Inserts(work, x)
            /\ op = "disconnect" => UndoWork
<1> DEFINE op == Head(work)[1]
           t == Head(work)[2]
<1>1. work \in Seq(Batches)
  BY DEF Inv1, TypeOK, Batches
<1>2. Head(work) \in Batches /\ Head(work) = work[1] /\ Len(work) \in Nat \ {0}
  BY <1>1, Tails
<1>3. t \in Tx /\ op = work[1][1] /\ t = work[1][2]
  BY <1>2 DEF Batches
<1> HIDE DEF op, t
<1>4. CASE Erases(work, Len(work))
  <2>1. op = "erase"
    BY <1>2, <1>3, <1>4 DEF Erases
  <2> QED
    BY <1>3, <1>4, <2>1 DEF op, t
<1>5. ASSUME run.stage = "adding", NEW x \in Tx, Current(x), Inserts(work, x)
      PROVE  /\ op = "insert" => /\ Len(work) = 1 /\ t = x /\ txs[t] = Absent
                                 /\ \A c \in Inputs[t] : spent[c] = NoTx
             /\ op = "erase" => Len(work) > 1
             /\ op \in {"insert", "erase"}
  <2>1. CASE Len(work) = 1
    <3>1. op = "insert" /\ t = x
      BY <1>3, <1>5, <2>1 DEF Inserts
    <3>2. \A c \in Inputs[t] : spent[c] = NoTx
      BY <1>5, <2>1, <3>1 DEF Inserts
    <3> QED
      BY <1>5, <2>1, <3>1, <3>2 DEF Inserts
  <2>2. CASE Len(work) # 1
    <3>1. 1 \in 1..(Len(work) - 1) /\ Len(work) > 1
      BY <1>2, <2>2
    <3>2. op = "erase"
      BY <1>3, <1>5, <3>1 DEF Inserts, Erases
    <3> QED
      BY <3>1, <3>2
  <2> QED
    BY <2>1, <2>2
<1>6. ASSUME run.stage = "adding", NEW x \in Tx, Current(x), Inserts(work, x)
      PROVE  /\ t \in Tx
             /\ op = "insert" => /\ Len(work) = 1 /\ run.stage = "adding" /\ Current(t)
                                 /\ Inserts(work, t) /\ txs[t] = Absent
                                 /\ \A c \in Inputs[t] : spent[c] = NoTx
             /\ op = "erase" => /\ run.stage = "adding" /\ Len(work) > 1
                                /\ \E y \in Tx : Current(y) /\ Inserts(work, y)
             /\ op \in {"insert", "erase"}
  BY <1>3, <1>5, <1>6
<1>7. ASSUME run.stage = "adding", NEW x \in Tx, Current(x), run.block # NoBlock, Confirms(work, x)
      PROVE  op = "confirm" /\ Len(work) = 1 /\ Current(t) /\ IsPending(t)
  <2>1. op = "confirm" /\ t = x /\ Len(work) = 1
    BY <1>3, <1>7 DEF Confirms
  <2> QED
    BY <2>1, <1>7 DEF Confirms
<1>8. ASSUME UndoWork
      PROVE  op = "disconnect"
  <2>1. PICK h \in Heights : Undoes(h)
    BY <1>8 DEF UndoWork
  <2>2. work = Undoing(h) /\ TxDBTypeOK
    BY <2>1 DEF Undoes, Inv1, TypeOK
  <2>3. Len(Undoing(h)) = Len(blocks[h]) /\ \A i \in 1..Len(blocks[h]) :
              Undoing(h)[i] = <<"disconnect", blocks[h][Len(blocks[h]) + 1 - i]>>
    BY <2>2, UndoingIs
  <2> QED
    BY <1>2, <1>3, <2>2, <2>3
<1>9. \/ Erases(work, Len(work))
      \/ /\ run.stage = "adding"
         /\ \E x \in Tx : Current(x) /\ (Inserts(work, x) \/ (run.block # NoBlock /\ Confirms(work, x)))
      \/ UndoWork
  BY DEF Inv1, WorkInv
<1>10. CASE \E x \in Tx : run.stage = "adding" /\ Current(x) /\ Inserts(work, x)
  BY <1>6, <1>10 DEF op, t
<1>11. CASE \E x \in Tx : run.stage = "adding" /\ Current(x) /\ run.block # NoBlock /\ Confirms(work, x)
  BY <1>3, <1>7, <1>11 DEF op, t
<1>12. CASE UndoWork
  BY <1>3, <1>8, <1>12 DEF op, t
<1> QED
  BY <1>4, <1>9, <1>10, <1>11, <1>12

\* A batch changes the records and the work only.
LEMMA WriteKeeps ==
  ASSUME Inv1, UNCHANGED <<Unwritten, run>>, torn' \in BOOLEAN,
         Db', mapped' \subseteq mapped \cup {n \in Nat : n <= height + 1},
         work' \in Seq(Batches), WorkInv'
  PROVE  Inv1'
<1>1. /\ height' = height /\ hashes' = hashes /\ tip' = tip /\ goal' = goal /\ locker' = locker
      /\ announced' = announced /\ queue' = queue /\ extras' = extras /\ cut' = cut /\ run' = run
  BY DEF Unwritten, sync, chain
<1>2. TypeOK'
  BY <1>1 DEF Inv1, TypeOK, Db, Batches
<1>3. HeightInv'
  BY <1>1 DEF Inv1, HeightInv
<1>4. BoundInv'
  <2>1. PICK n \in Nat : \A h \in mapped \cup run.left : h <= n
    BY DEF Inv1, BoundInv
  <2>2. height \in Nat
    BY HeightsNat DEF Inv1, TypeOK
  <2>3. \A h \in mapped \cup run.left : h \in Nat
    BY HeightsNat DEF Inv1, TypeOK, TxDBTypeOK
  <2> DEFINE m == n + height + 1
  <2>4. m \in Nat /\ n <= m /\ height + 1 <= m
    BY <2>2
  <2>5. \A h \in mapped' \cup run'.left : h <= m
    <3> TAKE h \in mapped' \cup run'.left
    <3>1. h \in mapped \cup run.left \/ (h \in Nat /\ h <= height + 1)
      BY <1>1
    <3> QED
      BY <2>1, <2>2, <2>3, <2>4, <3>1
  <2> QED
    BY <2>4, <2>5 DEF BoundInv
<1>5. QueueInv'
  BY <1>1 DEF Inv1, QueueInv, Outstanding, WellAsked
<1>6. StageInv'
  <2>1. AddingInv'
    BY <1>1 DEF Inv1, StageInv, AddingInv, InBlock, Done, Kind
  <2>2. BackInv'
    BY <1>1 DEF Inv1, StageInv, BackInv, Kind
  <2> QED
    BY <1>1, <2>1, <2>2 DEF Inv1, StageInv, Kind
<1> QED
  BY <1>2, <1>3, <1>4, <1>5, <1>6 DEF Inv1, Db

LEMMA InsertInv1 ==
  ASSUME Inv1, WriteInsert
  PROVE  /\ Inv1' /\ work' = <<>> /\ Head(work)[2] \in Tx /\ run.stage = "adding"
         /\ Current(Head(work)[2]) /\ txs[Head(work)[2]] = Absent /\ Inserts(work, Head(work)[2])
         /\ \A c \in Inputs[Head(work)[2]] : spent[c] = NoTx
         /\ run.block \in Block \cup {NoBlock}
         /\ run.block # NoBlock => run.block \in Block /\ Height[run.block] \in {height, height + 1}
<1> DEFINE t == Head(work)[2]
<1>1. work # <<>> /\ Head(work)[1] = "insert" /\ work' = Tail(work) /\ Insert(t, run.block)
  BY DEF WriteInsert, Batch
<1>2. /\ t \in Tx /\ Len(work) = 1 /\ run.stage = "adding" /\ Current(t)
      /\ Inserts(work, t) /\ txs[t] = Absent /\ \A c \in Inputs[t] : spent[c] = NoTx
  BY <1>1, WorkHead
<1>3. work' = <<>> /\ work' \in Seq(Batches)
  BY <1>1, <1>2, WorkTail
<1>4. run.block \in Block \cup {NoBlock}
  BY DEF Inv1, TypeOK
<1>5. Db'
  BY <1>1, <1>2, <1>4, Inv1Db, InsertDb
<1>6. run.block # NoBlock => run.block \in Block /\ Height[run.block] \in {height, height + 1}
  BY <1>2 DEF Inv1, StageInv, AddingInv, InBlock
<1>7. mapped' \subseteq mapped \cup {n \in Nat : n <= height + 1}
  <2>1. height \in Nat
    BY HeightsNat DEF Inv1, TypeOK
  <2>2. mapped' = mapped \/ (run.block # NoBlock /\ mapped' = mapped \cup {Height[run.block]})
    BY <1>1 DEF Insert, AddedTo, txdb
  <2> QED
    BY <1>6, <2>1, <2>2
<1>8. WorkInv'
  BY <1>3 DEF WorkInv
<1>9. UNCHANGED <<Unwritten, run>> /\ torn' \in BOOLEAN
  BY DEF WriteInsert, Inv1, TypeOK
<1>10. Inv1'
  BY <1>3, <1>5, <1>7, <1>8, <1>9, WriteKeeps
<1> QED
  BY <1>2, <1>3, <1>4, <1>6, <1>10

LEMMA ConfirmInv1 ==
  ASSUME Inv1, WriteConfirm
  PROVE  /\ Inv1' /\ work' = <<>> /\ Head(work)[2] \in Tx /\ run.stage = "adding"
         /\ Current(Head(work)[2]) /\ IsPending(Head(work)[2])
         /\ run.block \in Block /\ Height[run.block] \in {height, height + 1}
<1> DEFINE t == Head(work)[2]
<1>1. work # <<>> /\ Head(work)[1] = "confirm" /\ work' = Tail(work) /\ Confirm(t, run.block)
  BY DEF WriteConfirm, Batch
<1>2. /\ t \in Tx /\ Len(work) = 1 /\ run.stage = "adding" /\ Current(t)
      /\ run.block # NoBlock /\ IsPending(t)
  BY <1>1, WorkHead
<1>3. work' = <<>> /\ work' \in Seq(Batches)
  BY <1>1, <1>2, WorkTail
<1>4. run.block \in Block /\ Height[run.block] \in {height, height + 1}
  BY <1>2 DEF Inv1, StageInv, AddingInv, InBlock
<1>5. Db'
  BY <1>1, <1>2, <1>4, Inv1Db, ConfirmDb DEF IsPending
<1>7. mapped' \subseteq mapped \cup {n \in Nat : n <= height + 1}
  <2>1. height \in Nat
    BY HeightsNat DEF Inv1, TypeOK
  <2>2. mapped' = mapped \cup {Height[run.block]}
    BY <1>1 DEF Confirm, AddedTo
  <2> QED
    BY <1>4, <2>1, <2>2
<1>8. WorkInv'
  BY <1>3 DEF WorkInv
<1>9. UNCHANGED <<Unwritten, run>> /\ torn' \in BOOLEAN
  BY DEF WriteConfirm, Inv1, TypeOK
<1>10. Inv1'
  BY <1>3, <1>5, <1>7, <1>8, <1>9, WriteKeeps
<1> QED
  BY <1>2, <1>3, <1>4, <1>10

LEMMA EraseInv1 ==
  ASSUME Inv1, WriteErase
  PROVE  /\ Inv1' /\ Head(work)[2] \in Tx /\ Exists(Head(work)[2])
         /\ \A c \in Outputs(Head(work)[2]) : spent[c] = NoTx
         /\ work' # <<>> /\ run.stage = "adding" =>
              \A x \in Tx : Inserts(work, x) => Inserts(work, x)'
<1> DEFINE t == Head(work)[2]
<1>1. work # <<>> /\ Head(work)[1] = "erase" /\ work' = Tail(work) /\ Erase(t)
  BY DEF WriteErase, Batch
<1>2. /\ t \in Tx
      /\ \/ Erases(work, Len(work))
         \/ /\ run.stage = "adding" /\ Len(work) > 1
            /\ \E x \in Tx : Current(x) /\ Inserts(work, x)
  BY <1>1, WorkHead
<1>3. /\ work' \in Seq(Batches) /\ Len(work) \in Nat \ {0} /\ Len(work') = Len(work) - 1
      /\ t = work[1][2]
      /\ \A i \in 1..(Len(work) - 1) : work'[i] = work[i + 1]
  BY <1>1, WorkTail
<1>4. PICK m \in 1..Len(work) : Erases(work, m)
  <2>1. CASE Erases(work, Len(work))
    BY <1>3, <2>1
  <2>2. CASE Len(work) > 1 /\ \E x \in Tx : Inserts(work, x)
    <3>1. Len(work) - 1 \in 1..Len(work) /\ Erases(work, Len(work) - 1)
      BY <1>3, <2>2 DEF Inserts
    <3> QED
      BY <3>1
  <2> QED
    BY <1>2, <2>1, <2>2
<1>5. Exists(t) /\ \A c \in Outputs(t) : spent[c] = NoTx
  <2>1. 1 \in 1..m
    BY <1>3
  <2>2. /\ Exists(work[1][2])
        /\ \A c \in Outputs(work[1][2]) : spent[c] # NoTx => \E j \in 1..(1 - 1) : work[j][2] = spent[c]
    BY <1>4, <2>1 DEF Erases
  <2> QED
    BY <1>3, <2>2
<1>6. Db' /\ txs'[t] = Absent /\ \A x \in Tx \ {t} : txs'[x] = txs[x]
  BY <1>1, <1>2, <1>5, Inv1Db, EraseDb DEF Exists
<1>7. ASSUME NEW c \in Coin, spent'[c] # NoTx
      PROVE  spent'[c] = spent[c] /\ spent'[c] # t
  <2>1. spent'[c] = spent[c]
    BY <1>1, <1>7 DEF Erase
  <2>2. txs'[spent'[c]] # Absent
    BY <1>6, <1>7 DEF Db, SpentInv, Exists
  <2> QED
    BY <1>6, <2>1, <2>2
<1>8. ASSUME NEW n \in 1..Len(work), Erases(work, n)
      PROVE  Erases(work, n - 1)'
  <2> SUFFICES ASSUME NEW i \in 1..(n - 1)
               PROVE  /\ work'[i][1] = "erase" /\ work'[i][2] \in Tx /\ txs'[work'[i][2]] # Absent
                      /\ \A j \in 1..(n - 1) : work'[i][2] = work'[j][2] => i = j
                      /\ \A c \in Outputs(work'[i][2]) : spent'[c] # NoTx =>
                           \E j \in 1..(i - 1) : work'[j][2] = spent'[c]
    BY DEF Erases, Exists
  <2>1. \A j \in 1..(n - 1) : j + 1 \in 1..n /\ work'[j] = work[j + 1]
    BY <1>3
  <2>2. /\ i + 1 \in 1..n /\ work'[i] = work[i + 1]
        /\ work[i + 1][1] = "erase" /\ work[i + 1][2] \in Tx /\ Exists(work[i + 1][2])
        /\ \A j \in 1..n : work[i + 1][2] = work[j][2] => i + 1 = j
        /\ \A c \in Outputs(work[i + 1][2]) : spent[c] # NoTx =>
             \E j \in 1..((i + 1) - 1) : work[j][2] = spent[c]
    BY <1>8, <2>1 DEF Erases
  <2>3. 1 \in 1..n /\ i + 1 # 1
    BY <1>3
  <2>4. work[i + 1][2] # t
    BY <1>3, <2>2, <2>3
  <2>5. txs'[work'[i][2]] # Absent
    BY <1>6, <2>2, <2>4 DEF Exists
  <2>6. \A j \in 1..(n - 1) : work'[i][2] = work'[j][2] => i = j
    <3> TAKE j \in 1..(n - 1)
    <3> HAVE work'[i][2] = work'[j][2]
    <3>1. i + 1 = j + 1
      BY <2>1, <2>2
    <3> QED
      BY <3>1
  <2>7. ASSUME NEW c \in Outputs(work'[i][2]), spent'[c] # NoTx
        PROVE  \E j \in 1..(i - 1) : work'[j][2] = spent'[c]
    <3>1. c \in Coin
      BY DEF Outputs
    <3>2. spent'[c] = spent[c] /\ spent'[c] # t
      BY <1>7, <2>7, <3>1
    <3>3. PICK j \in 1..i : work[j][2] = spent[c]
      BY <2>2, <2>7, <3>2
    <3>4. j # 1
      BY <1>3, <3>2, <3>3
    <3>5. j - 1 \in 1..(i - 1) /\ j - 1 \in 1..(n - 1) /\ (j - 1) + 1 = j
      BY <3>4
    <3>6. work'[j - 1] = work[j]
      BY <2>1, <3>5
    <3> QED
      BY <3>2, <3>3, <3>5, <3>6
  <2> QED
    BY <2>2, <2>5, <2>6, <2>7
<1>9. ASSUME NEW x \in Tx, Inserts(work, x), work' # <<>>
      PROVE  Inserts(work, x)'
  <2>0. Len(work) > 1
    BY <1>3, <1>9, EmptySeq
  <2>1. PICK n \in 1..Len(work) : n = Len(work) - 1
    BY <1>3, <2>0
  <2>2. Erases(work, n)
    BY <1>9, <2>1 DEF Inserts
  <2>3. Erases(work, n - 1)'
    BY <1>8, <2>2
  <2>4. Len(work') = n /\ n \in Nat /\ n > 0 /\ work'[n] = work[n + 1] /\ n + 1 = Len(work)
    BY <1>3, <2>0, <2>1
  <2>5. (\A i \in 1..(n - 1) :
           /\ work[i][1] = "erase" /\ work[i][2] \in Tx /\ Exists(work[i][2])
           /\ \A j \in 1..(n - 1) : work[i][2] = work[j][2] => i = j
           /\ \A c \in Outputs(work[i][2]) : spent[c] # NoTx =>
                \E j \in 1..(i - 1) : work[j][2] = spent[c])'
    BY <2>3 DEF Erases
  <2>6. Erases(work, Len(work) - 1)'
    BY <2>4, <2>5 DEF Erases
  <2>7. work'[Len(work')] = <<"insert", x>>
    BY <2>4, <1>9 DEF Inserts
  <2>8. txs'[x] = Absent
    BY <1>6, <1>9 DEF Inserts
  <2>9. ASSUME NEW c \in Inputs[x], spent'[c] # NoTx
        PROVE  \E j \in 1..(Len(work') - 1) : work'[j][2] = spent'[c]
    <3>1. c \in Coin
      BY TxTypes
    <3>2. spent'[c] = spent[c] /\ spent'[c] # t
      BY <1>7, <2>9, <3>1
    <3>3. PICK j \in 1..n : work[j][2] = spent[c]
      BY <1>9, <2>9, <2>1, <3>2 DEF Inserts
    <3>4. j # 1
      BY <1>3, <3>2, <3>3
    <3>5. j - 1 \in 1..(n - 1) /\ (j - 1) + 1 = j /\ j - 1 \in 1..(Len(work) - 1)
      BY <2>1, <2>4, <3>4
    <3>6. work'[j - 1] = work[j]
      BY <1>3, <3>5
    <3> QED
      BY <2>4, <3>2, <3>3, <3>5, <3>6
  <2> QED
    BY <1>9, <2>6, <2>7, <2>8, <2>9 DEF Inserts
<1>10. WorkInv'
  <2>1. CASE work' = <<>>
    BY <2>1 DEF WorkInv
  <2>2. CASE Erases(work, Len(work)) /\ work' # <<>>
    <3>1. PICK n \in 1..Len(work) : n = Len(work)
      BY <1>3
    <3>2. Erases(work, n - 1)'
      BY <1>8, <2>2, <3>1
    <3>3. Len(work') = n - 1
      BY <1>3, <3>1
    <3>4. Erases(work, Len(work))'
      BY <3>2, <3>3 DEF Erases
    <3> QED
      BY <3>4 DEF WorkInv
  <2>3. CASE work' # <<>> /\ run.stage = "adding" /\ \E x \in Tx : Current(x) /\ Inserts(work, x)
    <3>1. PICK x \in Tx : Current(x) /\ Inserts(work, x)
      BY <2>3
    <3>2. Inserts(work, x)'
      BY <1>9, <2>3, <3>1
    <3>3. run' = run /\ queue' = queue
      BY DEF WriteErase, Unwritten
    <3>4. Current(x)'
      BY <3>1, <3>3 DEF Current, Done
    <3> QED
      BY <2>3, <3>2, <3>3, <3>4 DEF WorkInv
  <2> QED
    BY <1>2, <2>1, <2>2, <2>3
<1>11. mapped' \subseteq mapped
  BY <1>1 DEF Erase
<1>12. UNCHANGED <<Unwritten, run>> /\ torn' \in BOOLEAN
  <2>1. torn \in BOOLEAN /\ torn' = (torn \/ txs[t] # Pending \/ Newly(t) # {})
    BY DEF WriteErase, Inv1, TypeOK
  <2>2. torn' \in BOOLEAN
    BY <2>1, Zenon
  <2> QED
    BY <2>2 DEF WriteErase
<1>13. Inv1'
  BY <1>3, <1>6, <1>10, <1>11, <1>12, WriteKeeps
<1> QED
  BY <1>2, <1>5, <1>9, <1>13

LEMMA DisconnectInv1 ==
  ASSUME Inv1, WriteDisconnect
  PROVE  /\ Inv1' /\ Head(work)[2] \in Tx /\ Mined(Head(work)[2]) /\ run.stage = "back"
         /\ DisconnectHolds(Head(work)[2]) /\ Disconnect(Head(work)[2])
         /\ \E h \in Heights :
              /\ Undoes(h) /\ h > Height[run.block] /\ \A n \in run.left : n < h
              /\ Kind = "disconnect" => h = height
              /\ Height[txs[Head(work)[2]]] = h
              /\ Len(blocks[h]) > 0 /\ blocks[h][Len(blocks[h])] = Head(work)[2]
              /\ (Undoes(h) \/ blocks[h] = <<>>)'
<1> DEFINE t == Head(work)[2]
<1>1. work # <<>> /\ Head(work)[1] = "disconnect" /\ work' = Tail(work)
  BY DEF WriteDisconnect, Batch
<1>2. t \in Tx /\ UndoWork
  BY <1>1, WorkHead
<1>3. /\ work' \in Seq(Batches) /\ Len(work) \in Nat \ {0} /\ Len(work') = Len(work) - 1
      /\ t = work[1][2] /\ Len(work) = 1 => work' = <<>>
      /\ \A i \in 1..(Len(work) - 1) : work'[i] = work[i + 1]
  BY <1>1, WorkTail
<1>4. run.stage = "back"
  BY <1>2 DEF UndoWork
<1>5. PICK h \in Heights :
        /\ Undoes(h) /\ h > Height[run.block] /\ \A n \in run.left : n < h
        /\ Kind = "disconnect" => h = height
  BY <1>2 DEF UndoWork
<1>6. TxDBTypeOK /\ Db /\ blocks[h] \in Seq(Tx) /\ Len(blocks[h]) \in Nat
  BY Inv1Db DEF Inv1, TypeOK, TxDBTypeOK
<1>7. /\ Len(work) = Len(blocks[h])
      /\ \A i \in 1..Len(blocks[h]) : work[i] = <<"disconnect", blocks[h][Len(blocks[h]) + 1 - i]>>
  BY <1>5, <1>6, UndoingIs DEF Undoes
<1>8. Len(blocks[h]) > 0 /\ blocks[h][Len(blocks[h])] = t
  <2>1. 1 \in 1..Len(blocks[h]) /\ Len(blocks[h]) + 1 - 1 = Len(blocks[h])
    BY <1>3, <1>6, <1>7
  <2>2. work[1] = <<"disconnect", blocks[h][Len(blocks[h])]>>
    BY <1>7, <2>1
  <2> QED
    BY <1>3, <2>1, <2>2
<1>9. Mined(t) /\ Height[txs[t]] = h
  <2>1. Len(blocks[h]) \in 1..Len(blocks[h])
    BY <1>6, <1>8
  <2> QED
    BY <1>8, <2>1 DEF Inv1, BlocksInv
<1>10. DisconnectHolds(t) /\ Disconnect(t)
  BY <1>9 DEF WriteDisconnect
<1>11. Db' /\ blocks' = [blocks EXCEPT ![h] = Front(@)]
  BY <1>2, <1>6, <1>9, <1>10, DisconnectDb
<1>12. /\ blocks'[h] = Front(blocks[h]) /\ Len(blocks'[h]) = Len(blocks[h]) - 1
       /\ \A i \in 1..(Len(blocks[h]) - 1) : blocks'[h][i] = blocks[h][i]
  <2>1. blocks'[h] = Front(blocks[h])
    BY <1>6, <1>11 DEF TxDBTypeOK
  <2>2. blocks[h] # <<>>
    BY <1>8, EmptySeq
  <2> DEFINE b == blocks[h]
  <2>3. b \in Seq(Tx) /\ b # <<>>
    BY <1>6, <2>2
  <2>4. Len(Front(b)) = Len(b) - 1 /\ \A i \in 1..(Len(b) - 1) : Front(b)[i] = b[i]
    <3> HIDE DEF b
    <3> QED
      BY <2>3, Fronts
  <2> QED
    BY <2>1, <2>4
<1>13. (Undoes(h) \/ blocks[h] = <<>>)'
  <2>1. TxDBTypeOK'
    BY <1>11 DEF Db
  <2>2. /\ Undoing(h)' \in Seq(Batches) /\ Len(Undoing(h)') = Len(blocks'[h])
        /\ \A i \in 1..Len(blocks'[h]) :
             Undoing(h)'[i] = <<"disconnect", blocks'[h][Len(blocks'[h]) + 1 - i]>>
    <3>1. blocks'[h] \in Seq(Tx)
      BY <2>1 DEF TxDBTypeOK
    <3>2. Undoing(h)' = [i \in 1..Len(blocks'[h]) |-> <<"disconnect", Reverse(blocks'[h])[i]>>]
      BY DEF Undoing
    <3> QED
      BY <3>1, <3>2, Backwards
  <2>3. Len(work') = Len(Undoing(h)')
    BY <1>3, <1>7, <1>12, <2>2
  <2>4. ASSUME NEW i \in 1..Len(work')
        PROVE  work'[i] = Undoing(h)'[i]
    <3>1. /\ i \in 1..Len(blocks'[h]) /\ i \in 1..(Len(work) - 1) /\ i + 1 \in 1..Len(blocks[h])
          /\ Len(blocks'[h]) + 1 - i \in 1..(Len(blocks[h]) - 1)
          /\ Len(blocks'[h]) + 1 - i = Len(blocks[h]) + 1 - (i + 1)
      <4>1. PICK n \in Nat : n = Len(blocks[h])
        BY <1>6
      <4>2. Len(blocks'[h]) = n - 1 /\ Len(work) = n /\ Len(work') = n - 1
        BY <4>1, <1>3, <1>7, <1>12
      <4>3. i \in 1..(n - 1)
        BY <4>2
      <4>4. i \in 1..(n - 1) /\ i + 1 \in 1..n /\ (n - 1) + 1 - i \in 1..(n - 1) /\ (n - 1) + 1 - i = n + 1 - (i + 1)
        BY <4>3
      <4> QED
        BY <4>1, <4>2, <4>4
    <3>2. work'[i] = <<"disconnect", blocks[h][Len(blocks[h]) + 1 - (i + 1)]>>
      BY <1>3, <1>7, <3>1
    <3>3. Undoing(h)'[i] = <<"disconnect", blocks'[h][Len(blocks'[h]) + 1 - i]>>
      BY <2>2, <3>1
    <3> QED
      BY <1>12, <3>1, <3>2, <3>3
  <2>5. work' = Undoing(h)'
    <3> DEFINE u == Undoing(h)'
    <3>1. work' \in Seq(Batches) /\ u \in Seq(Batches) /\ Len(work') = Len(u)
          /\ \A i \in 1..Len(work') : work'[i] = u[i]
      BY <1>3, <2>2, <2>3, <2>4
    <3> HIDE DEF u
    <3>2. work' = u
      BY <3>1, SeqEqual
    <3> QED
      BY <3>2 DEF u
  <2>6. CASE work' # <<>>
    BY <2>5, <2>6 DEF Undoes
  <2>7. CASE work' = <<>>
    <3>1. Len(blocks'[h]) = 0
      BY <2>2, <2>3, <2>7
    <3>2. blocks'[h] \in Seq(Tx)
      BY <2>1 DEF TxDBTypeOK
    <3>3. blocks'[h] = <<>>
      BY <3>1, <3>2, EmptySeq
    <3> QED
      BY <3>3
  <2> QED
    BY <2>6, <2>7
<1>14. UNCHANGED <<Unwritten, run>> /\ torn' \in BOOLEAN
  BY DEF WriteDisconnect, Inv1, TypeOK
<1>15. WorkInv'
  <2>1. CASE work' = <<>>
    BY <2>1 DEF WorkInv
  <2>2. CASE work' # <<>>
    <3>1. Undoes(h)'
      <4>1. ASSUME blocks'[h] = <<>> PROVE FALSE
        <5>1. Len(work') = 0
          BY <4>1, <1>3, <1>7, <1>12
        <5> QED
          BY <1>3, <5>1, <2>2, EmptySeq
      <4> QED
        BY <1>13, <4>1
    <3>2. run' = run /\ height' = height /\ queue' = queue
      BY <1>14 DEF Unwritten, sync
    <3>3. UndoWork'
      BY <1>4, <1>5, <3>1, <3>2 DEF UndoWork, Kind
    <3> QED
      BY <3>3 DEF WorkInv
  <2> QED
    BY <2>1, <2>2
<1>16. mapped' \subseteq mapped
  BY <1>10 DEF Disconnect
<1>17. Inv1'
  BY <1>3, <1>11, <1>14, <1>15, <1>16, WriteKeeps
<1> QED
  BY <1>2, <1>4, <1>5, <1>8, <1>9, <1>10, <1>13, <1>17

----------------------------------------------------------------------------
\* Steps that change no record.

Job == [stage : Stages, block : Block \cup {NoBlock}, rest : Seq(Tx), left : SUBSET Heights]

Rest1 == /\ queue \in Seq(Request) /\ run \in Job /\ work \in Seq(Batches)
         /\ HeightInv /\ BoundInv /\ QueueInv /\ StageInv /\ WorkInv
         /\ height \in Heights /\ hashes \in [0..height -> Block]

\* What else the type invariant says.
Others == /\ tip \in Block /\ goal \in Block /\ locker \in {"free", "event", "scan"}
          /\ announced \subseteq Tx /\ extras \in 0..MaxExtras
          /\ torn \in BOOLEAN /\ cut \in BOOLEAN

LEMMA Inv1Is == Inv1 <=> Db /\ Rest1 /\ Others
BY DEF Inv1, TypeOK, Db, Rest1, Others, Job, Batches

LEMMA Inv1Next == Inv1' <=> Db' /\ Rest1' /\ Others'
BY DEF Inv1, TypeOK, Db, Rest1, Others, Job, Batches

LEMMA DbKept == ASSUME Db, UNCHANGED txdb PROVE Db'
BY DEF Db, TxDBTypeOK, SpentInv, BlocksInv, RecordInv, Mined, Exists, IsPending, txdb, coinVars

LEMMA Jobs ==
  /\ NoJob.stage = "start" /\ NoJob.block = NoBlock /\ NoJob.rest = <<>> /\ NoJob.left = {}
  /\ Waiting.stage = "wait" /\ Waiting.block = NoBlock /\ Waiting.rest = <<>> /\ Waiting.left = {}
  /\ \A b : /\ Adding(b).stage = "adding" /\ Adding(b).block = b
             /\ Adding(b).rest = BlockTxs[b] /\ Adding(b).left = {}
  /\ \A b : /\ Scanning(b).stage = "scan" /\ Scanning(b).block = b
             /\ Scanning(b).rest = <<>> /\ Scanning(b).left = {}
  /\ NoJob \in Job /\ Waiting \in Job
  /\ \A b \in Block : Adding(b) \in Job
  /\ \A b \in Block \cup {NoBlock} : Scanning(b) \in Job
<1>1. <<>> \in Seq(Tx)
  OBVIOUS
<1>2. NoJob \in Job
  BY <1>1 DEF NoJob, Job, Stages
<1>3. Waiting \in Job
  BY <1>2 DEF Waiting, Job, Stages
<1>4. \A b \in Block : Adding(b) \in Job
  BY <1>2, TxTypes DEF Adding, Job, Stages
<1>5. \A b \in Block \cup {NoBlock} : Scanning(b) \in Job
  BY <1>2 DEF Scanning, Job, Stages
<1>6. \A b : /\ Adding(b).stage = "adding" /\ Adding(b).block = b
             /\ Adding(b).rest = BlockTxs[b] /\ Adding(b).left = {}
  BY DEF Adding, NoJob
<1>7. \A b : /\ Scanning(b).stage = "scan" /\ Scanning(b).block = b
             /\ Scanning(b).rest = <<>> /\ Scanning(b).left = {}
  BY DEF Scanning, NoJob
<1>8. NoJob.stage = "start" /\ NoJob.block = NoBlock /\ NoJob.rest = <<>> /\ NoJob.left = {}
  BY DEF NoJob
<1>9. Waiting.stage = "wait" /\ Waiting.block = NoBlock /\ Waiting.rest = <<>> /\ Waiting.left = {}
  BY DEF Waiting, NoJob
<1> QED
  BY <1>2, <1>3, <1>4, <1>5, <1>6, <1>7, <1>8, <1>9

\* Work that is left alone.
LEMMA WorkKept ==
  ASSUME WorkInv, UNCHANGED <<txdb, work>>,
         \/ work = <<>> \/ run.stage \notin {"adding", "back"}
         \/ run' = run /\ height' = height /\ Kind' = Kind /\ Head(queue') = Head(queue)
  PROVE  WorkInv'
<1>1. /\ txs' = txs /\ spent' = spent /\ blocks' = blocks /\ work' = work
  BY DEF txdb, coinVars
<1>2. CASE work = <<>>
  BY <1>1, <1>2 DEF WorkInv
<1>3. CASE Erases(work, Len(work))
  BY <1>1, <1>3 DEF WorkInv, Erases, Exists
<1>4. CASE run' = run /\ height' = height /\ Kind' = Kind /\ Head(queue') = Head(queue)
  <2>1. CASE UndoWork
    <3>1. UndoWork'
      BY <1>1, <1>4, <2>1 DEF UndoWork, Undoes, Undoing
    <3> QED
      BY <3>1 DEF WorkInv
  <2>2. ASSUME run.stage = "adding", NEW t \in Tx, Current(t),
               Inserts(work, t) \/ (run.block # NoBlock /\ Confirms(work, t))
        PROVE  WorkInv'
    <3>1. Current(t)'
      BY <1>4, <2>2 DEF Current, Done
    <3>2. Inserts(work, t) => Inserts(work, t)'
      BY <1>1 DEF Inserts, Erases, Exists
    <3>3. Confirms(work, t) => Confirms(work, t)'
      BY <1>1 DEF Confirms, IsPending
    <3> QED
      BY <1>4, <2>2, <3>1, <3>2, <3>3 DEF WorkInv
  <2> QED
    BY <1>2, <1>3, <2>1, <2>2 DEF WorkInv
<1> QED
  BY <1>2, <1>3, <1>4 DEF WorkInv, UndoWork

LEMMA AppendKeeps ==
  ASSUME Inv1, NEW r, WellAsked(r), r.kind # "sync",
         Outstanding => r.kind \in {"tx", "rescan"}, r.kind \in Events => locker = "event",
         queue' = Append(queue, r), UNCHANGED <<locker, sync, txdb, run, work>>
  PROVE  Db' /\ Rest1'
<1>0. Db /\ Rest1
  BY Inv1Is
<1>1. Db'
  BY <1>0, DbKept
<1>2. /\ height' = height /\ hashes' = hashes /\ run' = run /\ work' = work /\ locker' = locker
      /\ mapped' = mapped
  BY DEF sync, txdb
<1>3. /\ queue' \in Seq(Request) /\ QueueInv' /\ queue' # <<>>
      /\ queue # <<>> => Head(queue') = Head(queue) /\ Kind' = Kind
  BY <1>0, <1>2, QueueAppended DEF Rest1
<1>4. run.stage # "start" => queue # <<>>
  BY <1>0 DEF Rest1, StageInv
<1>5. StageInv'
  <2>1. AddingInv'
    BY <1>0, <1>2, <1>3, <1>4 DEF Rest1, StageInv, AddingInv, InBlock, Done
  <2>2. BackInv'
    BY <1>0, <1>2, <1>3, <1>4 DEF Rest1, StageInv, BackInv
  <2> QED
    BY <1>0, <1>2, <1>3, <1>4, <2>1, <2>2 DEF Rest1, StageInv, NoJob
<1>6. WorkInv'
  <2>1. WorkInv /\ (run.stage # "start" => Kind' = Kind /\ Head(queue') = Head(queue))
    BY <1>0, <1>3, <1>4 DEF Rest1
  <2> QED
    BY <1>2, <2>1, WorkKept
<1>7. HeightInv' /\ BoundInv'
  BY <1>0, <1>2 DEF Rest1, HeightInv, BoundInv
<1> QED
  BY <1>0, <1>1, <1>2, <1>3, <1>5, <1>6, <1>7 DEF Rest1

\* The first request is done.
LEMMA FinishKeeps ==
  ASSUME Inv1, queue # <<>>, Finish, Outstanding' => locker' = "event", locker' # "scan"
  PROVE  /\ queue' \in Seq(Request) /\ QueueInv' /\ StageInv' /\ run' = NoJob /\ run' \in Job
         /\ run'.stage = "start" /\ run'.left = {} /\ run'.block = NoBlock
<1>1. queue' = Tail(queue) /\ run' = NoJob
  BY DEF Finish
<1>2. queue \in Seq(Request) /\ QueueInv
  BY Inv1Is DEF Rest1
<1>3. queue' \in Seq(Request) /\ QueueInv'
  BY <1>1, <1>2, QueueShifted
<1>4. run'.stage = "start" /\ run'.left = {} /\ run' \in Job /\ run'.block = NoBlock
  BY <1>1, Jobs
<1>5. StageInv'
  BY <1>1, <1>4 DEF StageInv, AddingInv, BackInv, NoJob
<1> QED
  BY <1>1, <1>3, <1>4, <1>5

LEMMA TipSet ==
  ASSUME Inv1, NEW b \in Block, Height[b] <= height + 1, SetTip(b)
  PROVE  /\ height' \in Heights /\ hashes' \in [0..height' -> Block] /\ HeightInv'
         /\ height' = Height[b] /\ hashes'[height'] = b
         /\ \A h \in 0..height' : h # height' => h \in 0..height /\ hashes'[h] = hashes[h]
<1>1. /\ height' = Height[b]
      /\ hashes' = [h \in 0..Height[b] |-> IF h = Height[b] THEN b ELSE hashes[h]]
  BY DEF SetTip
<1>2. Height[b] \in Heights /\ Height[b] \in Nat /\ height \in Nat
  BY HeightIn, HeightsNat DEF Inv1, TypeOK
<1>3. hashes \in [0..height -> Block] /\ HeightInv
  BY DEF Inv1, TypeOK
<1>4. \A h \in 0..Height[b] : h # Height[b] => h \in 0..height
  BY <1>2
<1>5. hashes' \in [0..height' -> Block]
  BY <1>1, <1>3, <1>4
<1>6. hashes'[height'] = b
  BY <1>1, <1>2
<1>7. \A h \in 0..height' : h # height' => h \in 0..height /\ hashes'[h] = hashes[h]
  BY <1>1, <1>4
<1>8. HeightInv'
  BY <1>1, <1>3, <1>6, <1>7 DEF HeightInv
<1> QED
  BY <1>1, <1>2, <1>5, <1>6, <1>7, <1>8

LEMMA MaxLeft ==
  ASSUME Inv1, run.left # {}
  PROVE  Max(run.left) \in run.left /\ \A n \in run.left : n <= Max(run.left) /\ n \in Nat
<1>1. PICK n \in Nat : \A h \in mapped \cup run.left : h <= n
  BY DEF Inv1, BoundInv
<1>2. run.left \in SUBSET Nat
  BY HeightsNat DEF Inv1, TypeOK
<1> DEFINE S == run.left
<1>3. S \in SUBSET Nat /\ S # {} /\ \A x \in S : x <= n
  BY <1>1, <1>2
<1>4. Max(S) \in S /\ \A x \in S : x <= Max(S)
  <2> HIDE DEF S
  <2> QED
    BY <1>3, Bounded
<1> QED
  BY <1>2, <1>4

LEMMA SyncHeightIs ==
  ASSUME Inv1
  PROVE  /\ SyncHeight \in 0..height /\ hashes[SyncHeight] \in Main
         /\ \A h \in 0..height : hashes[h] \in Main => h <= SyncHeight
<1> DEFINE S == {h \in 0..height : hashes[h] \in Main}
<1>1. height \in Nat /\ tip \in Block /\ hashes \in [0..height -> Block] /\ HeightInv
  BY HeightsNat DEF Inv1, TypeOK
<1>2. hashes[0] = Genesis /\ 0 \in 0..height
  <2>1. 0 \in 0..height
    BY <1>1
  <2>2. hashes[0] \in Block /\ Height[hashes[0]] = 0
    BY <1>1, <2>1 DEF HeightInv
  <2> QED
    BY <2>1, <2>2, LowestIsGenesis
<1>3. Genesis \in Main
  BY <1>1, Lines DEF Main
<1>4. S \in SUBSET Nat /\ S # {} /\ \A x \in S : x <= height
  BY <1>1, <1>2, <1>3
<1>5. Max(S) \in S /\ \A x \in S : x <= Max(S)
  <2> HIDE DEF S
  <2> QED
    BY <1>1, <1>4, Bounded
<1>6. SyncHeight = Max(S)
  BY DEF SyncHeight
<1> HIDE DEF S
<1>7. SyncHeight \in S /\ \A x \in S : x <= SyncHeight
  BY <1>5, <1>6
<1> QED
  BY <1>7 DEF S

\* Steps that leave the records, the batches and the job alone, or wait for a
\* job whose batches are written.
LEMMA StepKeeps ==
  ASSUME Inv1, UNCHANGED txdb, Others',
         queue' \in Seq(Request), run' \in Job, work' \in Seq(Batches),
         height' \in Heights, hashes' \in [0..height' -> Block],
         HeightInv', run'.left \subseteq mapped \cup run.left, QueueInv', StageInv', WorkInv'
  PROVE  Inv1'
<1>0. Db /\ Rest1
  BY Inv1Is
<1>1. Db' /\ mapped' = mapped
  BY <1>0, DbKept DEF txdb
<1>2. BoundInv'
  BY <1>0, <1>1 DEF Rest1, BoundInv
<1> QED
  BY <1>1, <1>2, Inv1Next DEF Rest1

\* The first request, and what the invariant says of it.
LEMMA FirstIs1 ==
  ASSUME Inv1, queue # <<>>
  PROVE  /\ WellAsked(Head(queue)) /\ Kind = Head(queue).kind /\ queue \in Seq(Request)
         /\ Head(queue) = queue[1] /\ 1 \in 1..Len(queue)
<1>1. queue \in Seq(Request) /\ QueueInv
  BY DEF Inv1, TypeOK
<1>2. Head(queue) = queue[1] /\ Len(queue) \in Nat \ {0}
  BY <1>1, Tails
<1>3. 1 \in 1..Len(queue)
  BY <1>2
<1> QED
  BY <1>1, <1>2, <1>3 DEF QueueInv, Kind

LEMMA ChainInv1 ==
  ASSUME Inv1, \/ ChainStep \/ AskRescan
               \/ \E t \in Tx : Announce(t)
               \/ \E b \in Block : SetBest(b) \/ Reset(b)
  PROVE  Inv1'
<1>0. Db /\ Rest1 /\ Others
  BY Inv1Is
<1>1. ASSUME NEW b \in Block, SetBest(b) PROVE Inv1'
  <2>1. /\ goal' = b /\ locker' = "event" /\ locker = "free" /\ tip' = tip /\ announced' = announced
        /\ extras' = extras /\ torn' = torn /\ cut' = cut /\ queue' = queue /\ run' = run
        /\ work' = work /\ height' = height /\ hashes' = hashes /\ txdb' = txdb
    BY <1>1 DEF SetBest, sync
  <2>2. QueueInv'
    BY <1>0, <2>1 DEF Rest1, QueueInv, Outstanding, WellAsked
  <2>3. StageInv'
    <3>1. AddingInv'
      BY <1>0, <2>1 DEF Rest1, StageInv, AddingInv, InBlock, Done, Kind
    <3>2. BackInv'
      BY <1>0, <2>1 DEF Rest1, StageInv, BackInv, Kind
    <3> QED
      BY <1>0, <2>1, <3>1, <3>2 DEF Rest1, StageInv, Kind, NoJob
  <2>4. WorkInv'
    BY <1>0, <2>1, WorkKept DEF Rest1, Kind
  <2>5. Others'
    BY <1>0, <2>1 DEF Others
  <2>6. HeightInv' /\ run'.left \subseteq mapped \cup run.left
    BY <1>0, <2>1 DEF Rest1, HeightInv
  <2> QED
    BY <1>0, <2>1, <2>2, <2>3, <2>4, <2>5, <2>6, StepKeeps DEF Rest1
<1>2. CASE Release
  <2>1. /\ goal' = goal /\ locker' = "free" /\ locker = "event" /\ tip' = tip /\ announced' = announced
        /\ extras' = extras /\ torn' = torn /\ cut' = cut /\ queue' = queue /\ run' = run
        /\ work' = work /\ height' = height /\ hashes' = hashes /\ txdb' = txdb /\ ~Outstanding
    BY <1>2 DEF Release, sync
  <2>2. QueueInv'
    BY <1>0, <2>1 DEF Rest1, QueueInv, Outstanding, WellAsked
  <2>3. StageInv'
    <3>1. AddingInv'
      BY <1>0, <2>1 DEF Rest1, StageInv, AddingInv, InBlock, Done, Kind
    <3>2. BackInv'
      BY <1>0, <2>1 DEF Rest1, StageInv, BackInv, Kind
    <3> QED
      BY <1>0, <2>1, <3>1, <3>2 DEF Rest1, StageInv, Kind, NoJob
  <2>4. WorkInv'
    BY <1>0, <2>1, WorkKept DEF Rest1, Kind
  <2>5. Others'
    BY <1>0, <2>1 DEF Others
  <2>6. HeightInv' /\ run'.left \subseteq mapped \cup run.left
    BY <1>0, <2>1 DEF Rest1, HeightInv
  <2> QED
    BY <1>0, <2>1, <2>2, <2>3, <2>4, <2>5, <2>6, StepKeeps DEF Rest1
<1>3. ASSUME NEW r, WellAsked(r), r.kind # "sync",
             Outstanding => r.kind \in {"tx", "rescan"}, r.kind \in Events => locker = "event",
             queue' = Append(queue, r), UNCHANGED <<locker, sync, txdb, run, work>>, Others'
      PROVE  Inv1'
  BY <1>3, AppendKeeps, Inv1Next
<1>4. \A k \in {"connect", "disconnect", "reset", "rescan", "sync", "tx"} :
        \A x \in Block \cup Tx \cup {NoBlock} :
          Req(k, x).kind = k /\ Req(k, x).of = x /\ Req(k, x) \in Request
  BY DEF Req, Request
<1>5. CASE Move
  <2>1. locker = "event" /\ ~Outstanding /\ UNCHANGED <<locker, sync, txdb, run, work>>
    BY <1>5 DEF Move
  <2>2. CASE tip \in Anc[goal]
    <3>1. PICK b \in Anc[goal] : Parent[b] = tip /\ tip' = b /\ queue' = Append(queue, Req("connect", b))
      BY <1>5, <2>2 DEF Move
    <3>2. b \in Block /\ b # Genesis
      <4>1. b \in Block
        BY <1>0, Lines DEF Others
      <4> QED
        BY <1>0, <3>1, <4>1, Child DEF Others
    <3>3. WellAsked(Req("connect", b))
      BY <1>4, <3>2 DEF WellAsked
    <3>4. Others'
      BY <1>0, <1>5, <3>1, <3>2 DEF Others, Move
    <3> QED
      BY <1>3, <1>4, <2>1, <3>1, <3>2, <3>3, <3>4
  <2>3. CASE tip \notin Anc[goal]
    <3>1. tip' = Parent[tip] /\ queue' = Append(queue, Req("disconnect", tip))
      BY <1>5, <2>3 DEF Move
    <3>2. tip # Genesis /\ tip \in Block /\ Parent[tip] \in Block
      <4>1. tip # Genesis
        BY <1>0, <2>3, Lines DEF Others
      <4> QED
        BY <1>0, <4>1, Parents1 DEF Others
    <3>3. WellAsked(Req("disconnect", tip))
      BY <1>4, <3>2 DEF WellAsked
    <3>4. Others'
      BY <1>0, <1>5, <3>1, <3>2 DEF Others, Move
    <3> QED
      BY <1>3, <1>4, <2>1, <3>1, <3>2, <3>3, <3>4
  <2> QED
    BY <2>2, <2>3
<1>6. ASSUME NEW b \in Block, Reset(b) PROVE Inv1'
  <2>1. /\ locker = "free" /\ queue' = Append(queue, Req("reset", b))
        /\ UNCHANGED <<locker, sync, txdb, run, work>>
    BY <1>6 DEF Reset
  <2>2. ~Outstanding
    BY <1>0, <2>1 DEF Rest1, QueueInv
  <2>3. WellAsked(Req("reset", b))
    BY <1>4 DEF WellAsked, Events
  <2>4. Others'
    <3>1. extras' \in 0..MaxExtras
      BY <1>0, <1>6, WalletAssumption DEF Others, Reset
    <3> QED
      BY <1>0, <1>6, <3>1 DEF Others, Reset
  <2> QED
    BY <1>3, <1>4, <2>1, <2>2, <2>3, <2>4 DEF Events
<1>7. ASSUME NEW t \in Tx, Announce(t) PROVE Inv1'
  <2>1. queue' = Append(queue, Req("tx", t)) /\ UNCHANGED <<locker, sync, txdb, run, work>>
    BY <1>7 DEF Announce
  <2>2. WellAsked(Req("tx", t))
    BY <1>4 DEF WellAsked, Events
  <2>3. Others'
    BY <1>0, <1>7 DEF Others, Announce
  <2> QED
    BY <1>3, <1>4, <2>1, <2>2, <2>3 DEF Events
<1>8. CASE AskRescan
  <2>1. queue' = Append(queue, Req("rescan", NoBlock)) /\ UNCHANGED <<locker, sync, txdb, run, work>>
    BY <1>8 DEF AskRescan, chain
  <2>2. WellAsked(Req("rescan", NoBlock))
    BY <1>4 DEF WellAsked, Events
  <2>3. Others'
    <3>1. extras' \in 0..MaxExtras
      BY <1>0, <1>8, WalletAssumption DEF Others, AskRescan
    <3> QED
      BY <1>0, <1>8, <3>1 DEF Others, AskRescan, chain
  <2> QED
    BY <1>3, <1>4, <2>1, <2>2, <2>3 DEF Events
<1> QED
  BY <1>1, <1>2, <1>5, <1>6, <1>7, <1>8 DEF ChainStep

LEMMA RemoveInv1 ==
  ASSUME Inv1, NEW t \in Tx, RemoveTX(t)
  PROVE  Inv1' /\ Erases(work, Len(work))'
<1>0. Db /\ Rest1 /\ Others
  BY Inv1Is
<1>1. /\ txs[t] # Absent /\ work' = Erasing({t}) /\ extras' = extras + 1 /\ extras < MaxExtras
      /\ chain' = chain /\ sync' = sync /\ txdb' = txdb /\ queue' = queue /\ run' = run
      /\ torn' = torn /\ cut' = cut
  BY DEF RemoveTX
<1>2. /\ work' \in Seq(Batches) /\ Erases(Erasing({t}), Len(Erasing({t})))
  <2>1. {t} \in SUBSET Tx /\ \A x \in {t} : Exists(x)
    BY <1>1 DEF Exists
  <2> QED
    BY <1>0, <1>1, <2>1, ErasingIs
<1>3. Erases(work, Len(work))'
  <2> DEFINE e == Erasing({t})
  <2>1. Erases(e, Len(e)) /\ work' = e /\ txs' = txs /\ spent' = spent
    BY <1>1, <1>2 DEF txdb, coinVars
  <2> HIDE DEF e
  <2> QED
    BY <2>1 DEF Erases, Exists
<1>4. WorkInv'
  BY <1>3 DEF WorkInv
<1>5. /\ tip' = tip /\ goal' = goal /\ locker' = locker /\ announced' = announced
      /\ height' = height /\ hashes' = hashes
  BY <1>1 DEF chain, sync
<1>6. Others'
  BY <1>0, <1>1, <1>5, WalletAssumption DEF Others
<1>7. QueueInv' /\ HeightInv'
  BY <1>0, <1>1, <1>5 DEF Rest1, QueueInv, Outstanding, WellAsked, HeightInv
<1>8. StageInv'
  <2>1. AddingInv'
    BY <1>0, <1>1, <1>5 DEF Rest1, StageInv, AddingInv, InBlock, Done, Kind
  <2>2. BackInv'
    BY <1>0, <1>1, <1>5 DEF Rest1, StageInv, BackInv, Kind
  <2> QED
    BY <1>0, <1>1, <1>5, <2>1, <2>2 DEF Rest1, StageInv, Kind, NoJob
<1> QED
  BY <1>0, <1>1, <1>2, <1>3, <1>4, <1>5, <1>6, <1>7, <1>8, StepKeeps DEF Rest1

LEMMA CrashInv1 ==
  ASSUME Inv1, Crash
  PROVE  Inv1' /\ Kind' = "sync" /\ Len(queue') = 1
<1>0. Db /\ Rest1 /\ Others
  BY Inv1Is
<1>1. /\ extras < MaxExtras /\ extras' = extras + 1
      /\ queue' = <<Req("sync", NoBlock)>> /\ run' = NoJob /\ work' = <<>>
      /\ locker' = "free" /\ goal' = tip /\ tip' = tip /\ announced' = announced
      /\ sync' = sync /\ txdb' = txdb /\ cut' = cut
  BY DEF Crash
<1>2. Req("sync", NoBlock) \in Request /\ Req("sync", NoBlock).kind = "sync"
  BY DEF Req, Request
<1>3. queue' \in Seq(Request) /\ Len(queue') = 1 /\ queue'[1] = Req("sync", NoBlock) /\ queue' # <<>>
      /\ Head(queue') = Req("sync", NoBlock)
  BY <1>1, <1>2
<1>4. ~Outstanding' /\ \A i \in 1..Len(queue') : i = 1
  BY <1>2, <1>3 DEF Outstanding
<1>5. WellAsked(queue'[1])
  BY <1>2, <1>3 DEF WellAsked, Events
<1>6. QueueInv'
  BY <1>3, <1>4, <1>5 DEF QueueInv, WellAsked
<1>7. run'.stage = "start" /\ run'.left = {} /\ run' \in Job
  BY <1>1, Jobs
<1>8. StageInv'
  BY <1>1, <1>7 DEF StageInv, AddingInv, BackInv, NoJob
<1>9. torn' \in BOOLEAN
  <2>1. torn' = (\/ torn \/ \E h \in Heights \ mapped : blocks[h] # <<>>
                 \/ run.stage = "back" /\ Head(queue).kind # "disconnect"
                 \/ Unscanned)
    BY DEF Crash
  <2> QED
    BY <2>1, Zenon
<1>10. Others'
  BY <1>0, <1>1, <1>9, WalletAssumption DEF Others
<1>11. WorkInv' /\ work' \in Seq(Batches)
  BY <1>1 DEF WorkInv
<1>12. HeightInv' /\ height' = height /\ hashes' = hashes
  BY <1>0, <1>1 DEF Rest1, HeightInv, sync
<1>13. Inv1'
  BY <1>0, <1>1, <1>3, <1>6, <1>7, <1>8, <1>10, <1>11, <1>12, StepKeeps DEF Rest1
<1> QED
  BY <1>2, <1>3, <1>13 DEF Kind

\* The batches that are handed out, and the first transaction of what is left.
LEMMA AddTXInv1 ==
  ASSUME Inv1, AddTX
  PROVE  /\ Inv1' /\ WellAsked(Head(queue)) /\ Head(queue).of \in Tx /\ Kind = "tx" /\ run = NoJob
         /\ run'.stage = "adding" /\ run'.block = NoBlock /\ run'.rest = <<>> /\ run'.left = {}
<1>0. Db /\ Rest1 /\ Others
  BY Inv1Is
<1>1. /\ queue # <<>> /\ Head(queue).kind = "tx" /\ work = <<>> /\ run.stage = "start"
      /\ work' = Adds(Head(queue).of, NoBlock) /\ run' = [run EXCEPT !.stage = "adding"]
      /\ chain' = chain /\ sync' = sync /\ txdb' = txdb /\ queue' = queue
      /\ extras' = extras /\ torn' = torn /\ cut' = cut
  BY DEF AddTX, First
<1>2. WellAsked(Head(queue)) /\ Kind = "tx" /\ Head(queue).of \in Tx
  BY <1>1, FirstIs1 DEF WellAsked
<1>3. run = NoJob
  BY <1>0, <1>1 DEF Rest1, StageInv
<1>4. run'.stage = "adding" /\ run'.block = NoBlock /\ run'.rest = <<>> /\ run'.left = {} /\ run' \in Job
  <2>1. NoJob \in Job
    BY Jobs
  <2>2. run' = [NoJob EXCEPT !.stage = "adding"]
    BY <1>1, <1>3
  <2> QED
    BY <2>1, <2>2, Jobs DEF Job, Stages
<1> DEFINE t == Head(queue).of
           w == Adds(t, NoBlock)
<1>5. /\ w \in Seq(Batches) /\ (w = <<>> \/ Inserts(w, t))
  BY <1>0, <1>2, AddsIs
<1>6. /\ tip' = tip /\ goal' = goal /\ locker' = locker /\ announced' = announced
      /\ height' = height /\ hashes' = hashes /\ txs' = txs /\ spent' = spent
  BY <1>1 DEF chain, sync, txdb, coinVars
<1>7. WorkInv'
  <2>1. CASE w = <<>>
    BY <1>1, <2>1 DEF WorkInv
  <2>2. CASE Inserts(w, t)
    <3>1. work' = w
      BY <1>1
    <3>2. Inserts(work, t)'
      <4> HIDE DEF w
      <4>1. t' = t
        BY <1>1
      <4> QED
        BY <1>6, <2>2, <3>1, <4>1 DEF Inserts, Erases, Exists
    <3>3. Current(t)'
      BY <1>1, <1>4 DEF Current
    <3>4. t \in Tx /\ t' = t
      BY <1>1, <1>2
    <3> QED
      BY <1>4, <3>2, <3>3, <3>4 DEF WorkInv
  <2> QED
    BY <1>5, <2>1, <2>2
<1>8. Others'
  BY <1>0, <1>1, <1>6 DEF Others
<1>9. QueueInv' /\ HeightInv'
  BY <1>0, <1>1, <1>6 DEF Rest1, QueueInv, Outstanding, WellAsked, HeightInv
<1>10. StageInv'
  <2>1. Kind' = "tx"
    BY <1>1, <1>2 DEF Kind
  <2>2. AddingInv' /\ BackInv'
    BY <1>4, <2>1 DEF AddingInv, BackInv
  <2>3. locker' # "scan"
    BY <1>0, <1>1, <1>6 DEF Rest1, StageInv
  <2> QED
    BY <1>1, <1>4, <2>1, <2>2, <2>3 DEF StageInv
<1>11. Inv1'
  BY <1>0, <1>1, <1>4, <1>5, <1>6, <1>7, <1>8, <1>9, <1>10, StepKeeps DEF Rest1
<1> QED
  BY <1>2, <1>3, <1>4, <1>11

LEMMA AddBlockTXInv1 ==
  ASSUME Inv1, AddBlockTX
  PROVE  /\ Inv1' /\ Kind # "tx" /\ InBlock /\ run.left = {}
         /\ run.rest # <<>> /\ Head(run.rest) \in Tx
         /\ Done + 1 \in 1..Len(BlockTxs[run.block])
         /\ Head(run.rest) = BlockTxs[run.block][Done + 1] /\ Done' = Done + 1
         /\ Done \in Nat
         /\ run'.stage = "adding" /\ run'.block = run.block /\ run'.left = {}
         /\ run'.rest = Tail(run.rest) /\ Len(run'.rest) = Len(run.rest) - 1
<1>0. Db /\ Rest1 /\ Others
  BY Inv1Is
<1>1. /\ run.stage = "adding" /\ run.rest # <<>> /\ work = <<>>
      /\ work' = Adds(Head(run.rest), run.block) /\ run' = [run EXCEPT !.rest = Tail(@)]
      /\ chain' = chain /\ sync' = sync /\ txdb' = txdb /\ queue' = queue
      /\ extras' = extras /\ torn' = torn /\ cut' = cut
  BY DEF AddBlockTX
<1>2. /\ tip' = tip /\ goal' = goal /\ locker' = locker /\ announced' = announced
      /\ height' = height /\ hashes' = hashes /\ txs' = txs /\ spent' = spent /\ Kind' = Kind
  BY <1>1 DEF chain, sync, txdb, coinVars, Kind
<1>3. Kind # "tx" /\ InBlock /\ run.left = {}
  BY <1>0, <1>1 DEF Rest1, StageInv, AddingInv
<1> DEFINE r == run.rest
<1>4. r \in Seq(Tx) /\ r # <<>> /\ run \in Job
  BY <1>0, <1>1 DEF Rest1, Job
<1>5. /\ Head(r) \in Tx /\ Head(r) = r[1] /\ Len(r) \in Nat \ {0}
      /\ Tail(r) \in Seq(Tx) /\ Len(Tail(r)) = Len(r) - 1
      /\ \A i \in 1..(Len(r) - 1) : Tail(r)[i] = r[i + 1]
  <2> HIDE DEF r
  <2> QED
    BY <1>4, Tails
<1>6. /\ run'.stage = "adding" /\ run'.block = run.block /\ run'.left = run.left
      /\ run'.rest = Tail(r) /\ run' \in Job
  BY <1>1, <1>4, <1>5 DEF Job
<1>7. /\ Len(r) <= Len(BlockTxs[run.block]) /\ Len(BlockTxs[run.block]) \in Nat
      /\ run.block \in Block
      /\ \A i \in 1..Len(r) : r[i] = BlockTxs[run.block][Done + i]
  BY <1>3, TxTypes DEF InBlock
<1> HIDE DEF r
<1>8. Done = Len(BlockTxs[run.block]) - Len(r) /\ Done' = Len(BlockTxs[run.block]) - Len(Tail(r))
  BY <1>6 DEF Done, r
<1>9. /\ Done \in Nat /\ Done' = Done + 1 /\ Done + 1 \in 1..Len(BlockTxs[run.block])
      /\ Head(r) = BlockTxs[run.block][Done + 1]
  BY <1>5, <1>7, <1>8
<1> DEFINE t == Head(r)
           w == Adds(t, run.block)
<1>10. w \in Seq(Batches) /\ (w = <<>> \/ Inserts(w, t) \/ Confirms(w, t))
  BY <1>0, <1>5, <1>7, AddsIs
<1>11. PICK x \in Tx : x = t
  BY <1>5
<1>12. Current(x)'
  <2>1. run'.block = run.block /\ run.block # NoBlock
    BY <1>6, <1>7, TreeAssumption
  <2>2. x = BlockTxs[run.block][Done']
    BY <1>9, <1>11
  <2>3. Done' > 0
    BY <1>9
  <2> QED
    BY <2>1, <2>2, <2>3 DEF Current
<1>13. WorkInv'
  <2>1. CASE w = <<>>
    BY <1>1, <2>1 DEF WorkInv, r
  <2>2. CASE w # <<>>
    <3>1. work' = w
      BY <1>1 DEF r
    <3>2. Inserts(w, x) \/ Confirms(w, x)
      BY <1>10, <1>11, <2>2
    <3> HIDE DEF w
    <3>3. Inserts(w, x) => Inserts(work, x)'
      BY <1>2, <3>1 DEF Inserts, Erases, Exists
    <3>4. Confirms(w, x) => Confirms(work, x)'
      BY <1>2, <3>1 DEF Confirms, IsPending
    <3>5. run'.block # NoBlock
      BY <1>6, <1>7, TreeAssumption
    <3> QED
      BY <1>6, <1>12, <3>2, <3>3, <3>4, <3>5 DEF WorkInv
  <2> QED
    BY <2>1, <2>2
<1>14. Others'
  BY <1>0, <1>1, <1>2 DEF Others
<1>15. QueueInv' /\ HeightInv'
  BY <1>0, <1>1, <1>2 DEF Rest1, QueueInv, Outstanding, WellAsked, HeightInv
<1>16. StageInv'
  <2>1. InBlock'
    <3>1. \A i \in 1..Len(Tail(r)) : Tail(r)[i] = BlockTxs[run.block][Done' + i]
      <4> TAKE i \in 1..Len(Tail(r))
      <4>1. i + 1 \in 1..Len(r) /\ Tail(r)[i] = r[i + 1] /\ Done' + i = Done + (i + 1)
        BY <1>5, <1>9
      <4> QED
        BY <1>7, <4>1
    <3>2. Len(Tail(r)) <= Len(BlockTxs[run.block])
      BY <1>5, <1>7
    <3>3. run'.block \in Block /\ Height[run'.block] \in {height', height' + 1}
      BY <1>2, <1>3, <1>6 DEF InBlock
    <3> QED
      BY <1>6, <3>1, <3>2, <3>3 DEF InBlock
  <2>2. AddingInv'
    BY <1>0, <1>1, <1>2, <1>3, <1>6, <2>1 DEF Rest1, StageInv, AddingInv
  <2>3. BackInv'
    BY <1>6 DEF BackInv
  <2> QED
    BY <1>0, <1>1, <1>2, <1>3, <1>6, <2>2, <2>3 DEF Rest1, StageInv
<1>17. work' \in Seq(Batches)
  BY <1>1, <1>10 DEF r
<1>18. Inv1'
  BY <1>0, <1>1, <1>2, <1>6, <1>13, <1>14, <1>15, <1>16, <1>17, StepKeeps DEF Rest1
<1> QED
  BY <1>1, <1>3, <1>5, <1>6, <1>9, <1>18 DEF r

\* A step that finishes the first request.
LEMMA FinishInv1 ==
  ASSUME Inv1, queue # <<>>, Finish, Outstanding' => locker' = "event", locker' # "scan",
         UNCHANGED txdb, Others', work' = work,
         work = <<>> \/ run.stage \notin {"adding", "back"},
         height' \in Heights, hashes' \in [0..height' -> Block], HeightInv'
  PROVE  Inv1'
<1>0. Db /\ Rest1 /\ Others
  BY Inv1Is
<1>1. /\ queue' \in Seq(Request) /\ QueueInv' /\ StageInv' /\ run' \in Job /\ run'.left = {}
  BY FinishKeeps
<1>2. WorkInv'
  BY <1>0, WorkKept DEF Rest1
<1> QED
  BY <1>0, <1>1, <1>2, StepKeeps DEF Rest1

LEMMA AddedTXInv1 ==
  ASSUME Inv1, AddedTX
  PROVE  Inv1'
<1>0. Db /\ Rest1 /\ Others
  BY Inv1Is
<1>1. /\ queue # <<>> /\ Head(queue).kind = "tx" /\ work = <<>> /\ run.stage = "adding" /\ Finish
      /\ tip' = tip /\ goal' = goal /\ locker' = locker /\ announced' = announced
      /\ height' = height /\ hashes' = hashes /\ txdb' = txdb
      /\ work' = work /\ extras' = extras /\ torn' = torn /\ cut' = cut
  BY DEF AddedTX, First, chain, sync
<1>2. Kind = "tx" /\ queue \in Seq(Request)
  BY <1>1, FirstIs1
<1>3. locker # "scan"
  BY <1>0, <1>1, <1>2 DEF Rest1, StageInv
<1>4. Outstanding' => locker' = "event"
  BY <1>0, <1>1, <1>2, NotOutstanding DEF Rest1, QueueInv, Finish
<1>5. Others'
  BY <1>0, <1>1 DEF Others
<1>6. HeightInv'
  BY <1>0, <1>1 DEF Rest1, HeightInv
<1> QED
  BY <1>0, <1>1, <1>3, <1>4, <1>5, <1>6, FinishInv1 DEF Rest1

LEMMA AddBlockInv1 ==
  ASSUME Inv1, AddBlock
  PROVE  Inv1'
<1>0. Db /\ Rest1 /\ Others
  BY Inv1Is
<1> DEFINE b == Head(queue).of
<1>1. /\ queue # <<>> /\ Head(queue).kind = "connect" /\ work = <<>> /\ run.stage = "start"
      /\ tip' = tip /\ goal' = goal /\ locker' = locker /\ announced' = announced
      /\ height' = height /\ hashes' = hashes /\ txdb' = txdb
      /\ work' = work /\ extras' = extras /\ torn' = torn /\ cut' = cut
      /\ \/ Height[b] < height /\ Finish
         \/ Height[b] \in {height, height + 1} /\ run' = Adding(b) /\ queue' = queue
         \/ Height[b] > height + 1 /\ run' = Waiting /\ queue' = queue
  BY DEF AddBlock, First, chain, sync
<1>2. /\ Kind = "connect" /\ queue \in Seq(Request) /\ b \in Block \ {Genesis}
  BY <1>1, FirstIs1 DEF WellAsked, Events
<1>3. locker # "scan"
  BY <1>0, <1>1, <1>2 DEF Rest1, StageInv
<1>4. Others'
  BY <1>0, <1>1 DEF Others
<1>5. HeightInv'
  BY <1>0, <1>1 DEF Rest1, HeightInv
<1>6. CASE Finish
  <2>1. Outstanding' => locker' = "event"
    BY <1>0, <1>1, <1>2, <1>6, NotOutstanding DEF Rest1, QueueInv, Finish
  <2> QED
    BY <1>0, <1>1, <1>3, <1>4, <1>5, <1>6, <2>1, FinishInv1 DEF Rest1
<1>7. ASSUME queue' = queue, run' \in Job, StageInv', run'.left = {}
      PROVE  Inv1'
  <2>1. WorkInv'
    BY <1>0, <1>1, WorkKept DEF Rest1
  <2>2. QueueInv'
    BY <1>0, <1>1, <1>7 DEF Rest1, QueueInv, Outstanding, WellAsked
  <2> QED
    BY <1>0, <1>1, <1>4, <1>5, <1>7, <2>1, <2>2, StepKeeps DEF Rest1
<1>8. CASE Height[b] \in {height, height + 1} /\ run' = Adding(b) /\ queue' = queue
  <2>1. /\ run'.stage = "adding" /\ run'.block = b /\ run'.rest = BlockTxs[b] /\ run'.left = {}
        /\ run' \in Job
    BY <1>2, <1>8, Jobs
  <2>2. Kind' = "connect" /\ Head(queue').of = b
    BY <1>2, <1>8 DEF Kind
  <2>3. BlockTxs[b] \in Seq(Tx)
    BY <1>2, TxTypes
  <2>4. InBlock'
    <3>1. Done' = 0
      BY <2>1, <2>3 DEF Done
    <3>2. \A i \in 1..Len(BlockTxs[b]) : BlockTxs[b][i] = BlockTxs[b][Done' + i]
      BY <3>1, <2>3
    <3>3. Len(run'.rest) <= Len(BlockTxs[run'.block])
      BY <2>1, <2>3
    <3> QED
      BY <1>1, <1>2, <1>8, <2>1, <3>2, <3>3 DEF InBlock
  <2>5. AddingInv'
    BY <2>1, <2>2, <2>4 DEF AddingInv
  <2>6. BackInv'
    BY <2>1 DEF BackInv
  <2>7. StageInv'
    BY <1>1, <1>3, <1>8, <2>1, <2>2, <2>5, <2>6 DEF StageInv
  <2> QED
    BY <1>7, <1>8, <2>1, <2>7
<1>9. CASE run' = Waiting /\ queue' = queue
  <2>1. run'.stage = "wait" /\ run'.left = {} /\ run' \in Job
    BY <1>9, Jobs
  <2>2. Kind' = "connect"
    BY <1>2, <1>9 DEF Kind
  <2>3. StageInv'
    BY <1>1, <1>3, <1>9, <2>1, <2>2 DEF StageInv, AddingInv, BackInv
  <2> QED
    BY <1>7, <1>9, <2>1, <2>3
<1> QED
  BY <1>1, <1>6, <1>8, <1>9

LEMMA AfterIs == \A b : After(b) \in Block \cup {NoBlock}
                         \/ ~(Main \subseteq Block)
BY DEF After

LEMMA MainIs == ASSUME tip \in Block PROVE Main \subseteq Block /\ \A b : After(b) \in Block \cup {NoBlock}
BY Lines, AfterIs DEF Main

LEMMA AddedBlockInv1 ==
  ASSUME Inv1, AddedBlock
  PROVE  /\ Inv1' /\ height' = Height[run.block] /\ hashes'[height'] = run.block
         /\ InBlock /\ Kind # "tx"
         /\ \A h \in 0..height' : h # height' => h \in 0..height /\ hashes'[h] = hashes[h]
<1>0. Db /\ Rest1 /\ Others
  BY Inv1Is
<1>1. /\ run.stage = "adding" /\ run.block # NoBlock /\ work = <<>>
      /\ tip' = tip /\ goal' = goal /\ locker' = locker /\ announced' = announced
      /\ txdb' = txdb /\ SetTip(run.block)
      /\ work' = work /\ extras' = extras /\ torn' = torn /\ cut' = cut
      /\ IF locker = "scan" THEN run' = Scanning(After(run.block)) /\ queue' = queue ELSE Finish
  BY DEF AddedBlock, chain
<1>2. Kind # "tx" /\ InBlock /\ queue # <<>>
  BY <1>0, <1>1 DEF Rest1, StageInv, AddingInv
<1>3. run.block \in Block /\ Height[run.block] <= height + 1
  <2>1. height \in Nat
    BY <1>0, HeightsNat DEF Rest1
  <2> QED
    BY <1>2, <2>1 DEF InBlock
<1>4. /\ height' \in Heights /\ hashes' \in [0..height' -> Block] /\ HeightInv'
      /\ height' = Height[run.block] /\ hashes'[height'] = run.block
      /\ \A h \in 0..height' : h # height' => h \in 0..height /\ hashes'[h] = hashes[h]
  BY <1>1, <1>3, TipSet
<1>5. Others'
  BY <1>0, <1>1 DEF Others
<1>6. CASE locker # "scan"
  <2>1. Finish
    BY <1>1, <1>6
  <2>2. Outstanding' => locker' = "event"
    BY <1>0, <1>1, <1>2, <2>1, NotOutstanding DEF Rest1, QueueInv, Finish
  <2>3. Inv1'
    BY <1>1, <1>2, <1>4, <1>5, <1>6, <2>1, <2>2, FinishInv1
  <2> QED
    BY <1>2, <1>4, <2>3
<1>7. CASE locker = "scan"
  <2>1. run' = Scanning(After(run.block)) /\ queue' = queue
    BY <1>1, <1>7
  <2>2. After(run.block) \in Block \cup {NoBlock}
    BY <1>0, MainIs DEF Others
  <2>3. run'.stage = "scan" /\ run'.left = {} /\ run' \in Job
    BY <2>1, <2>2, Jobs
  <2>4. Kind' = Kind /\ Kind \in {"rescan", "sync"}
    BY <1>0, <1>1, <1>7, <2>1 DEF Rest1, StageInv, Kind
  <2>5. StageInv'
    BY <1>1, <1>2, <1>7, <2>1, <2>3, <2>4 DEF StageInv, AddingInv, BackInv
  <2>6. QueueInv'
    BY <1>0, <1>1, <2>1 DEF Rest1, QueueInv, Outstanding, WellAsked
  <2>7. WorkInv'
    BY <1>0, <1>1, WorkKept DEF Rest1
  <2>8. Inv1'
    BY <1>0, <1>1, <1>4, <1>5, <2>1, <2>3, <2>5, <2>6, <2>7, StepKeeps DEF Rest1
  <2> QED
    BY <1>2, <1>4, <2>8
<1> QED
  BY <1>6, <1>7

\* A step that leaves the queue alone and whose batches are written.
LEMMA StayInv1 ==
  ASSUME Inv1, queue' = queue, UNCHANGED txdb, Others', work' = work,
         work = <<>> \/ run.stage \notin {"adding", "back"},
         run' \in Job, StageInv', run'.left \subseteq mapped \cup run.left,
         Outstanding => locker' = "event",
         height' \in Heights, hashes' \in [0..height' -> Block], HeightInv'
  PROVE  Inv1'
<1>0. Db /\ Rest1 /\ Others
  BY Inv1Is
<1>1. WorkInv'
  BY <1>0, WorkKept DEF Rest1
<1>2. QueueInv'
  BY <1>0 DEF Rest1, QueueInv, Outstanding, WellAsked
<1> QED
  BY <1>0, <1>1, <1>2, StepKeeps DEF Rest1

LEMMA EventFirst ==
  ASSUME Inv1, Kind \in Events
  PROVE  Outstanding /\ locker = "event"
<1>1. queue # <<>>
  BY DEF Kind, Events
<1>2. Outstanding
  BY <1>1, FirstIs1 DEF Outstanding, Events
<1> QED
  BY <1>2 DEF Inv1, QueueInv

LEMMA BackIs ==
  ASSUME Inv1, NEW h \in 0..(height - 1), NEW above, Back(h, above)
  PROVE  /\ run'.stage = "back" /\ run'.block = hashes[h] /\ run'.rest = <<>>
         /\ run'.left = above \cap mapped /\ run' \in Job
         /\ hashes[h] \in Block /\ Height[hashes[h]] = h /\ h \in 0..height
<1>1. height \in Nat /\ hashes \in [0..height -> Block] /\ HeightInv /\ mapped \subseteq Heights
  BY HeightsNat DEF Inv1, TypeOK, TxDBTypeOK
<1>2. h \in 0..height
  BY <1>1
<1>3. hashes[h] \in Block /\ Height[hashes[h]] = h
  BY <1>1, <1>2 DEF HeightInv
<1>4. run' = [NoJob EXCEPT !.stage = "back", !.block = hashes[h], !.left = above \cap mapped]
  BY DEF Back
<1>5. run' = [stage |-> "back", block |-> hashes[h], rest |-> <<>>, left |-> above \cap mapped]
  BY <1>4 DEF NoJob
<1>6. <<>> \in Seq(Tx) /\ above \cap mapped \in SUBSET Heights
  BY <1>1
<1>7. run' \in Job
  BY <1>3, <1>5, <1>6 DEF Job, Stages
<1> QED
  BY <1>2, <1>3, <1>5, <1>7

LEMMA AboveIs ==
  ASSUME NEW h, NEW n \in Above(h)
  PROVE  n \in Heights /\ n > h
BY DEF Above

LEMMA RemoveBlockInv1 ==
  ASSUME Inv1, RemoveBlock
  PROVE  /\ Inv1' /\ Kind = "disconnect" /\ Head(queue).of \in Block \ {Genesis}
<1>0. Db /\ Rest1 /\ Others
  BY Inv1Is
<1> DEFINE b == Head(queue).of
<1>1. /\ queue # <<>> /\ Head(queue).kind = "disconnect" /\ work = <<>> /\ run.stage = "start"
      /\ tip' = tip /\ goal' = goal /\ locker' = locker /\ announced' = announced
      /\ height' = height /\ hashes' = hashes /\ txdb' = txdb
      /\ work' = work /\ extras' = extras /\ cut' = cut
      /\ \/ Height[b] # height /\ Finish /\ torn' = (torn \/ Ahead(Parent[b]))
         \/ Height[b] = height /\ Back(height - 1, {height}) /\ queue' = queue /\ torn' = torn
  BY DEF RemoveBlock, First, chain, sync
<1>2. /\ Kind = "disconnect" /\ queue \in Seq(Request) /\ b \in Block \ {Genesis}
  BY <1>1, FirstIs1 DEF WellAsked, Events
<1>3. locker = "event" /\ Outstanding
  BY <1>2, EventFirst DEF Events
<1>4. Others'
  <2>1. torn' \in BOOLEAN
    <3>1. CASE torn' = (torn \/ Ahead(Parent[b]))
      BY <3>1, Zenon
    <3> QED
      BY <1>0, <1>1, <3>1 DEF Others
  <2> QED
    BY <1>0, <1>1, <2>1 DEF Others
<1>5. HeightInv'
  BY <1>0, <1>1 DEF Rest1, HeightInv
<1>6. CASE Finish
  <2>1. Outstanding' => locker' = "event"
    BY <1>1, <1>3
  <2> QED
    BY <1>0, <1>1, <1>2, <1>3, <1>4, <1>5, <1>6, <2>1, FinishInv1 DEF Rest1
<1>7. CASE Height[b] = height /\ Back(height - 1, {height}) /\ queue' = queue
  <2>1. height \in Nat /\ height > 0
    <3>1. height \in Nat /\ Height[b] # 0
      BY <1>0, <1>2, HeightsNat, LowestIsGenesis DEF Rest1
    <3> QED
      BY <1>7, <3>1
  <2>2. PICK h \in 0..(height - 1) : h = height - 1
    BY <2>1
  <2>3. /\ run'.stage = "back" /\ run'.block = hashes[h] /\ run'.rest = <<>>
        /\ run'.left = {height} \cap mapped /\ run' \in Job
        /\ hashes[h] \in Block /\ Height[hashes[h]] = h
    BY <1>7, <2>2, BackIs
  <2>4. Kind' = "disconnect" /\ Head(queue').of = b
    BY <1>1, <1>2, <1>7 DEF Kind
  <2>5. \A n \in run'.left : n > Height[run'.block]
    BY <2>1, <2>2, <2>3
  <2>6. BackInv'
    BY <1>1, <1>7, <2>2, <2>3, <2>4, <2>5 DEF BackInv
  <2>7. StageInv'
    BY <1>1, <1>3, <1>7, <2>3, <2>4, <2>6 DEF StageInv, AddingInv
  <2>8. /\ queue' = queue /\ txdb' = txdb /\ work' = work /\ work = <<>> /\ run' \in Job
        /\ run'.left \subseteq mapped \cup run.left /\ (Outstanding => locker' = "event")
    BY <1>1, <1>3, <1>7, <2>3
  <2>9. height' \in Heights /\ hashes' \in [0..height' -> Block]
    BY <1>0, <1>1 DEF Rest1
  <2> QED
    BY <1>2, <1>4, <1>5, <2>7, <2>8, <2>9, StayInv1
<1> QED
  BY <1>1, <1>2, <1>6, <1>7

LEMMA ResetChainInv1 ==
  ASSUME Inv1, ResetChain
  PROVE  /\ Inv1' /\ Kind = "reset" /\ Head(queue).of \in Block
<1>0. Db /\ Rest1 /\ Others
  BY Inv1Is
<1> DEFINE b == Head(queue).of
<1>1. /\ queue # <<>> /\ Head(queue).kind = "reset" /\ work = <<>> /\ run.stage = "start"
      /\ tip' = tip /\ goal' = goal /\ locker' = locker /\ announced' = announced
      /\ height' = height /\ hashes' = hashes /\ txdb' = txdb
      /\ work' = work /\ extras' = extras /\ cut' = cut
      /\ \/ Height[b] >= height /\ Finish /\ torn' = (torn \/ Ahead(b))
         \/ Height[b] < height /\ Back(Height[b], Above(Height[b])) /\ queue' = queue /\ torn' = torn
  BY DEF ResetChain, First, chain, sync
<1>2. /\ Kind = "reset" /\ queue \in Seq(Request) /\ b \in Block
  BY <1>1, FirstIs1 DEF WellAsked
<1>3. locker # "scan" /\ (Outstanding => locker = "event")
  BY <1>0, <1>1, <1>2 DEF Rest1, StageInv, QueueInv
<1>4. Others'
  <2>1. torn' \in BOOLEAN
    <3>1. CASE torn' = (torn \/ Ahead(b))
      BY <3>1, Zenon
    <3> QED
      BY <1>0, <1>1, <3>1 DEF Others
  <2> QED
    BY <1>0, <1>1, <2>1 DEF Others
<1>5. HeightInv'
  BY <1>0, <1>1 DEF Rest1, HeightInv
<1>6. CASE Finish
  <2>1. Outstanding' => locker' = "event"
    BY <1>0, <1>1, <1>2, <1>3, <1>6, NotOutstanding DEF Rest1, Finish
  <2> QED
    BY <1>0, <1>1, <1>2, <1>3, <1>4, <1>5, <1>6, <2>1, FinishInv1 DEF Rest1
<1>7. CASE Height[b] < height /\ Back(Height[b], Above(Height[b])) /\ queue' = queue
  <2>1. height \in Nat /\ Height[b] \in Nat
    BY <1>0, <1>2, HeightsNat, HeightIn DEF Rest1
  <2>2. Height[b] \in 0..(height - 1)
    BY <1>7, <2>1
  <2>3. /\ run'.stage = "back" /\ run'.block = hashes[Height[b]] /\ run'.rest = <<>>
        /\ run'.left = Above(Height[b]) \cap mapped /\ run' \in Job
        /\ hashes[Height[b]] \in Block /\ Height[hashes[Height[b]]] = Height[b]
    BY <1>7, <2>2, BackIs
  <2>4. Kind' = "reset" /\ Head(queue').of = b
    BY <1>1, <1>2, <1>7 DEF Kind
  <2>5. \A n \in run'.left : n > Height[run'.block]
    BY <2>3, AboveIs
  <2>6. BackInv'
    BY <1>1, <1>7, <2>2, <2>3, <2>4, <2>5 DEF BackInv
  <2>7. StageInv'
    BY <1>1, <1>3, <1>7, <2>3, <2>4, <2>6 DEF StageInv, AddingInv
  <2>8. /\ queue' = queue /\ txdb' = txdb /\ work' = work /\ work = <<>> /\ run' \in Job
        /\ run'.left \subseteq mapped \cup run.left /\ (Outstanding => locker' = "event")
    BY <1>1, <1>3, <1>7, <2>3
  <2>9. height' \in Heights /\ hashes' \in [0..height' -> Block]
    BY <1>0, <1>1 DEF Rest1
  <2> QED
    BY <1>2, <1>4, <1>5, <2>7, <2>8, <2>9, StayInv1
<1> QED
  BY <1>1, <1>2, <1>6, <1>7

LEMMA ScanInv1 ==
  ASSUME Inv1, Rescan \/ SyncNode
  PROVE  /\ Inv1' /\ Kind \in {"rescan", "sync"} /\ locker # "scan"
<1>0. Db /\ Rest1 /\ Others
  BY Inv1Is
<1>1. /\ queue # <<>> /\ Head(queue).kind \in {"rescan", "sync"} /\ work = <<>> /\ run.stage = "start"
      /\ tip' = tip /\ goal' = goal /\ locker' = locker /\ announced' = announced
      /\ height' = height /\ hashes' = hashes /\ txdb' = txdb /\ queue' = queue
      /\ work' = work /\ extras' = extras /\ cut' = cut
  BY DEF Rescan, SyncNode, First, chain, sync
<1>2. PICK h \in 0..height : Scan(h)
  BY SyncHeightIs DEF Rescan, SyncNode
<1>3. locker # "scan" /\ (Outstanding => locker = "event")
  BY <1>0, <1>1 DEF Rest1, StageInv, QueueInv
<1>4. Kind \in {"rescan", "sync"} /\ Kind' = Kind
  BY <1>1 DEF Kind
<1>5. CASE h = height /\ run' = Waiting /\ torn' = (torn \/ Ahead(tip))
  <2>1. torn' \in BOOLEAN
    BY <1>5, Zenon
  <2>2. Others'
    BY <1>0, <1>1, <2>1 DEF Others
  <2>3. run'.stage = "wait" /\ run'.left = {} /\ run' \in Job
    BY <1>5, Jobs
  <2>4. StageInv'
    BY <1>1, <1>3, <1>4, <2>3 DEF StageInv, AddingInv, BackInv
  <2>5. HeightInv'
    BY <1>0, <1>1 DEF Rest1, HeightInv
  <2> QED
    BY <1>0, <1>1, <1>3, <1>4, <2>2, <2>3, <2>4, <2>5, StayInv1 DEF Rest1
<1>6. CASE h # height /\ Back(h, Above(h)) /\ torn' = torn
  <2>1. height \in Nat
    BY <1>0, HeightsNat DEF Rest1
  <2>2. h \in 0..(height - 1)
    BY <1>6, <2>1
  <2>3. /\ run'.stage = "back" /\ run'.block = hashes[h] /\ run'.rest = <<>>
        /\ run'.left = Above(h) \cap mapped /\ run' \in Job
        /\ hashes[h] \in Block /\ Height[hashes[h]] = h
    BY <1>6, <2>2, BackIs
  <2>5. \A n \in run'.left : n > Height[run'.block]
    BY <2>3, AboveIs
  <2>6. BackInv'
    BY <1>1, <1>4, <2>2, <2>3, <2>5 DEF BackInv
  <2>7. StageInv'
    BY <1>1, <1>3, <1>4, <2>3, <2>6 DEF StageInv, AddingInv
  <2>8. Others'
    BY <1>0, <1>1, <1>6 DEF Others
  <2>9. HeightInv'
    BY <1>0, <1>1 DEF Rest1, HeightInv
  <2> QED
    BY <1>0, <1>1, <1>3, <1>4, <2>3, <2>7, <2>8, <2>9, StayInv1 DEF Rest1
<1> QED
  BY <1>2, <1>5, <1>6 DEF Scan

LEMMA WentBackInv1 ==
  ASSUME Inv1, WentBack
  PROVE  /\ Inv1' /\ Kind \in {"disconnect", "reset", "rescan", "sync"}
         /\ \E h \in 0..(height - 1) : run.block = hashes[h] /\ height' = h
         /\ run.block \in Block /\ height' = Height[run.block] /\ hashes'[height'] = run.block
         /\ \A h \in 0..height' : h # height' => h \in 0..height /\ hashes'[h] = hashes[h]
<1>0. Db /\ Rest1 /\ Others
  BY Inv1Is
<1>1. /\ run.stage = "back" /\ run.left = {} /\ work = <<>>
      /\ tip' = tip /\ goal' = goal /\ locker' = locker /\ announced' = announced
      /\ txdb' = txdb /\ SetTip(run.block)
      /\ work' = work /\ extras' = extras /\ torn' = torn /\ cut' = cut
      /\ IF Head(queue).kind \in {"rescan", "sync"} THEN run' = Waiting /\ queue' = queue ELSE Finish
  BY DEF WentBack, chain
<1>2. /\ Kind \in {"disconnect", "reset", "rescan", "sync"} /\ queue # <<>> /\ locker # "scan"
      /\ \E h \in 0..(height - 1) : run.block = hashes[h]
      /\ (Outstanding => locker = "event")
  BY <1>0, <1>1 DEF Rest1, StageInv, BackInv, QueueInv
<1>3. PICK h \in 0..(height - 1) : run.block = hashes[h]
  BY <1>2
<1>4. /\ height \in Nat /\ h \in 0..height /\ run.block \in Block /\ Height[run.block] = h
  <2>1. height \in Nat /\ hashes \in [0..height -> Block] /\ HeightInv
    BY <1>0, HeightsNat DEF Rest1
  <2>2. h \in 0..height
    BY <2>1
  <2> QED
    BY <1>3, <2>1, <2>2 DEF HeightInv
<1>5. /\ height' \in Heights /\ hashes' \in [0..height' -> Block] /\ HeightInv'
      /\ height' = Height[run.block] /\ hashes'[height'] = run.block
      /\ \A n \in 0..height' : n # height' => n \in 0..height /\ hashes'[n] = hashes[n]
  <2>1. Height[run.block] <= height + 1
    BY <1>4
  <2> QED
    BY <1>1, <1>4, <2>1, TipSet
<1>6. Others'
  BY <1>0, <1>1 DEF Others
<1>7. CASE Finish
  <2>1. Outstanding' => locker' = "event"
    BY <1>0, <1>1, <1>2, <1>7, NotOutstanding DEF Rest1, Finish
  <2>2. Inv1'
    BY <1>1, <1>2, <1>5, <1>6, <1>7, <2>1, FinishInv1
  <2> QED
    BY <1>2, <1>3, <1>4, <1>5, <2>2
<1>8. CASE Head(queue).kind \in {"rescan", "sync"} /\ run' = Waiting /\ queue' = queue
  <2>1. run'.stage = "wait" /\ run'.left = {} /\ run' \in Job
    BY <1>8, Jobs
  <2>2. Kind' \in {"rescan", "sync"} /\ Kind' = Kind
    BY <1>2, <1>8 DEF Kind
  <2>3. StageInv'
    BY <1>1, <1>2, <1>8, <2>1, <2>2 DEF StageInv, AddingInv, BackInv
  <2>4. /\ run'.left \subseteq mapped \cup run.left /\ (Outstanding => locker' = "event")
    BY <1>1, <1>2, <2>1
  <2>5. Inv1'
    BY <1>1, <1>5, <1>6, <1>8, <2>1, <2>3, <2>4, StayInv1
  <2> QED
    BY <1>2, <1>3, <1>4, <1>5, <2>5
<1> QED
  BY <1>1, <1>7, <1>8

LEMMA RevertBlockInv1 ==
  ASSUME Inv1, RevertBlock
  PROVE  /\ Inv1' /\ run.stage = "back" /\ run'.stage = "back" /\ run'.block = run.block
         /\ \E h \in Heights : /\ h \in run.left /\ \A n \in run.left : n <= h
                               /\ h > Height[run.block] /\ work' = Undoing(h)
                               /\ run'.left = run.left \ {h}
<1>0. Db /\ Rest1 /\ Others
  BY Inv1Is
<1>1. /\ run.left # {} /\ work = <<>> /\ work' = Undoing(Max(run.left))
      /\ run' = [run EXCEPT !.left = @ \ {Max(run.left)}]
      /\ tip' = tip /\ goal' = goal /\ locker' = locker /\ announced' = announced
      /\ height' = height /\ hashes' = hashes /\ txdb' = txdb /\ queue' = queue
      /\ extras' = extras /\ torn' = torn /\ cut' = cut
  BY DEF RevertBlock, chain, sync
<1>2. run.stage = "back" /\ BackInv /\ run.left \subseteq Heights
  BY <1>0, <1>1 DEF Rest1, StageInv, Job
<1>3. PICK h \in Heights : h = Max(run.left) /\ h \in run.left /\ \A n \in run.left : n <= h /\ n \in Nat
  BY <1>1, <1>2, MaxLeft
<1>4. /\ run'.stage = "back" /\ run'.block = run.block /\ run'.left = run.left \ {h} /\ run' \in Job
  BY <1>0, <1>1, <1>2, <1>3 DEF Rest1, Job
<1>5. h > Height[run.block] /\ (Kind = "disconnect" => h = height)
  BY <1>2, <1>3 DEF BackInv
<1>6. \A n \in run'.left : n < h
  <2>1. h \in Nat
    BY <1>3
  <2> QED
    BY <1>3, <1>4, <2>1
<1>7. work' = Undoing(h) /\ work' \in Seq(Batches)
  BY <1>0, <1>1, <1>3, UndoingIs DEF Db
<1>8. Kind' = Kind /\ Undoing(h)' = Undoing(h)
  BY <1>1 DEF Kind, Undoing, txdb
<1>9. WorkInv'
  <2>1. CASE work' = <<>>
    BY <2>1 DEF WorkInv
  <2>2. CASE work' # <<>>
    <3>1. Undoes(h)'
      BY <1>7, <1>8, <2>2 DEF Undoes
    <3>2. UndoWork'
      BY <1>1, <1>4, <1>5, <1>6, <1>8, <3>1 DEF UndoWork
    <3> QED
      BY <3>2 DEF WorkInv
  <2> QED
    BY <2>1, <2>2
<1>10. Others'
  BY <1>0, <1>1 DEF Others
<1>11. QueueInv' /\ HeightInv'
  BY <1>0, <1>1 DEF Rest1, QueueInv, Outstanding, WellAsked, HeightInv
<1>12. StageInv'
  <2>1. BackInv'
    BY <1>1, <1>2, <1>4, <1>8 DEF BackInv
  <2> QED
    BY <1>0, <1>1, <1>2, <1>4, <1>8, <2>1 DEF Rest1, StageInv, AddingInv
<1>13. Inv1'
  <2>1. run'.left \subseteq mapped \cup run.left
    BY <1>4
  <2>2. queue' \in Seq(Request) /\ height' \in Heights /\ hashes' \in [0..height' -> Block]
    BY <1>0, <1>1 DEF Rest1
  <2> QED
    BY <1>1, <1>4, <1>7, <1>9, <1>10, <1>11, <1>12, <2>1, <2>2, StepKeeps
<1> QED
  BY <1>2, <1>3, <1>4, <1>5, <1>7, <1>13

LEMMA ScanStartInv1 ==
  ASSUME Inv1, ScanStart
  PROVE  Inv1' /\ ~Outstanding /\ Kind \in {"rescan", "sync"}
<1>0. Db /\ Rest1 /\ Others
  BY Inv1Is
<1>1. /\ run.stage = "wait" /\ work = <<>> /\ locker = "free"
      /\ tip' = tip /\ goal' = goal /\ announced' = announced
      /\ height' = height /\ hashes' = hashes /\ txdb' = txdb
      /\ work' = work /\ extras' = extras /\ torn' = torn
      /\ \/ /\ hashes[height] \in Main
            /\ locker' = "scan" /\ run' = Scanning(hashes[height])
            /\ queue' = queue /\ cut' = cut
         \/ /\ hashes[height] \notin Main
            /\ Finish /\ cut' = TRUE /\ locker' = locker
  BY DEF ScanStart, sync
<1>2. ~Outstanding /\ queue # <<>> /\ Kind \in {"connect", "rescan", "sync"}
  BY <1>0, <1>1 DEF Rest1, StageInv, QueueInv
<1>3. Kind \in {"rescan", "sync"}
  BY <1>2, EventFirst DEF Events
<1>4. Others' /\ HeightInv'
  BY <1>0, <1>1 DEF Others, Rest1, HeightInv
<1>5. CASE Finish /\ locker' = locker
  <2>1. Outstanding' => locker' = "event"
    BY <1>0, <1>2, <1>5, NotOutstanding DEF Rest1, Finish
  <2>2. Inv1'
    BY <1>0, <1>1, <1>2, <1>4, <1>5, <2>1, FinishInv1 DEF Rest1
  <2> QED
    BY <1>2, <1>3, <2>2
<1>6. CASE locker' = "scan" /\ run' = Scanning(hashes[height]) /\ queue' = queue
  <2>1. hashes[height] \in Block
    <3>1. height \in Nat /\ hashes \in [0..height -> Block]
      BY <1>0, HeightsNat DEF Rest1
    <3> QED
      BY <3>1
  <2>2. run'.stage = "scan" /\ run'.left = {} /\ run' \in Job
    BY <1>6, <2>1, Jobs
  <2>3. Kind' \in {"rescan", "sync"}
    BY <1>3, <1>6 DEF Kind
  <2>4. StageInv'
    BY <1>2, <1>6, <2>2, <2>3 DEF StageInv, AddingInv, BackInv
  <2>5. Inv1'
    BY <1>0, <1>1, <1>2, <1>4, <1>6, <2>2, <2>4, StayInv1 DEF Rest1
  <2> QED
    BY <1>2, <1>3, <2>5
<1> QED
  BY <1>1, <1>5, <1>6

LEMMA ScanBlockInv1 ==
  ASSUME Inv1, ScanBlock
  PROVE  Inv1' /\ run.block \in Block /\ Kind \in {"rescan", "sync"} /\ locker = "scan"
<1>0. Db /\ Rest1 /\ Others
  BY Inv1Is
<1>1. /\ run.stage = "scan" /\ run.block # NoBlock /\ work = <<>>
      /\ run' = IF Height[run.block] \in {height, height + 1} THEN Adding(run.block)
                ELSE Scanning(After(run.block))
      /\ tip' = tip /\ goal' = goal /\ locker' = locker /\ announced' = announced
      /\ height' = height /\ hashes' = hashes /\ txdb' = txdb /\ queue' = queue
      /\ work' = work /\ extras' = extras /\ torn' = torn /\ cut' = cut
  BY DEF ScanBlock, chain, sync
<1>2. /\ Kind \in {"rescan", "sync"} /\ locker = "scan" /\ queue # <<>> /\ Kind' = Kind
      /\ run.block \in Block /\ (Outstanding => locker = "event")
  BY <1>0, <1>1 DEF Rest1, StageInv, Job, Kind, QueueInv
<1>3. Others' /\ HeightInv'
  BY <1>0, <1>1 DEF Others, Rest1, HeightInv
<1>4. CASE Height[run.block] \in {height, height + 1} /\ run' = Adding(run.block)
  <2> DEFINE b == run.block
  <2>1. /\ run'.stage = "adding" /\ run'.block = b /\ run'.rest = BlockTxs[b] /\ run'.left = {}
        /\ run' \in Job
    BY <1>2, <1>4, Jobs
  <2>2. BlockTxs[b] \in Seq(Tx)
    BY <1>2, TxTypes
  <2>3. InBlock'
    <3>1. Done' = 0
      BY <2>1, <2>2 DEF Done
    <3>2. \A i \in 1..Len(BlockTxs[b]) : BlockTxs[b][i] = BlockTxs[b][Done' + i]
      BY <3>1, <2>2
    <3>3. Len(run'.rest) <= Len(BlockTxs[run'.block])
      BY <2>1, <2>2
    <3> QED
      BY <1>1, <1>2, <1>4, <2>1, <3>2, <3>3 DEF InBlock
  <2>4. StageInv'
    BY <1>1, <1>2, <2>1, <2>3 DEF StageInv, AddingInv, BackInv
  <2>5. Inv1'
    BY <1>0, <1>1, <1>2, <1>3, <2>1, <2>4, StayInv1 DEF Rest1
  <2> QED
    BY <1>2, <2>5
<1>5. CASE run' = Scanning(After(run.block))
  <2>1. After(run.block) \in Block \cup {NoBlock}
    BY <1>0, MainIs DEF Others
  <2>2. run'.stage = "scan" /\ run'.left = {} /\ run' \in Job
    BY <1>5, <2>1, Jobs
  <2>3. StageInv'
    BY <1>1, <1>2, <2>2 DEF StageInv, AddingInv, BackInv
  <2>4. Inv1'
    BY <1>0, <1>1, <1>2, <1>3, <2>2, <2>3, StayInv1 DEF Rest1
  <2> QED
    BY <1>2, <2>4
<1> QED
  BY <1>1, <1>4, <1>5

LEMMA LeaveInv1 ==
  ASSUME Inv1, ScanEnd \/ Abort
  PROVE  /\ Inv1' /\ Kind \in {"rescan", "sync"} /\ locker = "scan" /\ ~Outstanding
         /\ queue # <<>> /\ queue' = Tail(queue) /\ run' = NoJob
<1>0. Db /\ Rest1 /\ Others
  BY Inv1Is
<1>1. /\ run.stage = "scan" /\ locker' = "free" /\ Finish
      /\ tip' = tip /\ goal' = goal /\ announced' = announced
      /\ height' = height /\ hashes' = hashes /\ txdb' = txdb
      /\ work' = work /\ extras' = extras
  BY DEF ScanEnd, Abort, sync
<1>2. /\ Kind \in {"rescan", "sync"} /\ locker = "scan" /\ queue # <<>> /\ ~Outstanding
  BY <1>0, <1>1 DEF Rest1, StageInv, QueueInv
<1>3. torn' \in BOOLEAN /\ cut' \in BOOLEAN
  <2>1. CASE ScanEnd
    BY <1>0, <2>1 DEF ScanEnd, Others
  <2>2. CASE Abort
    <3>1. torn' = (torn \/ Behind) /\ cut' = TRUE
      BY <2>2 DEF Abort
    <3>2. torn' \in BOOLEAN
      BY <3>1, Zenon
    <3> QED
      BY <3>1, <3>2
  <2> QED
    BY <2>1, <2>2
<1>4. Others' /\ HeightInv'
  BY <1>0, <1>1, <1>3 DEF Others, Rest1, HeightInv
<1>5. Outstanding' => locker' = "event"
  BY <1>0, <1>1, <1>2, NotOutstanding DEF Rest1, Finish
<1>6. Inv1'
  BY <1>0, <1>1, <1>2, <1>4, <1>5, FinishInv1 DEF Rest1
<1> QED
  BY <1>1, <1>2, <1>6 DEF Finish

LEMMA InitInv1 == Init => Inv1
<1> HAVE Init
<1>1. /\ Start \in Block /\ Height[Start] \in Heights /\ Height[Start] \in Nat
  BY WalletAssumption, HeightIn
<1>2. /\ TxDBInit /\ tip = Start /\ goal = Start /\ locker = "free" /\ announced = {}
      /\ height = Height[Start]
      /\ hashes = [h \in 0..height |-> CHOOSE b \in Anc[Start] : Height[b] = h]
      /\ queue = <<>> /\ run = NoJob /\ work = <<>>
      /\ extras = 0 /\ torn = FALSE /\ cut = FALSE
  BY DEF Init
<1>3. \A h \in 0..height : hashes[h] \in Block /\ Height[hashes[h]] = h
  <2> TAKE h \in 0..height
  <2>1. \E a \in Anc[Start] : Height[a] = h
    BY <1>1, <1>2, AtHeight
  <2>2. hashes[h] = CHOOSE b \in Anc[Start] : Height[b] = h
    BY <1>2
  <2>3. hashes[h] \in Anc[Start] /\ Height[hashes[h]] = h
    BY <2>1, <2>2
  <2> QED
    BY <1>1, <2>3, Lines
<1>4. hashes \in [0..height -> Block]
  <2>1. hashes = [h \in 0..height |-> hashes[h]]
    BY <1>2
  <2> QED
    BY <1>3, <2>1
<1>5. TxDBTypeOK
  <2>1. NoTx \in Tx \cup {NoTx} /\ <<>> \in Seq(Tx)
    OBVIOUS
  <2> QED
    BY <1>2, <2>1 DEF TxDBInit, TxDBTypeOK
<1>6. SpentInv /\ BlocksInv /\ RecordInv
  BY <1>2, TxDBAssumption DEF TxDBInit, SpentInv, BlocksInv, RecordInv, Mined
<1>7. Rest1
  <2>1. queue \in Seq(Request) /\ work \in Seq(Batches) /\ run \in Job
    BY <1>2, Jobs, EmptySeq
  <2>2. BoundInv
    BY <1>2, Jobs DEF BoundInv, TxDBInit
  <2>3. QueueInv
    BY <1>2 DEF QueueInv, Outstanding
  <2>4. StageInv
    BY <1>2, Jobs DEF StageInv, AddingInv, BackInv
  <2>5. WorkInv
    BY <1>2 DEF WorkInv
  <2> QED
    BY <1>1, <1>2, <1>3, <1>4, <2>1, <2>2, <2>3, <2>4, <2>5 DEF Rest1, HeightInv
<1>8. Others
  <2>1. extras \in 0..MaxExtras
    BY <1>2, WalletAssumption
  <2>2. torn \in BOOLEAN /\ cut \in BOOLEAN /\ announced \subseteq Tx
    BY <1>2
  <2> QED
    BY <1>1, <1>2, <2>1, <2>2 DEF Others
<1> QED
  BY <1>5, <1>6, <1>7, <1>8, Inv1Is DEF Db

LEMMA NextInv1 == Inv1 /\ [Next]_vars => Inv1'
<1> SUFFICES ASSUME Inv1, [Next]_vars PROVE Inv1'
  OBVIOUS
<1>1. CASE UNCHANGED vars
  <2>1. Db' /\ Others' /\ Rest1'
    <3>0. Db /\ Rest1 /\ Others
      BY Inv1Is
    <3>1. /\ tip' = tip /\ goal' = goal /\ locker' = locker /\ announced' = announced
          /\ height' = height /\ hashes' = hashes /\ txdb' = txdb /\ queue' = queue /\ run' = run
          /\ work' = work /\ extras' = extras /\ torn' = torn /\ cut' = cut /\ mapped' = mapped
      BY <1>1 DEF vars, chain, sync, txdb
    <3>2. Db' /\ Others'
      BY <3>0, <3>1, DbKept DEF Others
    <3>3. WorkInv'
      BY <3>0, <3>1, WorkKept DEF Rest1, Kind
    <3>4. QueueInv' /\ HeightInv' /\ BoundInv'
      BY <3>0, <3>1 DEF Rest1, QueueInv, Outstanding, WellAsked, HeightInv, BoundInv
    <3>5. StageInv'
      <4>1. AddingInv'
        BY <3>0, <3>1 DEF Rest1, StageInv, AddingInv, InBlock, Done, Kind
      <4>2. BackInv'
        BY <3>0, <3>1 DEF Rest1, StageInv, BackInv, Kind
      <4> QED
        BY <3>0, <3>1, <4>1, <4>2 DEF Rest1, StageInv, Kind, NoJob
    <3> QED
      BY <3>0, <3>1, <3>2, <3>3, <3>4, <3>5 DEF Rest1
  <2> QED
    BY <2>1, Inv1Next
<1>2. CASE WalletStep
  BY <1>2, InsertInv1, ConfirmInv1, EraseInv1, DisconnectInv1, AddTXInv1, AddedTXInv1, AddBlockInv1,
     AddBlockTXInv1, AddedBlockInv1, RemoveBlockInv1, ResetChainInv1, ScanInv1, RevertBlockInv1,
     WentBackInv1, ScanStartInv1, ScanBlockInv1, LeaveInv1 DEF WalletStep
<1>3. CASE ChainStep \/ AskRescan \/ (\E t \in Tx : Announce(t)) \/ \E b \in Block : SetBest(b) \/ Reset(b)
  BY <1>3, ChainInv1
<1>4. CASE Abort \/ Crash \/ \E t \in Tx : RemoveTX(t)
  BY <1>4, LeaveInv1, CrashInv1, RemoveInv1
<1> QED
  BY <1>1, <1>2, <1>3, <1>4 DEF Next, Asked

\* The records, the queue and the job that runs have their types, for any blocks
\* and transactions: no height above the chain's, nothing but blocks and
\* transactions in the records, and at the head of the batches what the job asked.
THEOREM TypeCorrect == Spec => []TypeOK
<1>1. Inv1 => TypeOK
  BY DEF Inv1
<1> QED
  BY InitInv1, NextInv1, <1>1, PTL DEF Spec

----------------------------------------------------------------------------
\* The chain and the wallet: a trail T has, for each request of the queue, the
\* tip the chain had before it, and last the tip it has.

Clean(t, b) == \A a \in Anc[b] : t \notin TxsOf(a) /\ Rivals(t) \cap TxsOf(a) = {}

Step(r, from, to) ==
  /\ r.kind = "connect" => r.of # Genesis /\ from = Parent[r.of] /\ to = r.of
  /\ r.kind = "disconnect" => from # Genesis /\ from = r.of /\ to = Parent[r.of]
  /\ r.kind = "reset" => to = r.of /\ to \in Anc[from]
  /\ r.kind \in {"tx", "rescan", "sync"} => to = from
  /\ r.kind = "tx" => Clean(r.of, from)

TrailInv(T) ==
  /\ T \in Seq(Block) /\ Len(T) = Len(queue) + 1 /\ T[Len(T)] = tip
  /\ \A i \in 1..Len(queue) : Step(queue[i], T[i], T[i + 1])

ValidInv(T) ==
  /\ FullyValid(goal) /\ FullyValid(W)
  /\ \A i \in 1..Len(T) : FullyValid(T[i])

PathInv == \A h \in 0..height : hashes[h] \in Anc[W]

JobInv ==
  /\ run.stage = "adding" /\ Kind # "tx" => run.block = W \/ Parent[run.block] = W
  /\ run.stage = "adding" /\ Kind \in {"rescan", "sync"} => run.block \in Main
  /\ run.stage = "back" =>
       /\ Kind = "disconnect" => Head(queue).of = W
       /\ Kind = "reset" => run.block = Head(queue).of
  /\ run.stage = "scan" =>
       IF run.block = NoBlock THEN W = tip
       ELSE run.block \in Main /\ (run.block = W \/ Parent[run.block] = W)
  /\ locker = "scan" => W \in Main

Lost == Kind = "sync" /\ run.stage = "start"
Stuck == Kind = "sync" /\ run.stage \in {"back", "wait"} /\ Outstanding

KnownInv(T) ==
  \/ Lost \/ Stuck
  \/ IF Kind = "sync" /\ run.stage = "back" THEN run.block \in Anc[T[1]] ELSE W \in Anc[T[1]]

Quiet(from, to) == \A j \in from..to : queue[j].kind \notin Events

CaughtInv(T) ==
  \/ cut \/ Kind = "sync" \/ (Kind = "rescan" /\ run.stage # "start")
  \/ \E i \in 1..Len(T) : T[i] = W /\ Quiet(1, i - 1)

C(T) == TrailInv(T) /\ ValidInv(T) /\ PathInv /\ JobInv /\ KnownInv(T) /\ CaughtInv(T)

LEMMA WIs ==
  ASSUME Inv1
  PROVE  /\ height \in Nat /\ hashes \in [0..height -> Block] /\ W \in Block /\ Height[W] = height
         /\ \A h \in 0..height : hashes[h] \in Block /\ Height[hashes[h]] = h
         /\ tip \in Block /\ goal \in Block /\ queue \in Seq(Request) /\ Len(queue) \in Nat
         /\ run.block \in Block \cup {NoBlock} /\ NoBlock \notin Block
<1>1. height \in Nat /\ hashes \in [0..height -> Block] /\ HeightInv
  BY HeightsNat DEF Inv1, TypeOK
<1>2. height \in 0..height
  BY <1>1
<1>3. tip \in Block /\ goal \in Block /\ queue \in Seq(Request)
  BY DEF Inv1, TypeOK
<1>4. run.block \in Block \cup {NoBlock}
  BY DEF Inv1, TypeOK
<1>5. NoBlock \notin Block
  BY TreeAssumption
<1>6. \A h \in 0..height : hashes[h] \in Block /\ Height[hashes[h]] = h
  BY <1>1 DEF HeightInv
<1>7. W \in Block /\ Height[W] = height
  BY <1>2, <1>6 DEF W
<1>8. Len(queue) \in Nat
  BY <1>3
<1> QED
  BY <1>1, <1>3, <1>4, <1>5, <1>6, <1>7, <1>8

\* The first request, and what it does to the chain.
LEMMA HeadStep ==
  ASSUME Inv1, NEW T, TrailInv(T), ValidInv(T), queue # <<>>
  PROVE  /\ T[1] \in Block /\ T[2] \in Block /\ Step(Head(queue), T[1], T[2])
         /\ 1 \in 1..Len(T) /\ 2 \in 1..Len(T) /\ Len(T) \in Nat
         /\ FullyValid(T[1]) /\ FullyValid(T[2])
<1>1. Head(queue) = queue[1] /\ 1 \in 1..Len(queue) /\ Len(queue) \in Nat
  BY FirstIs1, WIs
<1>2. T \in Seq(Block) /\ Len(T) = Len(queue) + 1
  BY DEF TrailInv
<1>3. 1 \in 1..Len(T) /\ 2 \in 1..Len(T)
  BY <1>1, <1>2
<1>4. Step(queue[1], T[1], T[1 + 1])
  BY <1>1 DEF TrailInv
<1> QED
  BY <1>1, <1>2, <1>3, <1>4 DEF ValidInv

\* While no event waits, the chain only ever went back.
LEMMA QuietTrail ==
  ASSUME Inv1, NEW T, TrailInv(T), ~Outstanding
  PROVE  \A i \in 1..Len(T) : tip \in Anc[T[i]]
<1> SUFFICES ASSUME \E i \in 1..Len(T) : tip \notin Anc[T[i]] PROVE FALSE
  OBVIOUS
<1> DEFINE S == {i \in 1..Len(T) : tip \notin Anc[T[i]]}
<1>1. T \in Seq(Block) /\ Len(T) = Len(queue) + 1 /\ Len(queue) \in Nat /\ tip \in Block
  BY WIs DEF TrailInv
<1>2. S \in SUBSET Nat /\ S # {} /\ Len(T) \in Nat /\ \A x \in S : x <= Len(T)
  BY <1>1
<1>3. PICK m \in S : \A x \in S : x <= m
  <2> HIDE DEF S
  <2> QED
    BY <1>2, Bounded
<1>4. m # Len(T)
  BY <1>1, <1>3, Lines DEF TrailInv
<1>5. m \in 1..Len(queue) /\ m + 1 \in 1..Len(T) /\ m + 1 \notin S
  BY <1>1, <1>3, <1>4
<1>6. tip \in Anc[T[m + 1]] /\ T[m] \in Block /\ T[m + 1] \in Block
  BY <1>1, <1>5
<1>7. Step(queue[m], T[m], T[m + 1])
  BY <1>5 DEF TrailInv
<1>8. queue[m].kind \in {"reset", "rescan", "sync", "tx"}
  <2>1. queue[m] \in Request
    BY <1>5, WIs
  <2>2. queue[m].kind \notin {"connect", "disconnect"}
    BY <1>5 DEF Outstanding
  <2> QED
    BY <2>1, <2>2 DEF Request
<1>9. T[m + 1] \in Anc[T[m]]
  BY <1>6, <1>7, <1>8, Lines DEF Step
<1>10. tip \in Anc[T[m]]
  BY <1>6, <1>9, Lines
<1> QED
  BY <1>3, <1>10

\* The steps of the records, and those that only move the job on.
LEMMA CKept ==
  ASSUME NEW T, C(T), UNCHANGED <<tip, goal, locker, height, hashes, queue>>, cut => cut',
         run'.stage = run.stage, run'.block = run.block
  PROVE  C(T)'
<1>1. Kind' = Kind /\ W' = W /\ Main' = Main /\ Outstanding' = Outstanding
  BY DEF Kind, W, Main, Outstanding
<1>2. TrailInv(T)' /\ ValidInv(T)' /\ PathInv'
  BY <1>1 DEF C, TrailInv, ValidInv, PathInv
<1>3. JobInv'
  BY <1>1 DEF C, JobInv
<1>4. KnownInv(T)'
  BY <1>1 DEF C, KnownInv, Lost, Stuck
<1>5. CaughtInv(T)'
  BY <1>1 DEF C, CaughtInv, Quiet
<1> QED
  BY <1>2, <1>3, <1>4, <1>5 DEF C

\* A request is asked.
LEMMA CAppended ==
  ASSUME Inv1, NEW T, C(T), NEW r, WellAsked(r), r.kind # "sync",
         Outstanding => r.kind \in {"tx", "rescan"}, r.kind \in Events => locker = "event",
         queue' = Append(queue, r), UNCHANGED <<locker, height, hashes, run, cut>>,
         tip' \in Block, FullyValid(tip'), FullyValid(goal'), Step(r, tip, tip'),
         locker = "scan" => tip' = tip, NEW U, U = Append(T, tip')
  PROVE  C(U)'
<1> DEFINE n == Len(queue)
<1>1. T \in Seq(Block) /\ Len(T) = n + 1 /\ n \in Nat /\ queue \in Seq(Request) /\ T[n + 1] = tip
  BY WIs DEF C, TrailInv
<1>2. /\ U \in Seq(Block) /\ Len(U) = n + 2 /\ U[n + 2] = tip'
      /\ \A i \in 1..(n + 1) : U[i] = T[i]
  BY <1>1
<1>3. /\ Len(queue') = n + 1 /\ queue'[n + 1] = r
      /\ \A i \in 1..n : queue'[i] = queue[i]
      /\ queue # <<>> => Head(queue') = Head(queue) /\ Kind' = Kind
      /\ Kind' # "sync" \/ Kind = "sync"
  <2>1. /\ Len(queue') = n + 1 /\ queue'[n + 1] = r
        /\ \A i \in 1..n : queue'[i] = queue[i]
        /\ queue # <<>> => Head(queue') = Head(queue) /\ Kind' = Kind
    BY QueueAppended DEF Inv1, TypeOK
  <2>2. queue = <<>> => Kind' = r.kind
    BY DEF Kind
  <2> QED
    BY <2>1, <2>2 DEF Kind
<1>4. W' = W /\ run' = run /\ height' = height /\ hashes' = hashes
  BY DEF W
<1> HIDE DEF n
<1>5. TrailInv(U)'
  <2>1. \A i \in 1..(n + 1) : Step(queue'[i], U[i], U[i + 1])
    <3> TAKE i \in 1..(n + 1)
    <3>1. CASE i = n + 1
      <4>1. U[i] = tip /\ U[i + 1] = tip' /\ queue'[i] = r
        BY <1>1, <1>2, <1>3, <3>1
      <4> QED
        BY <4>1
    <3>2. CASE i # n + 1
      <4>1. i \in 1..n /\ i + 1 \in 1..(n + 1) /\ i \in 1..(n + 1)
        BY <1>1, <3>2
      <4>2. Step(queue[i], T[i], T[i + 1])
        BY <4>1 DEF C, TrailInv, n
      <4> QED
        BY <1>2, <1>3, <4>1, <4>2
    <3> QED
      BY <3>1, <3>2
  <2> QED
    BY <1>1, <1>2, <1>3, <2>1 DEF TrailInv
<1>6. ValidInv(U)'
  <2>1. \A i \in 1..Len(U) : FullyValid(U[i])
    <3> TAKE i \in 1..Len(U)
    <3>1. i = n + 2 \/ (i \in 1..(n + 1) /\ i \in 1..Len(T))
      BY <1>1, <1>2
    <3> QED
      BY <1>2, <3>1 DEF C, ValidInv
  <2> QED
    BY <1>4, <2>1 DEF C, ValidInv
<1>7. PathInv'
  BY <1>4 DEF C, PathInv
<1>8. run.stage # "start" => queue # <<>>
  BY DEF Inv1, StageInv
<1>9. JobInv'
  <2>1. locker = "scan" => Main' = Main
    BY DEF Main
  <2>2. run.stage = "adding" /\ Kind \in {"rescan", "sync"} => locker = "scan"
    BY DEF Inv1, StageInv, AddingInv
  <2>3. run.stage = "scan" => locker = "scan"
    BY DEF Inv1, StageInv
  <2> QED
    BY <1>3, <1>4, <1>8, <2>1, <2>2, <2>3 DEF C, JobInv
<1>10. Outstanding => Outstanding'
  <2> HAVE Outstanding
  <2>1. PICK i \in 1..n : queue[i].kind \in {"connect", "disconnect"}
    BY DEF Outstanding, n
  <2>2. i \in 1..Len(queue') /\ queue'[i] = queue[i]
    BY <1>1, <1>3
  <2> QED
    BY <2>1, <2>2 DEF Outstanding
<1>11. KnownInv(U)'
  <2>1. U[1] = T[1]
    BY <1>1, <1>2
  <2>2. CASE queue = <<>>
    <3>1. Kind = "none" /\ Kind' # "sync"
      BY <1>3, <2>2 DEF Kind
    <3> QED
      BY <1>4, <2>1, <3>1 DEF C, KnownInv, Lost, Stuck
  <2>3. CASE queue # <<>>
    BY <1>3, <1>4, <1>10, <2>1, <2>3 DEF C, KnownInv, Lost, Stuck
  <2> QED
    BY <2>2, <2>3
<1>12. CaughtInv(U)'
  <2>1. CASE cut \/ Kind = "sync" \/ (Kind = "rescan" /\ run.stage # "start")
    <3>1. Kind # "none" => queue # <<>>
      BY DEF Kind
    <3> QED
      BY <1>3, <1>4, <2>1, <3>1 DEF CaughtInv
  <2>2. ASSUME NEW i \in 1..Len(T), T[i] = W, Quiet(1, i - 1)
        PROVE  CaughtInv(U)'
    <3>1. i \in 1..(n + 1) /\ i \in 1..Len(U) /\ U[i] = T[i]
      BY <1>1, <1>2
    <3>2. \A j \in 1..(i - 1) : queue'[j].kind \notin Events
      <4> TAKE j \in 1..(i - 1)
      <4>1. j \in 1..n
        BY <1>1, <3>1
      <4> QED
        BY <1>3, <2>2, <4>1 DEF Quiet
    <3> QED
      BY <1>4, <2>2, <3>1, <3>2 DEF CaughtInv, Quiet
  <2> QED
    BY <2>1, <2>2 DEF C, CaughtInv
<1>13. C(U)'
  BY <1>5, <1>6, <1>7, <1>9, <1>11, <1>12 DEF C
<1> QED
  BY <1>13

\* The first request is done.
LEMMA CFinished ==
  ASSUME Inv1, NEW T, C(T), queue # <<>>, Finish, UNCHANGED <<tip, goal>>, locker' # "scan",
         PathInv', FullyValid(W)', W' \in Anc[T[2]],
         cut' \/ \E i \in 2..Len(T) : T[i] = W' /\ Quiet(2, i - 1)
  PROVE  C(Tail(T))' /\ Kind' # "sync" /\ run'.stage = "start"
<1> DEFINE U == Tail(T)
           n == Len(queue)
<1>1. T \in Seq(Block) /\ Len(T) = n + 1 /\ n \in Nat \ {0} /\ queue \in Seq(Request) /\ T[n + 1] = tip
  BY WIs, Tails DEF C, TrailInv
<1>2. U \in Seq(Block) /\ Len(U) = n /\ \A i \in 1..n : U[i] = T[i + 1]
  <2>1. T # <<>>
    BY <1>1, EmptySeq
  <2> QED
    BY <1>1, <2>1, Tails
<1>3. /\ Len(queue') = n - 1 /\ \A i \in 1..(n - 1) : queue'[i] = queue[i + 1]
      /\ queue' \in Seq(Request)
  BY <1>1, Tails DEF Finish
<1>4. run' = NoJob /\ run'.stage = "start"
  BY Jobs DEF Finish
<1>5. Kind' # "sync"
  <2> SUFFICES ASSUME Kind' = "sync" PROVE FALSE
    OBVIOUS
  <2>1. queue' # <<>> /\ Head(queue').kind = "sync"
    BY DEF Kind
  <2>2. Head(queue') = queue'[1] /\ Len(queue') \in Nat \ {0}
    BY <1>3, <2>1, Tails
  <2>3. queue'[1] = queue[2] /\ 2 \in 1..n /\ 1 \in 1..n
    BY <1>1, <1>3, <2>2
  <2>4. queue[2].kind # "sync"
    BY <2>3 DEF Inv1, QueueInv
  <2> QED
    BY <2>1, <2>2, <2>3, <2>4
<1> HIDE DEF U, n
<1>6. TrailInv(U)'
  <2>1. \A i \in 1..(n - 1) : Step(queue'[i], U[i], U[i + 1])
    <3> TAKE i \in 1..(n - 1)
    <3>1. i + 1 \in 1..n /\ i \in 1..n
      BY <1>1
    <3>2. Step(queue[i + 1], T[i + 1], T[i + 1 + 1])
      BY <3>1 DEF C, TrailInv, n
    <3> QED
      BY <1>2, <1>3, <3>1, <3>2
  <2>2. U[n] = tip' /\ Len(U) = Len(queue') + 1
    BY <1>1, <1>2, <1>3
  <2> QED
    BY <1>1, <1>2, <1>3, <2>1, <2>2 DEF TrailInv
<1>7. ValidInv(U)'
  <2>1. \A i \in 1..Len(U) : FullyValid(U[i])
    <3> TAKE i \in 1..Len(U)
    <3>1. i \in 1..n /\ i + 1 \in 1..Len(T)
      BY <1>1, <1>2
    <3> QED
      BY <1>2, <3>1 DEF C, ValidInv
  <2> QED
    BY <2>1 DEF C, ValidInv
<1>8. JobInv'
  BY <1>4 DEF JobInv
<1>9. KnownInv(U)'
  <2>1. U[1] = T[2]
    BY <1>1, <1>2
  <2> QED
    BY <1>5, <2>1 DEF KnownInv
<1>10. CaughtInv(U)'
  <2>1. ASSUME NEW i \in 2..Len(T), T[i] = W', Quiet(2, i - 1)
        PROVE  CaughtInv(U)'
    <3>1. i - 1 \in 1..Len(U) /\ U[i - 1] = T[i]
      BY <1>1, <1>2
    <3>2. \A j \in 1..((i - 1) - 1) : queue'[j].kind \notin Events
      <4> TAKE j \in 1..((i - 1) - 1)
      <4>1. j \in 1..(n - 1) /\ j + 1 \in 2..(i - 1)
        BY <1>1
      <4> QED
        BY <1>3, <2>1, <4>1 DEF Quiet
    <3> QED
      BY <2>1, <3>1, <3>2 DEF CaughtInv, Quiet
  <2> QED
    BY <2>1 DEF CaughtInv
<1>11. C(U)'
  BY <1>6, <1>7, <1>8, <1>9, <1>10 DEF C
<1> QED
  BY <1>4, <1>5, <1>11 DEF U

LEMMA WriteC ==
  ASSUME NEW T, C(T), WriteInsert \/ WriteConfirm \/ WriteErase \/ WriteDisconnect
  PROVE  C(T)'
<1>1. UNCHANGED <<tip, goal, locker, height, hashes, queue, cut, run>>
  BY DEF WriteInsert, WriteConfirm, WriteErase, WriteDisconnect, Unwritten, sync, chain
<1> QED
  BY <1>1, CKept

LEMMA QuietC ==
  ASSUME NEW T, C(T), Inv1, AddBlockTX \/ RevertBlock \/ \E t \in Tx : RemoveTX(t)
  PROVE  C(T)'
<1>1. UNCHANGED <<tip, goal, locker, height, hashes, queue, cut>>
  BY DEF AddBlockTX, RevertBlock, RemoveTX, sync, chain
<1>2. CASE AddBlockTX
  <2>1. run.stage = "adding"
    BY <1>2 DEF AddBlockTX
  <2>2. run'.stage = run.stage /\ run'.block = run.block
    BY <1>2, <2>1, AddBlockTXInv1
  <2> QED
    BY <1>1, <2>2, CKept
<1>3. CASE RevertBlock
  BY <1>1, <1>3, RevertBlockInv1, CKept
<1>4. CASE \E t \in Tx : RemoveTX(t)
  <2>1. run' = run
    BY <1>4 DEF RemoveTX
  <2> QED
    BY <1>1, <2>1, CKept
<1> QED
  BY <1>2, <1>3, <1>4

LEMMA SetBestC ==
  ASSUME Inv1, NEW T, C(T), NEW b \in Block, SetBest(b)
  PROVE  C(T)'
<1>1. /\ goal' = b /\ locker' = "event" /\ locker = "free" /\ tip' = tip
      /\ cut' = cut /\ queue' = queue /\ run' = run
      /\ height' = height /\ hashes' = hashes /\ FullyValid(b)
  BY DEF SetBest, sync
<1>2. Kind' = Kind /\ W' = W /\ Main' = Main /\ Outstanding' = Outstanding
  BY <1>1 DEF Kind, W, Main, Outstanding
<1>3. TrailInv(T)' /\ ValidInv(T)' /\ PathInv'
  BY <1>1, <1>2 DEF C, TrailInv, ValidInv, PathInv
<1>4. JobInv'
  BY <1>1, <1>2 DEF C, JobInv
<1>5. KnownInv(T)' /\ CaughtInv(T)'
  BY <1>1, <1>2 DEF C, KnownInv, Lost, Stuck, CaughtInv, Quiet
<1> QED
  BY <1>3, <1>4, <1>5 DEF C

LEMMA ReleaseC ==
  ASSUME Inv1, NEW T, C(T), Release
  PROVE  C(T)'
<1>1. /\ goal' = goal /\ locker' = "free" /\ tip' = tip
      /\ cut' = cut /\ queue' = queue /\ run' = run
      /\ height' = height /\ hashes' = hashes
  BY DEF Release, sync
<1>2. Kind' = Kind /\ W' = W /\ Main' = Main /\ Outstanding' = Outstanding
  BY <1>1 DEF Kind, W, Main, Outstanding
<1>3. TrailInv(T)' /\ ValidInv(T)' /\ PathInv'
  BY <1>1, <1>2 DEF C, TrailInv, ValidInv, PathInv
<1>4. JobInv'
  BY <1>1, <1>2 DEF C, JobInv
<1>5. KnownInv(T)' /\ CaughtInv(T)'
  BY <1>1, <1>2 DEF C, KnownInv, Lost, Stuck, CaughtInv, Quiet
<1> QED
  BY <1>3, <1>4, <1>5 DEF C

LEMMA TrailEnds ==
  ASSUME Inv1, NEW T, C(T)
  PROVE  /\ T \in Seq(Block) /\ Len(T) = Len(queue) + 1 /\ T[Len(T)] = tip /\ 1 \in 1..Len(T)
         /\ Len(T) \in 1..Len(T) /\ T[1] \in Block
         /\ FullyValid(tip) /\ FullyValid(T[1]) /\ FullyValid(W) /\ FullyValid(goal)
<1>1. T \in Seq(Block) /\ Len(T) = Len(queue) + 1 /\ T[Len(T)] = tip /\ Len(queue) \in Nat
  BY WIs DEF C, TrailInv
<1>2. Len(T) \in 1..Len(T) /\ 1 \in 1..Len(T)
  BY <1>1
<1> QED
  BY <1>1, <1>2 DEF C, ValidInv

LEMMA ReqIs ==
  \A k \in {"connect", "disconnect", "reset", "rescan", "sync", "tx"} :
    \A x \in Block \cup Tx \cup {NoBlock} :
      Req(k, x).kind = k /\ Req(k, x).of = x /\ Req(k, x) \in Request
BY DEF Req, Request

LEMMA MoveC ==
  ASSUME Inv1, NEW T, C(T), Move, NEW U, U = Append(T, tip')
  PROVE  C(U)'
<1>1. locker = "event" /\ ~Outstanding /\ UNCHANGED <<locker, height, hashes, run, cut>> /\ goal' = goal
  BY DEF Move, sync
<1>2. tip \in Block /\ goal \in Block /\ FullyValid(goal) /\ FullyValid(tip)
  BY WIs, TrailEnds
<1>3. CASE tip \in Anc[goal]
  <2>1. PICK b \in Anc[goal] : Parent[b] = tip /\ tip' = b /\ queue' = Append(queue, Req("connect", b))
    BY <1>3 DEF Move
  <2>2. b \in Block /\ b # Genesis /\ FullyValid(b)
    <3>1. b \in Block /\ FullyValid(b)
      BY <1>2, Lines, ValidBelow
    <3> QED
      BY <1>2, <2>1, <3>1, Child
  <2> DEFINE r == Req("connect", b)
  <2>3. r.kind = "connect" /\ r.of = b /\ r \in Request
    BY <2>2, ReqIs
  <2>4. WellAsked(r) /\ Step(r, tip, b)
    BY <2>1, <2>2, <2>3 DEF WellAsked, Step
  <2> HIDE DEF r
  <2>5. queue' = Append(queue, r)
    BY <2>1 DEF r
  <2> QED
    BY <1>1, <1>2, <2>1, <2>2, <2>3, <2>4, <2>5, CAppended
<1>4. CASE tip \notin Anc[goal]
  <2>1. tip' = Parent[tip] /\ queue' = Append(queue, Req("disconnect", tip))
    BY <1>4 DEF Move
  <2>2. tip # Genesis /\ Parent[tip] \in Block /\ FullyValid(Parent[tip])
    <3>1. tip # Genesis
      BY <1>2, <1>4, Lines
    <3>2. Parent[tip] \in Block /\ Parent[tip] \in Anc[tip]
      BY <1>2, <3>1, Parents1
    <3> QED
      BY <1>2, <3>1, <3>2, ValidBelow
  <2> DEFINE r == Req("disconnect", tip)
  <2>3. r.kind = "disconnect" /\ r.of = tip /\ r \in Request
    BY <1>2, ReqIs
  <2>4. WellAsked(r) /\ Step(r, tip, Parent[tip])
    BY <1>2, <2>1, <2>2, <2>3 DEF WellAsked, Step
  <2>5. queue' = Append(queue, r)
    BY <2>1 DEF r
  <2>6. PICK q : q = r
    OBVIOUS
  <2> HIDE DEF r
  <2> QED
    BY <1>1, <1>2, <2>1, <2>2, <2>3, <2>4, <2>5, <2>6, CAppended
<1> QED
  BY <1>3, <1>4

LEMMA ResetC ==
  ASSUME Inv1, NEW T, C(T), NEW b \in Block, Reset(b), NEW U, U = Append(T, tip')
  PROVE  C(U)'
<1>1. /\ locker = "free" /\ UNCHANGED <<locker, height, hashes, run, cut>> /\ goal' = b /\ tip' = b
      /\ b \in Main /\ queue' = Append(queue, Req("reset", b))
  BY DEF Reset, sync
<1>2. ~Outstanding
  BY <1>1 DEF Inv1, QueueInv
<1>3. FullyValid(b) /\ tip \in Block
  BY <1>1, WIs, TrailEnds, ValidBelow DEF Main
<1> DEFINE r == Req("reset", b)
<1>4. r.kind = "reset" /\ r.of = b /\ r \in Request
  BY ReqIs
<1>5. WellAsked(r) /\ Step(r, tip, b)
  BY <1>1, <1>4 DEF WellAsked, Step, Main, Events
<1>6. queue' = Append(queue, r)
  BY <1>1
<1> HIDE DEF r
<1> QED
  BY <1>1, <1>2, <1>3, <1>4, <1>5, <1>6, CAppended DEF Events

LEMMA AnnounceC ==
  ASSUME Inv1, NEW T, C(T), NEW t \in Tx, Announce(t), NEW U, U = Append(T, tip')
  PROVE  C(U)'
<1>1. /\ UNCHANGED <<locker, height, hashes, run, cut>> /\ goal' = goal /\ tip' = tip
      /\ t \notin InMain /\ Rivals(t) \cap InMain = {}
      /\ queue' = Append(queue, Req("tx", t))
  BY DEF Announce, sync
<1>2. tip \in Block /\ FullyValid(goal) /\ FullyValid(tip)
  BY WIs, TrailEnds
<1>3. Clean(t, tip)
  BY <1>1 DEF Clean, InMain, Main
<1> DEFINE r == Req("tx", t)
<1>4. r.kind = "tx" /\ r.of = t /\ r \in Request
  BY ReqIs
<1>5. WellAsked(r) /\ Step(r, tip, tip)
  BY <1>3, <1>4 DEF WellAsked, Step, Events
<1>6. queue' = Append(queue, r)
  BY <1>1
<1> HIDE DEF r
<1> QED
  BY <1>1, <1>2, <1>4, <1>5, <1>6, CAppended DEF Events

LEMMA AskRescanC ==
  ASSUME Inv1, NEW T, C(T), AskRescan, NEW U, U = Append(T, tip')
  PROVE  C(U)'
<1>1. /\ UNCHANGED <<locker, height, hashes, run, cut>> /\ goal' = goal /\ tip' = tip
      /\ queue' = Append(queue, Req("rescan", NoBlock))
  BY DEF AskRescan, sync, chain
<1>2. tip \in Block /\ FullyValid(goal) /\ FullyValid(tip)
  BY WIs, TrailEnds
<1> DEFINE r == Req("rescan", NoBlock)
<1>4. r.kind = "rescan" /\ r.of = NoBlock /\ r \in Request
  BY ReqIs
<1>5. WellAsked(r) /\ Step(r, tip, tip)
  BY <1>4 DEF WellAsked, Step, Events
<1>6. queue' = Append(queue, r)
  BY <1>1
<1> HIDE DEF r
<1> QED
  BY <1>1, <1>2, <1>4, <1>5, <1>6, CAppended DEF Events

LEMMA CrashC ==
  ASSUME Inv1, NEW T, C(T), Crash, NEW U, U = <<tip, tip>>
  PROVE  C(U)' /\ Kind' = "sync" /\ run'.stage = "start" /\ W' = W
<1>1. /\ queue' = <<Req("sync", NoBlock)>> /\ run' = NoJob /\ locker' = "free"
      /\ goal' = tip /\ tip' = tip /\ height' = height /\ hashes' = hashes /\ cut' = cut
  BY DEF Crash, sync
<1>2. tip \in Block /\ FullyValid(tip) /\ FullyValid(W)
  BY WIs, TrailEnds
<1>3. Kind' = "sync" /\ W' = W /\ run'.stage = "start" /\ Len(queue') = 1 /\ queue'[1].kind = "sync"
  BY <1>1, ReqIs, Jobs, CrashInv1 DEF W
<1>4. U \in Seq(Block) /\ Len(U) = 2 /\ U[1] = tip /\ U[2] = tip
  BY <1>2
<1>5. TrailInv(U)'
  <2>1. \A i \in 1..Len(queue') : i = 1
    BY <1>3
  <2>2. Step(queue'[1], U[1], U[1 + 1])
    BY <1>3, <1>4 DEF Step
  <2> QED
    BY <1>1, <1>3, <1>4, <2>1, <2>2 DEF TrailInv
<1>6. ValidInv(U)'
  <2>1. \A i \in 1..Len(U) : U[i] = tip
    BY <1>4
  <2> QED
    BY <1>1, <1>2, <1>3, <2>1 DEF ValidInv
<1>7. PathInv' /\ JobInv' /\ KnownInv(U)' /\ CaughtInv(U)'
  BY <1>1, <1>3 DEF C, PathInv, JobInv, KnownInv, Lost, CaughtInv
<1> QED
  BY <1>3, <1>5, <1>6, <1>7 DEF C

LEMMA AddTXC ==
  ASSUME Inv1, NEW T, C(T), AddTX
  PROVE  C(T)'
<1>1. UNCHANGED <<tip, goal, locker, height, hashes, queue, cut>>
  BY DEF AddTX, sync, chain
<1>2. Kind = "tx" /\ run'.stage = "adding"
  BY AddTXInv1
<1>3. Kind' = Kind /\ W' = W /\ Main' = Main
  BY <1>1 DEF Kind, W, Main
<1>4. TrailInv(T)' /\ ValidInv(T)' /\ PathInv'
  BY <1>1, <1>3 DEF C, TrailInv, ValidInv, PathInv
<1>5. JobInv'
  BY <1>1, <1>2, <1>3 DEF C, JobInv
<1>6. KnownInv(T)' /\ CaughtInv(T)'
  BY <1>1, <1>2, <1>3 DEF C, KnownInv, Lost, Stuck, CaughtInv, Quiet
<1> QED
  BY <1>4, <1>5, <1>6 DEF C

\* A step that leaves the queue, the tip and the wallet's hashes.
LEMMA CStays ==
  ASSUME NEW T, C(T), UNCHANGED <<tip, goal, height, hashes, queue>>, cut => cut',
         JobInv', KnownInv(T)', CaughtInv(T)'
  PROVE  C(T)'
<1>1. W' = W
  BY DEF W
<1>2. TrailInv(T)' /\ ValidInv(T)' /\ PathInv'
  BY <1>1 DEF C, TrailInv, ValidInv, PathInv
<1> QED
  BY <1>2 DEF C

\* The wallet is on the way the chain went.
LEMMA OnTheWay ==
  ASSUME Inv1, NEW T, C(T), Kind # "sync"
  PROVE  W \in Anc[T[1]] /\ W \in Block /\ T[1] \in Block /\ Height[W] <= Height[T[1]]
         /\ Anc[W] \subseteq Anc[T[1]]
<1>1. W \in Anc[T[1]]
  BY DEF C, KnownInv, Lost, Stuck
<1>2. T[1] \in Block /\ W \in Block
  BY WIs, TrailEnds
<1> QED
  BY <1>1, <1>2, Lines

LEMMA AddedTXC ==
  ASSUME Inv1, NEW T, C(T), AddedTX
  PROVE  C(Tail(T))'
<1>1. /\ queue # <<>> /\ Head(queue).kind = "tx" /\ Finish
      /\ tip' = tip /\ goal' = goal /\ locker' = locker
      /\ height' = height /\ hashes' = hashes /\ cut' = cut
  BY DEF AddedTX, First, chain, sync
<1>2. Kind = "tx" /\ Step(Head(queue), T[1], T[2]) /\ T[1] = T[2] /\ 2 \in 1..Len(T) /\ Len(T) \in Nat
  BY <1>1, FirstIs1, HeadStep DEF C, Step
<1>3. locker # "scan"
  BY <1>1, <1>2 DEF Inv1, StageInv, AddedTX
<1>4. W' = W /\ W \in Anc[T[2]] /\ PathInv' /\ FullyValid(W)'
  BY <1>1, <1>2, OnTheWay DEF W, C, PathInv, ValidInv
<1>5. cut \/ \E i \in 2..Len(T) : T[i] = W /\ Quiet(2, i - 1)
  <2>1. cut \/ \E i \in 1..Len(T) : T[i] = W /\ Quiet(1, i - 1)
    BY <1>2 DEF C, CaughtInv
  <2>2. ASSUME NEW i \in 1..Len(T), T[i] = W, Quiet(1, i - 1)
        PROVE  \E k \in 2..Len(T) : T[k] = W /\ Quiet(2, k - 1)
    <3>1. CASE i = 1
      <4>1. T[2] = W /\ Quiet(2, 2 - 1) /\ 2 \in 2..Len(T)
        BY <1>2, <2>2, <3>1 DEF Quiet
      <4> QED
        BY <4>1
    <3>2. CASE i # 1
      BY <2>2, <3>2 DEF Quiet
    <3> QED
      BY <3>1, <3>2
  <2> QED
    BY <2>1, <2>2
<1> QED
  BY <1>1, <1>3, <1>4, <1>5, CFinished

\* A block that comes: it is the next one, or the wallet is farther behind.
LEMMA AddBlockC ==
  ASSUME Inv1, NEW T, C(T), AddBlock
  PROVE  /\ C(T)' /\ Kind = "connect" /\ Kind' = Kind /\ queue' = queue /\ Head(queue).of \in Block
         /\ \/ /\ Parent[Head(queue).of] = W /\ Height[Head(queue).of] = height + 1
               /\ run' = Adding(Head(queue).of)
            \/ run' = Waiting
<1> DEFINE b == Head(queue).of
<1>1. /\ queue # <<>> /\ Head(queue).kind = "connect" /\ run.stage = "start"
      /\ tip' = tip /\ goal' = goal /\ locker' = locker
      /\ height' = height /\ hashes' = hashes /\ cut' = cut
      /\ \/ Height[b] < height /\ Finish
         \/ Height[b] \in {height, height + 1} /\ run' = Adding(b) /\ queue' = queue
         \/ Height[b] > height + 1 /\ run' = Waiting /\ queue' = queue
  BY DEF AddBlock, First, chain, sync
<1>2. Kind = "connect" /\ Step(Head(queue), T[1], T[2]) /\ T[1] \in Block /\ T[2] \in Block
  BY <1>1, FirstIs1, HeadStep DEF C
<1>3. b = T[2] /\ T[1] = Parent[b] /\ b \in Block
  BY <1>1, <1>2 DEF Step
<1>4. Height[b] = Height[T[1]] + 1 /\ W \in Anc[T[1]] /\ Height[W] = height /\ Height[T[1]] \in Nat
      /\ height \in Nat
  BY <1>2, <1>3, Child, OnTheWay, WIs, HeightIn
<1>5. height <= Height[T[1]] /\ (height = Height[T[1]] => W = T[1])
  BY <1>2, <1>4, Lines
<1>6. locker # "scan"
  BY <1>1, <1>2 DEF Inv1, StageInv
<1>7. ASSUME queue' = queue, run'.stage # "start", run'.stage \in {"adding", "wait"},
             run'.stage = "adding" => Parent[run'.block] = W
      PROVE  C(T)' /\ Kind' = Kind
  <2>1. Kind' = "connect" /\ W' = W
    BY <1>1, <1>2, <1>7 DEF Kind, W
  <2>2. JobInv'
    BY <1>1, <1>6, <1>7, <2>1 DEF JobInv
  <2>3. KnownInv(T)' /\ CaughtInv(T)'
    BY <1>1, <1>2, <1>4, <1>7, <2>1 DEF C, KnownInv, CaughtInv, Quiet
  <2> QED
    BY <1>1, <1>2, <1>7, <2>1, <2>2, <2>3, CStays
<1>8. CASE Height[b] \in {height, height + 1} /\ run' = Adding(b) /\ queue' = queue
  <2>1. Height[b] = height + 1 /\ Parent[b] = W
    BY <1>3, <1>4, <1>5, <1>8
  <2>2. run'.stage = "adding" /\ run'.block = b
    BY <1>8, Jobs
  <2>3. C(T)' /\ Kind' = Kind
    BY <1>7, <1>8, <2>1, <2>2
  <2> QED
    BY <1>2, <1>3, <1>8, <2>1, <2>3
<1>9. CASE Height[b] > height + 1 /\ run' = Waiting /\ queue' = queue
  <2>1. run'.stage = "wait"
    BY <1>9, Jobs
  <2>2. C(T)' /\ Kind' = Kind
    BY <1>7, <1>9, <2>1
  <2> QED
    BY <1>2, <1>3, <1>9, <2>2
<1>10. ~(Height[b] < height)
  BY <1>4, <1>5
<1> QED
  BY <1>1, <1>8, <1>9, <1>10

\* The hashes after setTip for the block above, or the same.
LEMMA PathUp ==
  ASSUME Inv1, PathInv, NEW b \in Block, b = W \/ Parent[b] = W, W' = b,
         \A h \in 0..height' : h # height' => h \in 0..height /\ hashes'[h] = hashes[h]
  PROVE  PathInv'
<1>1. W \in Block /\ Anc[W] \subseteq Anc[b] /\ b \in Anc[b]
  BY WIs, Child, Lines
<1>2. \A h \in 0..height' : hashes'[h] \in Anc[b]
  <2> TAKE h \in 0..height'
  <2>1. CASE h = height'
    BY <1>1, <2>1 DEF W
  <2>2. CASE h # height'
    BY <1>1, <2>2 DEF PathInv
  <2> QED
    BY <2>1, <2>2
<1> QED
  BY <1>2 DEF PathInv

LEMMA AddedBlockC ==
  ASSUME Inv1, NEW T, C(T), AddedBlock
  PROVE  /\ W' = run.block /\ (run.block = W \/ Parent[run.block] = W) /\ run.block \in Block
         /\ \/ /\ locker = "scan" /\ C(T)' /\ queue' = queue /\ Kind' = Kind /\ Kind \in {"rescan", "sync"}
               /\ run' = Scanning(After(run.block)) /\ ~Outstanding
               /\ run.block \in Anc[T[1]] /\ tip \in Anc[T[1]]
            \/ /\ locker # "scan" /\ C(Tail(T))' /\ Kind = "connect" /\ Finish /\ run.block = T[2]
               /\ queue # <<>> /\ Parent[run.block] = T[1]
<1>1. /\ run.stage = "adding" /\ run.block # NoBlock
      /\ tip' = tip /\ goal' = goal /\ locker' = locker /\ cut' = cut
      /\ IF locker = "scan" THEN run' = Scanning(After(run.block)) /\ queue' = queue ELSE Finish
  BY DEF AddedBlock, chain
<1>2. /\ height' = Height[run.block] /\ hashes'[height'] = run.block
      /\ InBlock /\ Kind # "tx"
      /\ \A h \in 0..height' : h # height' => h \in 0..height /\ hashes'[h] = hashes[h]
  BY AddedBlockInv1
<1>3. run.block \in Block /\ W' = run.block /\ (run.block = W \/ Parent[run.block] = W)
  BY <1>1, <1>2 DEF InBlock, W, C, JobInv
<1>4. PathInv'
  BY <1>2, <1>3, PathUp DEF C
<1>5. queue # <<>> /\ (Kind \in {"rescan", "sync"} => locker = "scan") /\ Kind \in {"connect", "rescan", "sync"}
      /\ (Kind = "connect" => run.block = Head(queue).of)
  BY <1>1, <1>2 DEF Inv1, StageInv, AddingInv
<1>6. CASE locker = "scan"
  <2>1. run' = Scanning(After(run.block)) /\ queue' = queue /\ Kind' = Kind /\ Kind \in {"rescan", "sync"}
    BY <1>1, <1>6 DEF Kind, Inv1, StageInv
  <2>2. run.block \in Main /\ tip \in Block /\ FullyValid(tip)
    BY <1>1, <2>1, WIs, TrailEnds DEF C, JobInv
  <2>3. FullyValid(run.block) /\ ~Outstanding
    <3>1. locker # "event"
      BY <1>6
    <3>2. ~Outstanding
      BY <3>1 DEF Inv1, QueueInv
    <3> QED
      BY <2>2, <3>2, ValidBelow DEF Main
  <2>4. tip \in Anc[T[1]] /\ run.block \in Anc[T[1]] /\ T[1] \in Block
    <3>1. tip \in Anc[T[1]] /\ T[1] \in Block
      BY <2>3, QuietTrail, TrailEnds DEF C
    <3> QED
      BY <2>2, <3>1, Lines DEF Main
  <2> DEFINE a == After(run.block)
  <2>5. run'.stage = "scan" /\ run'.block = a
    BY <2>1, Jobs
  <2>6. IF a = NoBlock THEN run.block = tip ELSE a \in Main /\ Parent[a] = run.block
    <3>1. CASE \E c \in Main : Parent[c] = run.block
      <4>1. a \in Main /\ Parent[a] = run.block
        BY <3>1 DEF After
      <4>2. a # NoBlock
        BY <2>2, <4>1, MainIs, WIs
      <4> QED
        BY <4>1, <4>2
    <3>2. CASE ~\E c \in Main : Parent[c] = run.block
      <4>1. a = NoBlock
        BY <3>2 DEF After
      <4>2. run.block = tip
        BY <2>2, <3>2, Lines DEF Main
      <4> QED
        BY <4>1, <4>2
    <3> QED
      BY <3>1, <3>2
  <2> HIDE DEF a
  <2>7. TrailInv(T)' /\ ValidInv(T)'
    BY <1>1, <1>3, <2>1, <2>3 DEF C, TrailInv, ValidInv
  <2>8. JobInv'
    BY <1>1, <1>3, <2>2, <2>5, <2>6 DEF JobInv, Main
  <2>9. KnownInv(T)' /\ CaughtInv(T)'
    BY <1>3, <2>1, <2>4, <2>5 DEF KnownInv, CaughtInv
  <2>10. C(T)'
    BY <1>4, <2>7, <2>8, <2>9 DEF C
  <2> QED
    BY <1>3, <1>6, <2>1, <2>3, <2>4, <2>10
<1>7. CASE locker # "scan"
  <2>1. Kind = "connect" /\ Finish
    BY <1>1, <1>5, <1>7
  <2>2. /\ Step(Head(queue), T[1], T[2]) /\ T[2] \in Block /\ FullyValid(T[2]) /\ Len(T) \in Nat
        /\ 2 \in 1..Len(T)
    BY <1>5, HeadStep DEF C
  <2>3. run.block = T[2] /\ T[1] = Parent[run.block]
    BY <1>5, <2>1, <2>2 DEF Step, Kind
  <2>4. W' \in Anc[T[2]] /\ FullyValid(W)'
    BY <1>3, <2>2, <2>3, Lines
  <2>5. 2 \in 2..Len(T) /\ T[2] = W' /\ Quiet(2, 2 - 1)
    BY <1>3, <2>2, <2>3 DEF Quiet
  <2>6. C(Tail(T))'
    BY <1>1, <1>4, <1>5, <1>7, <2>1, <2>4, <2>5, CFinished
  <2> QED
    BY <1>3, <1>5, <1>7, <2>1, <2>3, <2>6
<1> QED
  BY <1>6, <1>7

\* What the wallet kept of its hashes lies on one line.
LEMMA Below ==
  ASSUME Inv1, PathInv, NEW h \in 0..height
  PROVE  /\ hashes[h] \in Anc[W] /\ hashes[h] \in Block /\ Height[hashes[h]] = h
         /\ \A n \in 0..h : hashes[n] \in Anc[hashes[h]]
         /\ h = height - 1 => W # Genesis /\ hashes[h] = Parent[W]
<1>1. /\ height \in Nat /\ W \in Block /\ Height[W] = height
      /\ \A n \in 0..height : hashes[n] \in Anc[W] /\ hashes[n] \in Block /\ Height[hashes[n]] = n
  BY WIs DEF PathInv
<1>2. \A n \in 0..h : n \in 0..height /\ n <= h
  BY <1>1
<1>3. \A n \in 0..h : hashes[n] \in Anc[hashes[h]]
  <2> TAKE n \in 0..h
  <2>1. hashes[n] \in Anc[W] /\ hashes[h] \in Anc[W] /\ Height[hashes[n]] <= Height[hashes[h]]
    BY <1>1, <1>2
  <2> QED
    BY <1>1, <2>1, Lines
<1>4. ASSUME h = height - 1 PROVE W # Genesis /\ hashes[h] = Parent[W]
  <2>1. W # Genesis
    <3>1. height # 0
      BY <1>1, <1>4
    <3> QED
      BY <1>1, <3>1, TreeAssumption
  <2>2. Parent[W] \in Anc[W] /\ Height[Parent[W]] = h
    <3>1. Parent[W] \in Anc[W] /\ Height[W] = Height[Parent[W]] + 1 /\ Parent[W] \in Block
      BY <1>1, <2>1, Parents1
    <3> QED
      BY <1>1, <1>4, <3>1, HeightIn
  <2>3. hashes[h] \in Anc[W] /\ Height[hashes[h]] = Height[Parent[W]]
    BY <1>1, <2>2
  <2> QED
    BY <1>1, <2>1, <2>2, <2>3, Lines
<1> QED
  BY <1>1, <1>3, <1>4

LEMMA RemoveBlockC ==
  ASSUME Inv1, NEW T, C(T), RemoveBlock
  PROVE  LET b == Head(queue).of
         IN /\ Kind = "disconnect" /\ b = T[1] /\ T[2] = Parent[b] /\ b # Genesis /\ b \in Block
            /\ \/ /\ Height[b] # height /\ C(Tail(T))' /\ W \in Anc[T[2]] /\ Finish /\ queue # <<>>
               \/ /\ b = W /\ C(T)' /\ Back(height - 1, {height}) /\ queue' = queue /\ Kind' = Kind
                  /\ height - 1 \in 0..(height - 1)
                  /\ run'.block = Parent[W] /\ run'.stage = "back"
<1> DEFINE b == Head(queue).of
<1>1. /\ queue # <<>> /\ Head(queue).kind = "disconnect" /\ run.stage = "start"
      /\ tip' = tip /\ goal' = goal /\ locker' = locker
      /\ height' = height /\ hashes' = hashes /\ cut' = cut
      /\ \/ Height[b] # height /\ Finish
         \/ Height[b] = height /\ Back(height - 1, {height}) /\ queue' = queue
  BY DEF RemoveBlock, First, chain, sync
<1>2. /\ Kind = "disconnect" /\ Step(Head(queue), T[1], T[2]) /\ T[1] \in Block /\ T[2] \in Block
      /\ Len(T) \in Nat
  BY <1>1, FirstIs1, HeadStep DEF C
<1>3. b = T[1] /\ T[2] = Parent[b] /\ b \in Block /\ b # Genesis
  BY <1>1, <1>2 DEF Step
<1>4. W \in Anc[b] /\ Height[W] = height /\ W \in Block /\ height \in Nat /\ FullyValid(W) /\ PathInv
  BY <1>2, <1>3, OnTheWay, WIs, TrailEnds DEF C
<1>5. locker # "scan"
  BY <1>1, <1>2 DEF Inv1, StageInv
<1>6. CASE Height[b] # height /\ Finish
  <2>1. W # b /\ W \in Anc[T[2]]
    BY <1>3, <1>4, <1>6, AboveParent
  <2>2. cut
    <3>1. cut \/ \E i \in 1..Len(T) : T[i] = W /\ Quiet(1, i - 1)
      BY <1>2 DEF C, CaughtInv
    <3>2. ASSUME NEW i \in 1..Len(T), T[i] = W, Quiet(1, i - 1)
          PROVE  FALSE
      <4>1. i # 1
        BY <1>3, <2>1, <3>2
      <4>2. 1 \in 1..(i - 1)
        BY <4>1
      <4>3. queue[1].kind \in Events
        BY <1>1, FirstIs1 DEF Events
      <4> QED
        BY <3>2, <4>2, <4>3 DEF Quiet
    <3> QED
      BY <3>1, <3>2
  <2>3. W' = W /\ PathInv' /\ FullyValid(W)'
    BY <1>1, <1>4 DEF W, PathInv
  <2>4. C(Tail(T))'
    BY <1>1, <1>5, <1>6, <2>1, <2>2, <2>3, CFinished
  <2> QED
    BY <1>1, <1>2, <1>3, <1>6, <2>1, <2>4
<1>7. CASE Height[b] = height /\ Back(height - 1, {height}) /\ queue' = queue
  <2>1. b = W
    BY <1>3, <1>4, <1>7, Lines
  <2>2. height > 0
    <3>1. height # 0
      BY <1>3, <1>7, LowestIsGenesis
    <3> QED
      BY <1>4, <3>1
  <2>3. PICK h \in 0..(height - 1) : h = height - 1
    BY <1>4, <2>2
  <2>4. run'.stage = "back" /\ run'.block = hashes[h] /\ h \in 0..height
    BY <1>7, <2>3, BackIs
  <2>5. run'.block = Parent[W]
    BY <1>4, <2>3, <2>4, Below
  <2>6. Kind' = "disconnect" /\ W' = W
    BY <1>1, <1>2, <1>7 DEF Kind, W
  <2>7. JobInv'
    BY <1>1, <1>5, <1>7, <2>1, <2>4, <2>6 DEF JobInv
  <2>8. KnownInv(T)' /\ CaughtInv(T)'
    BY <1>1, <1>2, <1>3, <1>4, <1>7, <2>6 DEF C, KnownInv, CaughtInv, Quiet
  <2>9. C(T)'
    BY <1>1, <1>7, <2>7, <2>8, CStays
  <2> QED
    BY <1>2, <1>3, <1>7, <2>1, <2>3, <2>4, <2>5, <2>6, <2>9
<1> QED
  BY <1>1, <1>6, <1>7

LEMMA ResetChainC ==
  ASSUME Inv1, NEW T, C(T), ResetChain
  PROVE  LET b == Head(queue).of
         IN /\ Kind = "reset" /\ b = T[2] /\ b \in Anc[T[1]] /\ b \in Block /\ T[1] \in Block
            /\ W \in Anc[T[1]]
            /\ \/ /\ Height[b] >= height /\ C(Tail(T))' /\ W \in Anc[b] /\ Finish /\ queue # <<>>
               \/ /\ Height[b] < height /\ C(T)' /\ Back(Height[b], Above(Height[b])) /\ queue' = queue /\ Kind' = Kind
                  /\ Height[b] \in 0..(height - 1) /\ b \in Anc[W]
                  /\ run'.block = b /\ run'.stage = "back"
<1> DEFINE b == Head(queue).of
<1>1. /\ queue # <<>> /\ Head(queue).kind = "reset" /\ run.stage = "start"
      /\ tip' = tip /\ goal' = goal /\ locker' = locker
      /\ height' = height /\ hashes' = hashes /\ cut' = cut
      /\ \/ Height[b] >= height /\ Finish
         \/ Height[b] < height /\ Back(Height[b], Above(Height[b])) /\ queue' = queue
  BY DEF ResetChain, First, chain, sync
<1>2. /\ Kind = "reset" /\ Step(Head(queue), T[1], T[2]) /\ T[1] \in Block /\ T[2] \in Block
      /\ Len(T) \in Nat /\ 2 \in 1..Len(T)
  BY <1>1, FirstIs1, HeadStep DEF C
<1>3. b = T[2] /\ b \in Anc[T[1]] /\ b \in Block /\ Height[b] \in Nat
  BY <1>1, <1>2, HeightIn DEF Step
<1>4. W \in Anc[T[1]] /\ Height[W] = height /\ W \in Block /\ height \in Nat /\ FullyValid(W) /\ PathInv
  BY <1>2, OnTheWay, WIs, TrailEnds DEF C
<1>5. locker # "scan"
  BY <1>1, <1>2 DEF Inv1, StageInv
<1>6. CASE Height[b] >= height /\ Finish
  <2>1. W \in Anc[b]
    BY <1>2, <1>3, <1>4, <1>6, Lines
  <2>2. cut \/ \E i \in 2..Len(T) : T[i] = W /\ Quiet(2, i - 1)
    <3>1. cut \/ \E i \in 1..Len(T) : T[i] = W /\ Quiet(1, i - 1)
      BY <1>2 DEF C, CaughtInv
    <3>2. ASSUME NEW i \in 1..Len(T), T[i] = W, Quiet(1, i - 1)
          PROVE  \E k \in 2..Len(T) : T[k] = W /\ Quiet(2, k - 1)
      <4>1. CASE i = 1
        <5>1. b \in Anc[W] /\ Height[b] <= Height[W]
          BY <1>3, <1>4, <3>2, <4>1, Lines
        <5>2. b = W
          BY <1>3, <1>4, <1>6, <5>1, Lines
        <5>3. T[2] = W /\ Quiet(2, 2 - 1) /\ 2 \in 2..Len(T)
          BY <1>2, <1>3, <5>2 DEF Quiet
        <5> QED
          BY <5>3
      <4>2. CASE i # 1
        BY <3>2, <4>2 DEF Quiet
      <4> QED
        BY <4>1, <4>2
    <3> QED
      BY <3>1, <3>2
  <2>3. W' = W /\ PathInv' /\ FullyValid(W)'
    BY <1>1, <1>4 DEF W, PathInv
  <2>4. C(Tail(T))'
    BY <1>1, <1>3, <1>5, <1>6, <2>1, <2>2, <2>3, CFinished
  <2> QED
    BY <1>1, <1>2, <1>3, <1>4, <1>6, <2>1, <2>4
<1>7. CASE Height[b] < height /\ Back(Height[b], Above(Height[b])) /\ queue' = queue
  <2>1. Height[b] \in 0..(height - 1)
    BY <1>3, <1>4, <1>7
  <2>2. /\ run'.stage = "back" /\ run'.block = hashes[Height[b]] /\ Height[b] \in 0..height
        /\ Height[hashes[Height[b]]] = Height[b]
    BY <1>7, <2>1, BackIs
  <2>3. hashes[Height[b]] \in Anc[W] /\ hashes[Height[b]] \in Anc[T[1]]
    BY <1>2, <1>4, <2>2, Below, Lines
  <2>4. run'.block = b
    BY <1>2, <1>3, <2>2, <2>3, Lines
  <2>5. Kind' = "reset" /\ W' = W
    BY <1>1, <1>2, <1>7 DEF Kind, W
  <2>6. JobInv'
    BY <1>1, <1>5, <1>7, <2>2, <2>4, <2>5 DEF JobInv
  <2>7. KnownInv(T)' /\ CaughtInv(T)'
    BY <1>1, <1>2, <1>3, <1>4, <1>7, <2>5 DEF C, KnownInv, CaughtInv, Quiet
  <2>8. C(T)'
    BY <1>1, <1>7, <2>6, <2>7, CStays
  <2> QED
    BY <1>2, <1>3, <1>4, <1>7, <2>1, <2>2, <2>3, <2>4, <2>5, <2>8
<1> QED
  BY <1>1, <1>6, <1>7

LEMMA RescanC ==
  ASSUME Inv1, NEW T, C(T), Rescan
  PROVE  C(T)' /\ Kind = "rescan" /\ Kind' = Kind /\ run'.stage \in {"back", "wait"}
<1>1. /\ queue # <<>> /\ Head(queue).kind = "rescan" /\ run.stage = "start"
      /\ tip' = tip /\ goal' = goal /\ locker' = locker /\ queue' = queue
      /\ height' = height /\ hashes' = hashes /\ cut' = cut
  BY DEF Rescan, First, chain, sync
<1>2. Kind = "rescan" /\ Kind' = Kind /\ W' = W /\ W \in Anc[T[1]]
  BY <1>1, OnTheWay DEF Kind, W
<1>3. run'.stage \in {"back", "wait"}
  <2>1. PICK h \in 0..height : Scan(h)
    BY DEF Rescan
  <2>2. CASE run' = Waiting
    BY <2>2, Jobs
  <2>3. CASE h # height /\ Back(h, Above(h))
    <3>1. h \in 0..(height - 1)
      BY <2>3, WIs
    <3> QED
      BY <2>3, <3>1, BackIs
  <2> QED
    BY <2>1, <2>2, <2>3 DEF Scan
<1>4. locker # "scan"
  BY <1>1, <1>2 DEF Inv1, StageInv
<1>5. JobInv'
  BY <1>1, <1>2, <1>3, <1>4 DEF JobInv
<1>6. KnownInv(T)' /\ CaughtInv(T)'
  BY <1>2, <1>3 DEF KnownInv, CaughtInv
<1> QED
  BY <1>1, <1>2, <1>3, <1>5, <1>6, CStays

LEMMA SyncNodeC ==
  ASSUME Inv1, NEW T, C(T), SyncNode
  PROVE  /\ C(T)' /\ Kind = "sync" /\ Kind' = Kind /\ queue' = queue
         /\ \/ run' = Waiting /\ hashes[height] \in Main
            \/ /\ run'.stage = "back"
               /\ \E h \in 0..(height - 1) : /\ run'.block = hashes[h] /\ hashes[h] \in Main
                                             /\ run'.left = Above(h) \cap mapped
                                             /\ \A n \in 0..height : hashes[n] \in Main => n <= h
         /\ ~Outstanding => /\ tip \in Anc[T[1]]
                            /\ run'.stage = "back" => run'.block \in Anc[T[1]]
                            /\ run'.stage # "back" => W \in Anc[T[1]]
<1>1. /\ queue # <<>> /\ Head(queue).kind = "sync" /\ run.stage = "start" /\ Scan(SyncHeight)
      /\ tip' = tip /\ goal' = goal /\ locker' = locker /\ queue' = queue
      /\ height' = height /\ hashes' = hashes /\ cut' = cut
  BY DEF SyncNode, First, chain, sync
<1>2. Kind = "sync" /\ Kind' = Kind /\ W' = W /\ Outstanding' = Outstanding
  BY <1>1 DEF Kind, W, Outstanding
<1> DEFINE h == SyncHeight
<1>3. /\ h \in 0..height /\ hashes[h] \in Main /\ height \in Nat
      /\ \A n \in 0..height : hashes[n] \in Main => n <= h
  BY SyncHeightIs, WIs
<1>4. locker # "scan"
  BY <1>1, <1>2 DEF Inv1, StageInv
<1>5. \/ h = height /\ run' = Waiting /\ run'.stage = "wait"
      \/ /\ h \in 0..(height - 1) /\ run'.stage = "back" /\ run'.block = hashes[h]
         /\ run'.left = Above(h) \cap mapped
  <2>1. CASE h = height /\ run' = Waiting
    BY <2>1, Jobs
  <2>2. CASE h # height /\ Back(h, Above(h))
    <3>1. h \in 0..(height - 1)
      BY <1>3, <2>2
    <3> HIDE DEF h
    <3> QED
      BY <2>2, <3>1, BackIs
  <2> QED
    BY <1>1, <2>1, <2>2 DEF Scan
<1>6. ASSUME ~Outstanding PROVE tip \in Anc[T[1]] /\ hashes[h] \in Anc[T[1]]
  <2>1. tip \in Anc[T[1]] /\ T[1] \in Block
    BY <1>6, QuietTrail, TrailEnds DEF C
  <2> QED
    BY <1>3, <2>1, Lines DEF Main
<1> HIDE DEF h
<1>7. JobInv'
  BY <1>1, <1>2, <1>4, <1>5 DEF JobInv
<1>8. KnownInv(T)' /\ CaughtInv(T)'
  BY <1>2, <1>5, <1>6 DEF KnownInv, Stuck, CaughtInv, W
<1>9. C(T)'
  BY <1>1, <1>7, <1>8, CStays
<1> QED
  BY <1>1, <1>2, <1>3, <1>5, <1>6, <1>9 DEF W

LEMMA WentBackC ==
  ASSUME Inv1, NEW T, C(T), WentBack
  PROVE  /\ W' = run.block /\ run.block \in Anc[W] /\ run.block \in Block /\ run.block # W
         /\ Height[run.block] < height
         /\ Kind \in {"disconnect", "reset", "rescan", "sync"}
         /\ \/ /\ Kind \in {"rescan", "sync"} /\ C(T)' /\ run' = Waiting /\ queue' = queue /\ Kind' = Kind
            \/ /\ Kind \in {"disconnect", "reset"} /\ C(Tail(T))' /\ Finish /\ run.block = T[2]
               /\ queue # <<>>
         /\ Kind = "disconnect" => W = Head(queue).of /\ W = T[1] /\ run.block = Parent[W]
         /\ Kind = "reset" => run.block = Head(queue).of
<1>1. /\ run.stage = "back"
      /\ tip' = tip /\ goal' = goal /\ locker' = locker /\ cut' = cut
      /\ IF Head(queue).kind \in {"rescan", "sync"} THEN run' = Waiting /\ queue' = queue ELSE Finish
  BY DEF WentBack, chain
<1>2. /\ Kind \in {"disconnect", "reset", "rescan", "sync"}
      /\ run.block \in Block /\ height' = Height[run.block] /\ hashes'[height'] = run.block
      /\ \A n \in 0..height' : n # height' => n \in 0..height /\ hashes'[n] = hashes[n]
  BY WentBackInv1
<1>3. PICK h \in 0..(height - 1) : run.block = hashes[h] /\ height' = h
  BY WentBackInv1
<1>4. height \in Nat /\ h \in 0..height /\ PathInv /\ W \in Block /\ Height[W] = height /\ FullyValid(W)
  BY WIs, TrailEnds DEF C
<1>5. /\ run.block \in Anc[W] /\ Height[run.block] = h
      /\ \A n \in 0..h : hashes[n] \in Anc[run.block]
      /\ h = height - 1 => run.block = Parent[W]
  BY <1>3, <1>4, Below
<1>6. run.block # W /\ Height[run.block] < height /\ W' = run.block /\ FullyValid(run.block)
  BY <1>2, <1>3, <1>4, <1>5, ValidBelow DEF W
<1>7. PathInv'
  <2>1. \A n \in 0..h : hashes'[n] \in Anc[run.block]
    <3> TAKE n \in 0..h
    <3>1. n = h => hashes'[n] \in Anc[run.block]
      BY <1>2, <1>3, Lines
    <3>2. n # h => hashes'[n] \in Anc[run.block]
      BY <1>2, <1>3, <1>5
    <3> QED
      BY <3>1, <3>2
  <2> QED
    BY <1>3, <1>6, <2>1 DEF PathInv
<1>8. queue # <<>> /\ locker # "scan" /\ BackInv
  BY <1>1 DEF Inv1, StageInv
<1>9. CASE Kind \in {"rescan", "sync"}
  <2>1. run' = Waiting /\ queue' = queue /\ run'.stage = "wait" /\ Kind' = Kind /\ Outstanding' = Outstanding
    BY <1>1, <1>8, <1>9, Jobs DEF Kind, Outstanding
  <2>2. TrailInv(T)' /\ ValidInv(T)'
    BY <1>1, <1>6, <2>1 DEF C, TrailInv, ValidInv
  <2>3. JobInv'
    BY <1>1, <1>8, <2>1 DEF JobInv
  <2>4. KnownInv(T)'
    <3>1. CASE Kind = "rescan"
      <4>1. W \in Anc[T[1]] /\ T[1] \in Block
        BY <3>1, OnTheWay
      <4>2. run.block \in Anc[T[1]]
        BY <1>5, <4>1, Lines
      <4> QED
        BY <1>6, <2>1, <3>1, <4>2 DEF KnownInv
    <3>2. CASE Kind = "sync"
      BY <1>1, <1>6, <2>1, <3>2 DEF C, KnownInv, Lost, Stuck
    <3> QED
      BY <1>9, <3>1, <3>2
  <2>5. CaughtInv(T)'
    BY <1>9, <2>1 DEF CaughtInv
  <2>6. C(T)'
    BY <1>7, <2>2, <2>3, <2>4, <2>5 DEF C
  <2> QED
    BY <1>2, <1>5, <1>6, <1>9, <2>1, <2>6
<1>10. CASE Kind \in {"disconnect", "reset"}
  <2>1. Head(queue).kind = Kind /\ Finish
    BY <1>1, <1>8, <1>10 DEF Kind
  <2>2. /\ Step(Head(queue), T[1], T[2]) /\ T[2] \in Block /\ Len(T) \in Nat /\ 2 \in 1..Len(T)
    BY <1>8, HeadStep DEF C
  <2>3. Kind = "disconnect" => W = Head(queue).of /\ W = T[1] /\ run.block = Parent[W] /\ run.block = T[2]
    <3> HAVE Kind = "disconnect"
    <3>1. Head(queue).of = W /\ run.block = hashes[height - 1]
      BY <1>1, <1>8 DEF C, JobInv, BackInv
    <3>2. W = T[1] /\ T[2] = Parent[W]
      BY <2>1, <2>2, <3>1 DEF Step
    <3>3. height - 1 \in 0..height
      BY <1>3, <1>4
    <3>4. run.block = Parent[W]
      BY <1>4, <3>1, <3>3, Below
    <3> QED
      BY <3>1, <3>2, <3>4
  <2>4. Kind = "reset" => run.block = Head(queue).of /\ run.block = T[2]
    BY <1>1, <2>1, <2>2 DEF C, JobInv, Step
  <2>5. run.block = T[2]
    BY <1>10, <2>3, <2>4
  <2>6. FullyValid(W)' /\ W' \in Anc[T[2]]
    BY <1>6, <2>2, <2>5, Lines
  <2>7. 2 \in 2..Len(T) /\ T[2] = W' /\ Quiet(2, 2 - 1)
    BY <1>6, <2>2, <2>5 DEF Quiet
  <2>8. C(Tail(T))'
    BY <1>1, <1>7, <1>8, <2>1, <2>6, <2>7, CFinished
  <2> QED
    BY <1>2, <1>5, <1>6, <1>8, <1>10, <2>1, <2>3, <2>4, <2>5, <2>8
<1> QED
  BY <1>2, <1>9, <1>10

\* A request that leaves the chain where it was is done.
LEMMA CLeaves ==
  ASSUME Inv1, NEW T, C(T), Kind \in {"rescan", "sync"}, Finish, UNCHANGED <<tip, goal, height, hashes>>,
         locker' # "scan", W \in Anc[T[1]],
         cut' \/ (~Outstanding /\ W = tip)
  PROVE  C(Tail(T))' /\ T[2] = T[1] /\ queue # <<>> /\ W' = W
<1>1. queue # <<>> /\ Head(queue).kind = Kind
  BY DEF Kind
<1>2. Step(Head(queue), T[1], T[2]) /\ Len(T) \in Nat /\ 2 \in 1..Len(T)
  BY <1>1, HeadStep DEF C
<1>3. T[2] = T[1]
  BY <1>1, <1>2 DEF Step
<1>4. W' = W /\ PathInv' /\ FullyValid(W)'
  BY TrailEnds DEF C, PathInv, W
<1>5. cut' \/ \E i \in 2..Len(T) : T[i] = W' /\ Quiet(2, i - 1)
  <2>1. ASSUME ~Outstanding, W = tip
        PROVE  \E i \in 2..Len(T) : T[i] = W' /\ Quiet(2, i - 1)
    <3>1. Len(T) \in 2..Len(T) /\ T[Len(T)] = tip /\ Len(T) = Len(queue) + 1 /\ Len(queue) \in Nat
      BY <1>2, TrailEnds, WIs
    <3>2. Quiet(2, Len(T) - 1)
      <4>1. \A j \in 2..(Len(T) - 1) : j \in 1..Len(queue)
        BY <3>1
      <4> QED
        BY <2>1, <4>1 DEF Quiet, Outstanding, Events
    <3> QED
      BY <1>4, <2>1, <3>1, <3>2
  <2> QED
    BY <2>1
<1>6. C(Tail(T))'
  BY <1>1, <1>3, <1>4, <1>5, CFinished
<1> QED
  BY <1>1, <1>3, <1>4, <1>6

LEMMA ScanStartC ==
  ASSUME Inv1, NEW T, C(T), ScanStart
  PROVE  /\ Kind \in {"rescan", "sync"} /\ W \in Anc[T[1]] /\ tip \in Anc[T[1]] /\ W' = W
         /\ \/ /\ C(T)' /\ queue' = queue /\ Kind' = Kind /\ run' = Scanning(W) /\ W \in Main
            \/ /\ C(Tail(T))' /\ Finish /\ T[2] = T[1] /\ queue # <<>> /\ cut'
<1>1. /\ run.stage = "wait" /\ locker = "free"
      /\ tip' = tip /\ goal' = goal /\ height' = height /\ hashes' = hashes
      /\ \/ /\ W \in Main
            /\ locker' = "scan" /\ run' = Scanning(W)
            /\ queue' = queue /\ cut' = cut
         \/ /\ W \notin Main
            /\ Finish /\ cut' = TRUE /\ locker' = locker
  BY DEF ScanStart, sync, W
<1>2. ~Outstanding /\ Kind \in {"rescan", "sync"}
  BY ScanStartInv1
<1>3. tip \in Anc[T[1]]
  BY <1>2, QuietTrail, TrailEnds DEF C
<1>4. W \in Anc[T[1]] /\ W' = W
  BY <1>1, <1>2 DEF C, KnownInv, Lost, Stuck, W
<1>5. CASE W \in Main /\ locker' = "scan" /\ run' = Scanning(W) /\ queue' = queue /\ cut' = cut
  <2>1. run'.stage = "scan" /\ run'.block = W /\ W # NoBlock /\ Kind' = Kind
    BY <1>5, Jobs, WIs DEF Kind
  <2>2. JobInv'
    BY <1>1, <1>4, <1>5, <2>1 DEF JobInv, Main
  <2>3. KnownInv(T)' /\ CaughtInv(T)'
    BY <1>2, <1>4, <2>1 DEF KnownInv, CaughtInv
  <2>4. C(T)'
    BY <1>1, <1>5, <2>2, <2>3, CStays
  <2> QED
    BY <1>2, <1>3, <1>4, <1>5, <2>1, <2>4
<1>6. CASE Finish /\ cut' = TRUE /\ locker' = locker
  BY <1>1, <1>2, <1>3, <1>4, <1>6, CLeaves
<1> QED
  BY <1>1, <1>5, <1>6

LEMMA ScanBlockC ==
  ASSUME Inv1, NEW T, C(T), ScanBlock
  PROVE  /\ C(T)' /\ Kind \in {"rescan", "sync"} /\ Kind' = Kind /\ queue' = queue
         /\ run' = Adding(run.block) /\ run.block \in Block
         /\ run.block = W \/ Parent[run.block] = W
<1>1. /\ run.stage = "scan" /\ run.block # NoBlock
      /\ run' = IF Height[run.block] \in {height, height + 1} THEN Adding(run.block)
                ELSE Scanning(After(run.block))
      /\ tip' = tip /\ goal' = goal /\ locker' = locker /\ queue' = queue
      /\ height' = height /\ hashes' = hashes /\ cut' = cut
  BY DEF ScanBlock, chain, sync
<1>2. Kind \in {"rescan", "sync"} /\ run.block \in Block /\ locker = "scan"
  BY ScanBlockInv1
<1>3. run.block \in Main /\ (run.block = W \/ Parent[run.block] = W) /\ W \in Main
  BY <1>1, <1>2 DEF C, JobInv
<1>4. Height[run.block] \in {height, height + 1}
  BY <1>2, <1>3, WIs, Child
<1>5. run' = Adding(run.block) /\ run'.stage = "adding" /\ run'.block = run.block
  BY <1>1, <1>4, Jobs
<1>6. Kind' = Kind /\ W' = W /\ Main' = Main /\ Outstanding' = Outstanding
  BY <1>1 DEF Kind, W, Main, Outstanding
<1>7. JobInv'
  BY <1>1, <1>2, <1>3, <1>5, <1>6 DEF JobInv
<1>8. W \in Anc[T[1]]
  BY <1>1, <1>2 DEF C, KnownInv, Lost, Stuck
<1>9. KnownInv(T)' /\ CaughtInv(T)'
  BY <1>2, <1>5, <1>6, <1>8 DEF KnownInv, CaughtInv
<1>10. C(T)'
  BY <1>1, <1>7, <1>9, CStays
<1> QED
  BY <1>1, <1>2, <1>3, <1>5, <1>6, <1>10

LEMMA LeaveC ==
  ASSUME Inv1, NEW T, C(T), ScanEnd \/ Abort
  PROVE  /\ C(Tail(T))' /\ Finish /\ queue # <<>> /\ T[2] = T[1] /\ W' = W
         /\ Kind \in {"rescan", "sync"} /\ W \in Anc[T[1]] /\ tip \in Anc[T[1]] /\ W \in Main
         /\ ScanEnd => W = tip
<1>1. /\ run.stage = "scan" /\ locker' = "free" /\ Finish
      /\ tip' = tip /\ goal' = goal /\ height' = height /\ hashes' = hashes
      /\ ScanEnd => run.block = NoBlock /\ cut' = cut
      /\ Abort => cut'
  BY DEF ScanEnd, Abort, sync
<1>2. ~Outstanding /\ Kind \in {"rescan", "sync"} /\ queue # <<>> /\ locker = "scan"
  BY LeaveInv1
<1>3. W \in Anc[T[1]] /\ W \in Main /\ (ScanEnd => W = tip)
  BY <1>1, <1>2 DEF C, KnownInv, Lost, Stuck, JobInv
<1>4. tip \in Anc[T[1]]
  BY <1>2, QuietTrail, TrailEnds DEF C
<1>5. C(Tail(T))' /\ T[2] = T[1] /\ W' = W
  BY <1>1, <1>2, <1>3, CLeaves
<1> QED
  BY <1>1, <1>2, <1>3, <1>4, <1>5

LEMMA InitC == Init => C(<<tip>>) /\ W = tip
<1> HAVE Init
<1>1. /\ Start \in Block /\ FullyValid(Start) /\ Height[Start] \in Nat
  BY WalletAssumption, HeightIn
<1>2. /\ tip = Start /\ goal = Start /\ locker = "free" /\ height = Height[Start]
      /\ hashes = [h \in 0..height |-> CHOOSE b \in Anc[Start] : Height[b] = h]
      /\ queue = <<>> /\ run = NoJob /\ cut = FALSE
  BY DEF Init
<1>3. \A h \in 0..height : hashes[h] \in Anc[Start] /\ Height[hashes[h]] = h
  <2> TAKE h \in 0..height
  <2>1. \E a \in Anc[Start] : Height[a] = h
    BY <1>1, <1>2, AtHeight
  <2>2. hashes[h] = CHOOSE b \in Anc[Start] : Height[b] = h
    BY <1>2
  <2> QED
    BY <2>1, <2>2
<1>4. W = Start
  <2>1. height \in 0..height
    BY <1>1, <1>2
  <2>2. W \in Anc[Start] /\ Height[W] = Height[Start]
    BY <1>2, <1>3, <2>1 DEF W
  <2> QED
    BY <1>1, <2>2, Lines
<1> DEFINE T == <<tip>>
<1>5. T \in Seq(Block) /\ Len(T) = 1 /\ T[1] = Start
  BY <1>1, <1>2
<1>6. TrailInv(T)
  BY <1>2, <1>5 DEF TrailInv
<1>7. ValidInv(T)
  <2>1. \A i \in 1..Len(T) : T[i] = Start
    BY <1>5
  <2> QED
    BY <1>1, <1>2, <1>4, <2>1 DEF ValidInv
<1>8. PathInv /\ JobInv
  BY <1>2, <1>3, <1>4, Jobs DEF PathInv, JobInv
<1> HIDE DEF T
<1>9. KnownInv(T)
  <2>1. Kind = "none"
    BY <1>2 DEF Kind
  <2> QED
    BY <1>1, <1>4, <1>5, <2>1, Lines DEF KnownInv
<1>10. CaughtInv(T)
  <2>1. 1 \in 1..Len(T) /\ T[1] = W /\ Quiet(1, 1 - 1)
    BY <1>4, <1>5 DEF Quiet
  <2> QED
    BY <2>1 DEF CaughtInv
<1>11. C(T)
  BY <1>6, <1>7, <1>8, <1>9, <1>10 DEF C
<1> QED
  BY <1>2, <1>4, <1>11 DEF T
=============================================================================
