-------------------------- MODULE BlockStoreProofs --------------------------
(***************************************************************************)
(* The block store keeps what it promises for any blocks, any size of a    *)
(* file, and however many crashes, errors and index passes: TypeOK,        *)
(* CountsCover, AllReadable and KeepsPromise, from one inductive invariant.*)
(***************************************************************************)
EXTENDS BlockStore, TLAPS, FiniteSetTheorems, SequenceTheorems,
        WellFoundedInduction

\* No file outgrows maxFileLength, so a scan counts no more than a record holds.
FilesFit == \A f \in DOMAIN files : Len(files[f]) <= Cap

\* The next write to the last file starts where pieces end, or before.
LastFits ==
  last \in DOMAIN frec =>
    last \in DOMAIN files /\ frec[last].used <= Len(files[last])

\* What is written goes behind what the last file's record counts, or to a file
\* that is started.
Appends ==
  last \in DOMAIN frec /\ target = [fileno |-> last, filerecord |-> frec[last]]

Starts ==
  /\ target.filerecord = NewRecord
  /\ target.fileno = last => last \notin DOMAIN frec

JobOK ==
  phase \in {"touch", "write", "commit"} =>
    /\ job \in Block \ DOMAIN brec
    /\ target.filerecord.used < Cap
    /\ Starts \/ (phase # "touch" /\ Appends)

\* The file of the write is there, and before the batch the piece is too.
PieceOK ==
  /\ phase = "write" =>
       /\ target.fileno \in DOMAIN files
       /\ target.filerecord.used <= Len(files[target.fileno])
  /\ phase = "commit" =>
       /\ target.fileno \in DOMAIN files
       /\ Len(files[target.fileno]) = target.filerecord.used + 1
       /\ files[target.fileno][target.filerecord.used + 1] = [block |-> job, kind |-> "whole"]

\* The index pass has not read any of the files without a record; the file to
\* unlink has none.
TodoOK ==
  /\ phase = "opening" => todo \subseteq DOMAIN files /\ DOMAIN files \ DOMAIN frec \subseteq todo
  /\ phase = "unlink" => todo \cap DOMAIN frec = {}

\* A block's record names a whole piece of it that the file's record spans, and
\* is counted there.
RecordsAgree ==
  /\ \A b \in DOMAIN brec :
       /\ Readable(b)
       /\ brec[b].file \in DOMAIN frec
       /\ brec[b].position <= frec[brec[b].file].used
  /\ \A f \in DOMAIN frec :
       /\ frec[f].blocks <= frec[f].used
       /\ Cardinality(InFile(f)) <= frec[f].blocks

\* No record names a file that is started over.
StartsFresh == phase \in {"write", "commit"} => Appends \/ InFile(target.fileno) = {}

IInv ==
  /\ TypeOK /\ IsFiniteSet(DOMAIN brec)
  /\ FilesFit /\ LastFits /\ JobOK /\ PieceOK /\ TodoOK
  /\ ~harmed => RecordsAgree /\ StartsFresh

----------------------------------------------------------------------------
\* Lemmas on numbers.

LEMMA Least ==
  ASSUME NEW T \in SUBSET Nat, T # {}
  PROVE  \E x \in T : \A y \in T : x <= y
<1>1. IsWellFoundedOn(OpToRel(<, Nat), Nat)
  BY NatLessThanWellFounded
<1>2. PICK x \in T : \A y \in T : ~(<<y, x>> \in OpToRel(<, Nat))
  BY <1>1, WFMin
<1>3. \A y \in T : ~(y < x)
  BY <1>2 DEF OpToRel
<1> QED
  BY <1>3

LEMMA Greatest ==
  ASSUME NEW n \in Nat, NEW S \in SUBSET (1..n), S # {}
  PROVE  \E x \in S : \A y \in S : y <= x
<1> DEFINE T == {n - i : i \in S}
<1>1. PICK t \in T : \A u \in T : t <= u
  <2>1. \A i \in S : n - i \in Nat
    OBVIOUS
  <2>2. T \in SUBSET Nat /\ T # {}
    BY <2>1
  <2> HIDE DEF T
  <2> QED
    BY <2>2, Least
<1>2. PICK x \in S : t = n - x
  OBVIOUS
<1>3. \A y \in S : n - x <= n - y
  BY <1>1, <1>2
<1> QED
  BY <1>3

----------------------------------------------------------------------------
\* What the scan of a file finds.

\* A reading finds blocks where there are pieces, and with the torn ones that are
\* counted no more than lie before the place of the next write.
LEMMA ReadingBounded ==
  ASSUME NEW s \in Seq(Piece), NEW found \in Readings(s), NEW u \in Used(s, found),
         NEW n \in 0..Cardinality(Torn(s) \ found)
  PROVE  /\ found \subseteq 1..u /\ u \in 0..Len(s)
         /\ IsFiniteSet(found) /\ Cardinality(found) \in Nat
         /\ n \in Nat /\ Cardinality(found) + n \in Nat /\ Cardinality(found) + n <= u
<1> DEFINE torn == Torn(s) \ found
<1>1. /\ DOMAIN s = 1..Len(s) /\ Len(s) \in Nat
      /\ found \subseteq 1..Len(s) /\ torn \subseteq 1..Len(s)
  BY DEF Readings, Torn
<1>2. \/ u = Len(s)
      \/ u = Len(s) - 1 /\ u + 1 \in DOMAIN s /\ u + 1 \notin found /\ u + 1 \notin torn
  BY DEF Used
<1>3. u \in Nat /\ u <= Len(s)
  BY <1>1, <1>2
<1>4. found \subseteq 1..u /\ torn \subseteq 1..u
  <2> HIDE DEF torn
  <2> SUFFICES ASSUME NEW i \in found \cup torn
               PROVE  i \in 1..u
    OBVIOUS
  <2>1. i \in Nat /\ 1 <= i /\ i <= Len(s)
    BY <1>1
  <2>2. \A k, l \in Nat : k = l - 1 /\ i <= l /\ i # k + 1 => i <= k
    BY <2>1
  <2>3. CASE u = Len(s)
    BY <1>3, <2>1, <2>3
  <2>4. CASE u = Len(s) - 1 /\ u + 1 \notin found /\ u + 1 \notin torn
    <3>1. i # u + 1
      BY <2>4
    <3>2. i <= u
      BY <1>1, <1>3, <2>1, <2>2, <2>4, <3>1
    <3> QED
      BY <1>3, <2>1, <3>2
  <2> QED
    BY <1>2, <2>3, <2>4
<1>5. IsFiniteSet(1..u) /\ Cardinality(1..u) = u
  <2>1. ASSUME NEW k \in Nat
        PROVE  IsFiniteSet(1..k) /\ Cardinality(1..k) = k
    <3>1. Cardinality(1..k) = IF 1 > k THEN 0 ELSE k - 1 + 1
      BY FS_Interval
    <3>2. IsFiniteSet(1..k)
      BY FS_Interval
    <3> QED
      BY <3>1, <3>2
  <2> QED
    BY <1>3, <2>1
<1>6. found \cap torn = {} /\ found \cup torn \in SUBSET (1..u)
  BY <1>4
<1> HIDE DEF torn
<1>7. /\ IsFiniteSet(found) /\ IsFiniteSet(torn)
      /\ IsFiniteSet(found \cup torn) /\ Cardinality(found \cup torn) <= u
  BY <1>4, <1>5, <1>6, FS_Subset
<1>8. Cardinality(found \cup torn) = Cardinality(found) + Cardinality(torn) - Cardinality({})
  <2>1. Cardinality(found \cup torn)
          = Cardinality(found) + Cardinality(torn) - Cardinality(found \cap torn)
    BY <1>7, FS_Union
  <2> QED
    BY <1>6, <2>1
<1>9. Cardinality({}) = 0
  BY FS_EmptySet
<1>10. Cardinality(found) \in Nat /\ Cardinality(torn) \in Nat
  BY <1>7, FS_CardinalityType
<1>11. n \in Nat /\ n <= Cardinality(torn)
  BY <1>10 DEF torn
<1> QED
  BY <1>3, <1>4, <1>7, <1>8, <1>9, <1>10, <1>11

\* The records the scan of f writes: for every block found one, of the last
\* place where it was found.
LEMMA RecordsAt ==
  ASSUME NEW f, files[f] \in Seq(Piece), NEW found \in Readings(files[f])
  PROVE  /\ DOMAIN Records(f, found) = {files[f][i].block : i \in found}
         /\ \A b \in DOMAIN Records(f, found) :
              \E i \in found :
                /\ files[f][i].block = b
                /\ Records(f, found)[b] = [file |-> f, position |-> i]
<1> DEFINE at(b) == {i \in found : files[f][i].block = b}
<1>1. found \subseteq 1..Len(files[f]) /\ Len(files[f]) \in Nat
  BY DEF Readings
<1>2. DOMAIN Records(f, found) = {files[f][i].block : i \in found}
  BY DEF Records
<1>3. ASSUME NEW b \in DOMAIN Records(f, found)
      PROVE  \E i \in found : /\ files[f][i].block = b
                              /\ Records(f, found)[b] = [file |-> f, position |-> i]
  <2>1. at(b) # {} /\ at(b) \in SUBSET (1..Len(files[f]))
    BY <1>1, <1>2, <1>3
  <2>2. \E i \in at(b) : \A j \in at(b) : j <= i
    <3> HIDE DEF at
    <3> QED
      BY <2>1, <1>1, Greatest
  <2> DEFINE top == CHOOSE i \in at(b) : \A j \in at(b) : j <= i
  <2>3. top \in at(b)
    <3> HIDE DEF at
    <3> QED
      BY <2>2
  <2>4. Records(f, found)[b] = [file |-> f, position |-> top]
    BY <1>3 DEF Records
  <2> QED
    BY <2>3, <2>4
<1> QED
  BY <1>2, <1>3

----------------------------------------------------------------------------
\* The steps of a write.

\* What the invariant says of the directory and the index, whatever runs.
DiskOK ==
  /\ DOMAIN files \subseteq File
  /\ \A f \in DOMAIN files : files[f] \in Seq(Piece)
  /\ FilesFit /\ LastFits
  /\ ~harmed => RecordsAgree

LEMMA InvDisk == IInv => DiskOK
BY DEF IInv, DiskOK, TypeOK

\* The file of the write keeps the pieces before filerecord.used, and has one
\* more.
LEMMA WrittenFile ==
  ASSUME IInv, phase = "write", NEW piece \in Piece
  PROVE  LET f == target.fileno
             u == target.filerecord.used
             w == Written(piece)
         IN /\ DOMAIN w = DOMAIN files /\ f \in DOMAIN files /\ u \in Nat /\ u < Cap
            /\ w[f] \in Seq(Piece)
            /\ Len(w[f]) = u + 1 /\ DOMAIN w[f] = 1..(u + 1)
            /\ w[f][u + 1] = piece
            /\ \A i \in 1..u : w[f][i] = files[f][i]
            /\ \A g \in DOMAIN files \ {f} : w[g] = files[g]
<1> DEFINE f == target.fileno
           u == target.filerecord.used
           old == files[f]
           new == SubSeq(old, 1, u) \o <<piece>>
<1>1. f \in DOMAIN files /\ u \in Nat /\ u < Cap
  BY DEF IInv, TypeOK, JobOK, PieceOK, Target, FileRecord
<1>2. old \in Seq(Piece) /\ u <= Len(old)
  BY <1>1 DEF IInv, TypeOK, PieceOK
<1>4. /\ new \in Seq(Piece) /\ Len(new) = u + 1
      /\ new[u + 1] = piece
      /\ \A i \in 1..u : new[i] = old[i]
  <2> HIDE DEF u, old
  <2> DEFINE kept == SubSeq(old, 1, u)
  <2>1. kept \in Seq(Piece) /\ Len(kept) = u /\ \A i \in 1..u : kept[i] = old[i]
    BY <1>1, <1>2
  <2> HIDE DEF kept
  <2>2. <<piece>> \in Seq(Piece) /\ Len(<<piece>>) = 1 /\ <<piece>>[1] = piece
    OBVIOUS
  <2> DEFINE one == <<piece>>
  <2> HIDE DEF one
  <2>3. /\ kept \o one \in Seq(Piece) /\ Len(kept \o one) = u + 1
        /\ \A i \in 1..(u + 1) : (kept \o one)[i] = IF i <= u THEN kept[i] ELSE one[i - u]
    BY <1>1, <2>1, <2>2, ConcatProperties DEF one
  <2>4. (kept \o one)[u + 1] = piece
    BY <1>1, <2>2, <2>3 DEF one
  <2>5. \A i \in 1..u : (kept \o one)[i] = old[i]
    BY <1>1, <2>1, <2>3
  <2> QED
    BY <2>3, <2>4, <2>5, Zenon DEF one, kept
<1>5. DOMAIN new = 1..(u + 1)
  BY <1>4
<1> HIDE DEF new
<1>6. Written(piece) = With(files, f, new)
  BY DEF Written, new
<1>7. /\ DOMAIN Written(piece) = DOMAIN files \cup {f}
      /\ Written(piece)[f] = new
      /\ \A g \in DOMAIN files \ {f} : Written(piece)[g] = files[g]
  BY <1>6 DEF With
<1> QED
  BY <1>1, <1>4, <1>5, <1>7

\* What a write leaves is a piece.
LEMMA RemainsType ==
  ASSUME IInv, phase = "write"
  PROVE  Whole \in Piece /\ Remains \subseteq Piece
<1>1. job \in Block /\ target.fileno \in DOMAIN files
  BY DEF IInv, JobOK, PieceOK
<1>2. files[target.fileno] \in Seq(Piece)
  BY <1>1 DEF IInv, TypeOK
<1>3. \A i \in DOMAIN files[target.fileno] : files[target.fileno][i].block \in Block
  <2> SUFFICES ASSUME NEW s \in Seq(Piece), NEW i \in DOMAIN s
               PROVE  s[i].block \in Block
    BY <1>2
  <2>1. s[i] \in Piece
    OBVIOUS
  <2> QED
    BY <2>1 DEF Piece
<1>4. Older \subseteq Block
  BY <1>3 DEF Older
<1> QED
  BY <1>1, <1>4 DEF Whole, Remains, Piece, Kinds

\* A piece that goes behind what the records count leaves them right, whole or
\* torn.
LEMMA WriteKeepsDisk ==
  ASSUME IInv, phase = "write", NEW piece \in Piece, files' = Written(piece),
         UNCHANGED <<frec, brec, last, harmed>>
  PROVE  DiskOK'
<1> DEFINE f == target.fileno
           u == target.filerecord.used
<1> HIDE DEF f, u
<1>1. /\ DOMAIN files' = DOMAIN files /\ f \in DOMAIN files /\ u \in Nat /\ u < Cap
      /\ files'[f] \in Seq(Piece)
      /\ Len(files'[f]) = u + 1 /\ DOMAIN files'[f] = 1..(u + 1)
      /\ \A i \in 1..u : files'[f][i] = files[f][i]
      /\ \A g \in DOMAIN files \ {f} : files'[g] = files[g]
  BY WrittenFile DEF f, u
<1>2. (\A g \in DOMAIN files : files[g] \in Seq(Piece)) /\ DOMAIN files \subseteq File
  BY DEF IInv, TypeOK
<1>3. FilesFit'
  BY <1>1, BlockStoreAssumption DEF FilesFit, IInv
<1>4. ~Starts => f = last /\ last \in DOMAIN frec /\ frec[last].used = u
  BY DEF IInv, JobOK, Appends, f, u
<1>5. Starts => f # last \/ last \notin DOMAIN frec
  BY DEF Starts, f
<1>6. LastFits'
  BY <1>1, <1>4, <1>5 DEF IInv, LastFits
<1>7. ASSUME ~harmed
      PROVE  RecordsAgree'
  <2>1. RecordsAgree /\ (Appends \/ InFile(f) = {})
    BY <1>7 DEF IInv, StartsFresh, f
  <2>2. \A b \in DOMAIN brec : brec[b].file = f => brec[b].position <= u
    BY <2>1 DEF RecordsAgree, Appends, InFile, f, u
  <2>3. ASSUME NEW b \in DOMAIN brec
        PROVE  Readable(b)'
    <3>1. Readable(b) /\ brec[b].file \in DOMAIN files
      BY <2>1 DEF RecordsAgree, Readable
    <3>2. CASE brec[b].file # f
      BY <3>1, <3>2, <1>1 DEF Readable
    <3>3. CASE brec[b].file = f
      <4>1. brec[b].position \in 1..u
        BY <2>2, <3>3 DEF IInv, TypeOK, BlockRecord
      <4>2. brec[b].position \in 1..(u + 1)
        BY <4>1, <1>1
      <4> QED
        BY <3>1, <3>3, <4>1, <4>2, <1>1 DEF Readable
    <3> QED
      BY <3>2, <3>3
  <2>4. \A g : InFile(g)' = InFile(g)
    BY DEF InFile
  <2> QED
    BY <2>1, <2>3, <2>4 DEF RecordsAgree
<1> QED
  BY <1>1, <1>2, <1>3, <1>6, <1>7 DEF DiskOK

LEMMA NewRecordType == NewRecord \in FileRecord /\ NewRecord.used = 0 /\ NewRecord.blocks = 0
BY BlockStoreAssumption DEF NewRecord, FileRecord

\* The three choices of allocate: behind the pieces of the last file, the last
\* file when it has no record, or the next one when it is full.
LEMMA AllocateChoice ==
  ASSUME IInv
  PROVE  /\ Allocate.filerecord \in FileRecord /\ Allocate.filerecord.used < Cap
         /\ \/ /\ last \in DOMAIN frec /\ ~Touches(Allocate)
               /\ Allocate = [fileno |-> last, filerecord |-> frec[last]]
            \/ /\ Touches(Allocate)
               /\ Allocate.filerecord = NewRecord
               /\ Allocate.fileno = last => last \notin DOMAIN frec
<1>1. last \in Nat /\ Cap \in Nat \ {0}
  BY BlockStoreAssumption DEF IInv, TypeOK, File
<1>2. CASE last \notin DOMAIN frec
  BY <1>1, <1>2, NewRecordType DEF Allocate, Touches
<1>3. CASE last \in DOMAIN frec
  <2>1. frec[last] \in FileRecord /\ frec[last].used \in Nat
    BY <1>3 DEF IInv, TypeOK, FileRecord
  <2>2. CASE frec[last].used + 1 > Cap
    <3>1. Allocate = [fileno |-> last + 1, filerecord |-> NewRecord]
      BY <1>3, <2>2 DEF Allocate
    <3> QED
      BY <1>1, <3>1, NewRecordType DEF Touches
  <2>3. CASE ~(frec[last].used + 1 > Cap)
    <3>1. Allocate = [fileno |-> last, filerecord |-> frec[last]]
      BY <1>3, <2>3 DEF Allocate
    <3> QED
      BY <1>1, <1>3, <2>1, <2>3, <3>1 DEF Touches
  <2> QED
    BY <2>2, <2>3
<1> QED
  BY <1>2, <1>3

LEMMA WriteInv ==
  ASSUME IInv, NEW b \in Block, Write(b)
  PROVE  IInv'
<1>1. UNCHANGED disk /\ UNCHANGED <<todo, crashes, faults, harmed>>
  BY DEF Write
<1>2. UNCHANGED <<files, frec, brec, last>>
  BY <1>1 DEF disk
<1>3. /\ phase' = IF Touches(Allocate) THEN "touch" ELSE "write"
      /\ job' = b /\ target' = Allocate /\ writing' = TRUE
      /\ Allocate.fileno \in File /\ b \notin DOMAIN brec
  BY DEF Write, Wanted
<1>4. Allocate \in Target
  <2>1. Allocate.filerecord \in FileRecord
    BY AllocateChoice
  <2>2. Allocate = [fileno |-> Allocate.fileno, filerecord |-> Allocate.filerecord]
    BY DEF Allocate
  <2> QED
    BY <1>3, <2>1, <2>2 DEF Target
<1>5. TypeOK'
  BY <1>1, <1>2, <1>3, <1>4 DEF IInv, TypeOK, Phases
<1>6. Starts' \/ (phase' # "touch" /\ Appends')
  BY <1>2, <1>3, AllocateChoice DEF Starts, Appends
<1>7. JobOK'
  BY <1>2, <1>3, <1>6, AllocateChoice DEF JobOK
<1>8. phase' = "write" => /\ target' = [fileno |-> last, filerecord |-> frec[last]]
                          /\ last \in DOMAIN frec
  BY <1>3, AllocateChoice
<1>9. phase' # "commit" /\ phase' # "opening" /\ phase' # "unlink"
  BY <1>3
<1>10. PieceOK'
  BY <1>2, <1>8, <1>9 DEF IInv, LastFits, PieceOK
<1>11. FilesFit' /\ LastFits' /\ IsFiniteSet(DOMAIN brec)'
  BY <1>2 DEF IInv, FilesFit, LastFits
<1>12. ~harmed' => RecordsAgree'
  BY <1>1, <1>2 DEF IInv, RecordsAgree, Readable, InFile
<1>13. StartsFresh'
  BY <1>2, <1>8, <1>9 DEF StartsFresh, Appends
<1> QED
  BY <1>5, <1>7, <1>9, <1>10, <1>11, <1>12, <1>13 DEF IInv, TodoOK

\* Only a file that no record names is started over, unless harm is done.
LEMMA TouchInv ==
  ASSUME IInv, Touch
  PROVE  IInv'
<1> DEFINE f == target.fileno
<1> HIDE DEF f
<1>1. /\ phase = "touch" /\ phase' = "write" /\ f \in File
      /\ UNCHANGED <<frec, brec, last, writing, job, target, todo, crashes, faults>>
      /\ files' = With(files, f, <<>>)
      /\ harmed' = (harmed \/ (f # last /\ InFile(f) # {}))
  BY DEF Touch, IInv, TypeOK, Target, f
<1>2. /\ DOMAIN files' = DOMAIN files \cup {f} /\ files'[f] = <<>>
      /\ \A g \in DOMAIN files \ {f} : files'[g] = files[g]
  <2>1. PICK e : e = <<>>
    OBVIOUS
  <2>2. files' = With(files, f, e)
    BY <1>1, <2>1
  <2> QED
    BY <2>1, <2>2 DEF With
<1>3. \A g \in DOMAIN files' : files'[g] \in Seq(Piece)
  <2>1. <<>> \in Seq(Piece)
    BY EmptySeq
  <2> QED
    BY <1>2, <2>1 DEF IInv, TypeOK
<1>4. TypeOK'
  BY <1>1, <1>2, <1>3 DEF IInv, TypeOK, Phases
<1>5. target.filerecord.used = 0 /\ target.filerecord = NewRecord
      /\ (f = last => last \notin DOMAIN frec)
  BY <1>1, NewRecordType DEF IInv, JobOK, Starts, f
<1>6. JobOK'
  BY <1>1 DEF IInv, JobOK, Starts, Appends
<1>7. PieceOK'
  <2>1. Len(files'[f]) = 0
    BY <1>2
  <2> QED
    BY <1>1, <1>2, <1>5, <2>1 DEF PieceOK, f
<1>8. FilesFit'
  <2>1. Len(files'[f]) <= Cap
    BY <1>2, BlockStoreAssumption
  <2> QED
    BY <1>2, <2>1 DEF IInv, FilesFit
<1>9. LastFits'
  BY <1>1, <1>2, <1>5 DEF IInv, LastFits
<1>10. ASSUME ~harmed'
       PROVE  RecordsAgree' /\ StartsFresh'
  <2>1. ~harmed /\ RecordsAgree /\ (f = last \/ InFile(f) = {})
    BY <1>1, <1>10 DEF IInv
  <2>2. InFile(f) = {}
    BY <1>5, <2>1 DEF RecordsAgree, InFile
  <2>3. \A g : InFile(g)' = InFile(g)
    BY <1>1 DEF InFile
  <2>4. \A b \in DOMAIN brec : Readable(b)'
    BY <1>1, <1>2, <2>1, <2>2 DEF RecordsAgree, Readable, InFile
  <2>5. RecordsAgree'
    BY <1>1, <2>1, <2>3, <2>4 DEF RecordsAgree
  <2> QED
    BY <1>1, <2>2, <2>3, <2>5 DEF StartsFresh, f
<1> QED
  BY <1>1, <1>4, <1>6, <1>7, <1>8, <1>9, <1>10 DEF IInv, TodoOK

LEMMA WritePieceInv ==
  ASSUME IInv, WritePiece
  PROVE  IInv'
<1>1. /\ phase = "write" /\ phase' = "commit" /\ files' = Written(Whole)
      /\ UNCHANGED <<frec, brec, last, writing, job, target, todo, crashes, faults, harmed>>
  BY DEF WritePiece
<1>2. Whole \in Piece
  BY <1>1, RemainsType
<1>3. DiskOK'
  BY <1>1, <1>2, WriteKeepsDisk
<1>4. TypeOK'
  BY <1>1, <1>3 DEF IInv, TypeOK, DiskOK, Phases
<1>5. PieceOK'
  BY <1>1, <1>2, WrittenFile DEF PieceOK, Whole
<1>6. JobOK' /\ (~harmed => StartsFresh')
  BY <1>1 DEF IInv, JobOK, Starts, Appends, StartsFresh, InFile
<1> QED
  BY <1>1, <1>3, <1>4, <1>5, <1>6 DEF IInv, DiskOK, TodoOK

\* Nothing runs any more, and neither the index nor, but for a piece that was
\* written, the files changed.
LEMMA StoppedInv ==
  ASSUME IInv, DiskOK', UNCHANGED <<frec, brec, last, harmed>>,
         phase' = "idle" \/ phase' = "closed",
         writing' \in BOOLEAN, job' = NoBlock, target' = NoTarget, todo' \in SUBSET File,
         crashes' \in 0..MaxCrashes, faults' \in 0..MaxFaults
  PROVE  IInv'
<1>1. NoTarget \in Target
  BY NewRecordType, BlockStoreAssumption DEF NoTarget, Target, File
<1>2. TypeOK'
  BY <1>1 DEF IInv, TypeOK, DiskOK, Phases
<1>3. JobOK' /\ PieceOK' /\ TodoOK' /\ StartsFresh'
  BY DEF JobOK, PieceOK, TodoOK, StartsFresh
<1> QED
  BY <1>2, <1>3 DEF IInv, DiskOK

LEMMA SameDisk ==
  ASSUME IInv, UNCHANGED <<files, frec, brec, last, harmed>>
  PROVE  DiskOK'
BY InvDisk DEF DiskOK, FilesFit, LastFits, RecordsAgree, Readable, InFile

LEMMA ShortWriteInv ==
  ASSUME IInv, ShortWrite
  PROVE  IInv'
<1>1. PICK piece \in Piece : files' = Written(piece)
  BY RemainsType DEF ShortWrite
<1>2. DiskOK'
  BY <1>1, WriteKeepsDisk DEF ShortWrite
<1>3. faults' \in 0..MaxFaults
  BY BlockStoreAssumption DEF ShortWrite, IInv, TypeOK
<1> QED
  BY <1>2, <1>3, StoppedInv DEF ShortWrite, IInv, TypeOK

LEMMA WriteThrowsInv ==
  ASSUME IInv, WriteThrows
  PROVE  IInv'
<1>1. DiskOK'
  <2>1. CASE UNCHANGED files
    BY <2>1, SameDisk DEF WriteThrows
  <2>2. CASE phase = "write" /\ \E piece \in Remains : files' = Written(piece)
    BY <2>2, RemainsType, WriteKeepsDisk DEF WriteThrows
  <2> QED
    BY <2>1, <2>2 DEF WriteThrows
<1>2. faults' \in 0..MaxFaults
  BY BlockStoreAssumption DEF WriteThrows, IInv, TypeOK
<1> QED
  BY <1>1, <1>2, StoppedInv DEF WriteThrows, IInv, TypeOK

LEMMA CrashInv ==
  ASSUME IInv, Crash
  PROVE  IInv'
<1>1. DiskOK'
  <2>1. CASE UNCHANGED files
    BY <2>1, SameDisk DEF Crash
  <2>2. CASE phase = "write" /\ \E piece \in Remains : files' = Written(piece)
    BY <2>2, RemainsType, WriteKeepsDisk DEF Crash
  <2> QED
    BY <2>1, <2>2 DEF Crash
<1>2. crashes' \in 0..MaxCrashes
  BY BlockStoreAssumption DEF Crash, IInv, TypeOK
<1> QED
  BY <1>1, <1>2, StoppedInv DEF Crash, IInv, TypeOK

LEMMA CloseInv ==
  ASSUME IInv, Close
  PROVE  IInv'
<1>1. UNCHANGED <<files, frec, brec, last, job, target, todo, crashes, faults, harmed>>
      /\ phase' = "closed" /\ writing' = FALSE
  BY DEF Close, disk
<1>2. DiskOK'
  BY <1>1, SameDisk
<1>3. TypeOK'
  BY <1>1 DEF IInv, TypeOK, Phases
<1> QED
  BY <1>1, <1>2, <1>3 DEF IInv, DiskOK, JobOK, PieceOK, TodoOK, StartsFresh

LEMMA OpenInv ==
  ASSUME IInv, Open
  PROVE  IInv'
<1>1. UNCHANGED <<files, frec, brec, last, writing, job, target, crashes, faults, harmed>>
      /\ todo' = ToIndex
      /\ phase' = IF ToIndex = {} THEN "idle" ELSE "opening"
  BY DEF Open, disk
<1>2. DiskOK'
  BY <1>1, SameDisk
<1>3. ToIndex \subseteq DOMAIN files /\ DOMAIN files \ DOMAIN frec \subseteq ToIndex
  BY DEF ToIndex, Missing
<1>4. TypeOK'
  BY <1>1, <1>3 DEF IInv, TypeOK, Phases
<1>5. TodoOK'
  BY <1>1, <1>3 DEF TodoOK
<1> QED
  BY <1>1, <1>2, <1>4, <1>5 DEF IInv, DiskOK, JobOK, PieceOK, StartsFresh

LEMMA LoseIndexInv ==
  ASSUME IInv, LoseIndex
  PROVE  IInv'
<1>1. /\ UNCHANGED <<files, writing, phase, job, target, todo, crashes, harmed>>
      /\ phase = "closed" /\ last' = 0 /\ faults' \in 0..MaxFaults
      /\ DOMAIN frec' = {} /\ DOMAIN brec' = {}
  BY BlockStoreAssumption DEF LoseIndex, IInv, TypeOK
<1>2. TypeOK'
  BY <1>1, BlockStoreAssumption DEF IInv, TypeOK, File
<1>3. IsFiniteSet(DOMAIN brec')
  BY <1>1, FS_EmptySet
<1>4. FilesFit' /\ LastFits' /\ JobOK' /\ PieceOK' /\ TodoOK' /\ StartsFresh'
  BY <1>1 DEF IInv, FilesFit, LastFits, JobOK, PieceOK, TodoOK, StartsFresh
<1>5. RecordsAgree'
  BY <1>1 DEF RecordsAgree
<1> QED
  BY <1>2, <1>3, <1>4, <1>5 DEF IInv

----------------------------------------------------------------------------
\* The batches that change the index.

LEMMA NewCountType ==
  ASSUME NEW n \in 0..Top
  PROVE  NewCount(n) \in 0..Top /\ (n < Top => NewCount(n) = n + 1)
<1>1. Top \in Nat
  BY BlockStoreAssumption
<1>2. \A i \in Nat : (i % (Top + 1)) \in 0..Top
  BY <1>1
<1>3. n < Top => (n + 1) % (Top + 1) = n + 1
  BY <1>1
<1> QED
  BY <1>2, <1>3 DEF NewCount

\* The blocks of a file are finitely many.
LEMMA InFileFinite ==
  ASSUME IInv, NEW f
  PROVE  IsFiniteSet(InFile(f)) /\ Cardinality(InFile(f)) \in Nat
<1>1. InFile(f) \in SUBSET DOMAIN brec
  BY DEF InFile
<1> QED
  BY <1>1, FS_Subset, FS_CardinalityType DEF IInv

LEMMA CommitWriteInv ==
  ASSUME IInv, CommitWrite
  PROVE  IInv'
<1> DEFINE f == target.fileno
           r == target.filerecord
           newf == [blocks |-> NewCount(r.blocks), used |-> r.used + 1]
           newb == [file |-> f, position |-> r.used + 1]
<1>1. /\ phase = "commit" /\ phase' = "idle" /\ last' = f /\ writing' = FALSE
      /\ job' = NoBlock /\ target' = NoTarget
      /\ UNCHANGED <<files, todo, crashes, faults, harmed>>
  BY DEF CommitWrite
<1>2. f \in File /\ r \in FileRecord /\ r.used \in Nat /\ r.blocks \in 0..Top /\ r.used < Cap
      /\ job \in Block /\ job \notin DOMAIN brec
  BY <1>1 DEF IInv, TypeOK, JobOK, Target, FileRecord
<1>3. newf \in FileRecord /\ newb \in BlockRecord
  BY <1>2, NewCountType DEF FileRecord, BlockRecord
<1>4. /\ newf.used = r.used + 1 /\ newf.blocks = NewCount(r.blocks)
      /\ newb.file = f /\ newb.position = r.used + 1
  OBVIOUS
<1>5. f \in DOMAIN files /\ Len(files[f]) = r.used + 1
      /\ files[f][r.used + 1] = [block |-> job, kind |-> "whole"]
  BY <1>1 DEF IInv, PieceOK
<1>6. r.used + 1 \in DOMAIN files[f]
  <2>1. files[f] \in Seq(Piece)
    BY <1>5 DEF IInv, TypeOK
  <2> QED
    BY <1>2, <1>5, <2>1
<1>7. ~Starts => f = last /\ last \in DOMAIN frec /\ r = frec[last]
  BY <1>1 DEF IInv, JobOK, Appends
<1>8. Starts => r.used = 0 /\ r.blocks = 0
  BY NewRecordType DEF Starts
<1>9. brec' = With(brec, job, newb) /\ frec' = With(frec, f, newf)
  BY DEF CommitWrite
<1> HIDE DEF f, r, newf, newb
<1>10. /\ DOMAIN brec' = DOMAIN brec \cup {job} /\ brec'[job] = newb
       /\ \A b \in DOMAIN brec : brec'[b] = brec[b]
       /\ DOMAIN frec' = DOMAIN frec \cup {f} /\ frec'[f] = newf
       /\ \A g \in DOMAIN frec \ {f} : frec'[g] = frec[g]
  BY <1>2, <1>9 DEF With
<1>11. NoTarget \in Target
  BY NewRecordType, BlockStoreAssumption DEF NoTarget, Target, File
<1>12. TypeOK'
  BY <1>1, <1>2, <1>3, <1>10, <1>11 DEF IInv, TypeOK, Phases
<1>13. IsFiniteSet(DOMAIN brec')
  BY <1>10, FS_AddElement DEF IInv
<1>14. FilesFit' /\ LastFits'
  <2>1. newf.used <= Len(files[f])
    BY <1>2, <1>4, <1>5
  <2> QED
    BY <1>1, <1>5, <1>10, <2>1 DEF IInv, FilesFit, LastFits
<1>15. ASSUME ~harmed
       PROVE  RecordsAgree'
  <2>1. RecordsAgree /\ (Appends \/ InFile(f) = {})
    BY <1>1, <1>15 DEF IInv, StartsFresh, f
  <2>2. /\ r.blocks <= r.used
        /\ Cardinality(InFile(f)) <= r.blocks
        /\ \A b \in InFile(f) : brec[b].position <= r.used
    <3>1. CASE ~Starts
      BY <1>7, <2>1, <3>1 DEF RecordsAgree, InFile
    <3>2. CASE Starts /\ InFile(f) = {}
      BY <1>8, <3>2, FS_EmptySet
    <3>3. CASE Starts /\ InFile(f) # {}
      BY <2>1, <3>3 DEF Appends, Starts
    <3> QED
      BY <3>1, <3>2, <3>3
  <2>3. newf.blocks = r.blocks + 1
    BY <1>2, <1>4, <2>2, NewCountType, BlockStoreAssumption
  <2>4. ASSUME NEW b \in DOMAIN brec'
        PROVE  /\ Readable(b)' /\ brec'[b].file \in DOMAIN frec'
               /\ brec'[b].position <= frec'[brec'[b].file].used
    <3>1. CASE b = job
      BY <1>1, <1>2, <1>4, <1>5, <1>6, <1>10, <3>1 DEF Readable
    <3>2. CASE b \in DOMAIN brec
      <4>1. brec'[b] = brec[b] /\ brec[b].position \in Nat
        BY <1>10, <3>2 DEF IInv, TypeOK, BlockRecord
      <4>2. Readable(b)'
        BY <1>1, <2>1, <3>2, <4>1 DEF RecordsAgree, Readable
      <4>3. CASE brec[b].file = f
        <5>1. brec[b].position <= r.used
          BY <2>2, <3>2, <4>3 DEF InFile
        <5>2. brec[b].position <= newf.used
          BY <1>2, <1>4, <4>1, <5>1
        <5> QED
          BY <1>10, <4>1, <4>2, <4>3, <5>2
      <4>4. CASE brec[b].file # f
        BY <1>10, <2>1, <3>2, <4>1, <4>2, <4>4 DEF RecordsAgree
      <4> QED
        BY <4>3, <4>4
    <3> QED
      BY <1>10, <3>1, <3>2
  <2>5. ASSUME NEW g \in DOMAIN frec'
        PROVE  frec'[g].blocks <= frec'[g].used /\ Cardinality(InFile(g)') <= frec'[g].blocks
    <3>1. CASE g = f
      <4>1. InFile(g)' = InFile(f) \cup {job}
        BY <1>2, <1>4, <1>10, <3>1 DEF InFile
      <4>2. IsFiniteSet(InFile(f)) /\ Cardinality(InFile(f)) \in Nat
        BY InFileFinite
      <4>3. Cardinality(InFile(f) \cup {job}) <= Cardinality(InFile(f)) + 1
        BY <4>2, FS_AddElement
      <4>4. Cardinality(InFile(f) \cup {job}) \in Nat
        BY <4>2, FS_AddElement, FS_CardinalityType
      <4>5. frec'[g] = newf
        BY <1>10, <3>1
      <4> QED
        BY <1>2, <1>4, <2>2, <2>3, <4>1, <4>2, <4>3, <4>4, <4>5
    <3>2. CASE g # f
      <4>1. InFile(g)' = InFile(g)
        BY <1>2, <1>4, <1>10, <3>2 DEF InFile
      <4> QED
        BY <1>10, <2>1, <3>2, <4>1 DEF RecordsAgree
    <3> QED
      BY <3>1, <3>2
  <2> QED
    BY <2>4, <2>5 DEF RecordsAgree
<1> QED
  BY <1>1, <1>12, <1>13, <1>14, <1>15 DEF IInv, JobOK, PieceOK, TodoOK, StartsFresh

LEMMA UnlinkInv ==
  ASSUME IInv, Unlink
  PROVE  IInv'
<1>1. /\ phase = "unlink" /\ phase' = "idle" /\ todo' = {} /\ faults' \in 0..MaxFaults
      /\ UNCHANGED <<frec, brec, last, writing, job, target, crashes, harmed>>
  BY BlockStoreAssumption DEF Unlink, IInv, TypeOK
<1>2. /\ DOMAIN files' \subseteq DOMAIN files
      /\ DOMAIN files \ DOMAIN files' \subseteq todo
      /\ \A f \in DOMAIN files' : files'[f] = files[f]
  BY DEF Unlink
<1>3. todo \cap DOMAIN frec = {}
  BY <1>1 DEF IInv, TodoOK
<1>4. TypeOK'
  BY <1>1, <1>2 DEF IInv, TypeOK, Phases
<1>5. FilesFit' /\ LastFits'
  BY <1>1, <1>2, <1>3 DEF IInv, FilesFit, LastFits
<1>6. ~harmed => RecordsAgree'
  <2>1. \A b : brec[b].file \in DOMAIN frec /\ Readable(b) => Readable(b)'
    BY <1>1, <1>2, <1>3 DEF Readable
  <2>2. \A f : InFile(f)' = InFile(f)
    BY <1>1 DEF InFile
  <2> QED
    BY <1>1, <2>1, <2>2 DEF IInv, RecordsAgree
<1> QED
  BY <1>1, <1>4, <1>5, <1>6 DEF IInv, JobOK, PieceOK, TodoOK, StartsFresh

\* A block that is pruned was counted, so no other block is in a file that goes.
LEMMA PruneInv ==
  ASSUME IInv, NEW b \in Block, Prune(b)
  PROVE  IInv'
<1> DEFINE f == brec[b].file
           n == LessOne(frec[f].blocks)
<1>1. /\ phase = "idle" /\ b \in DOMAIN brec /\ f \in DOMAIN frec /\ f \in File
      /\ frec[f] \in FileRecord /\ frec[f].blocks \in 0..Top /\ frec[f].used \in Nat
      /\ UNCHANGED <<files, last, writing, job, target, crashes, faults, harmed>>
  BY DEF Prune, IInv, TypeOK, BlockRecord, FileRecord
<1>2. /\ frec' = IF Emptied(n) THEN [g \in DOMAIN frec \ {f} |-> frec[g]]
                 ELSE [frec EXCEPT ![f].blocks = n]
      /\ brec' = [c \in DOMAIN brec \ {b} |-> brec[c]]
      /\ todo' = IF Emptied(n) THEN {f} ELSE {}
      /\ phase' = IF Emptied(n) THEN "unlink" ELSE "idle"
  BY DEF Prune
<1>3. n \in 0..Top /\ (frec[f].blocks # 0 => n = frec[f].blocks - 1)
  BY <1>1, BlockStoreAssumption DEF LessOne
<1> HIDE DEF f, n
<1>4. /\ DOMAIN frec' = IF Emptied(n) THEN DOMAIN frec \ {f} ELSE DOMAIN frec
      /\ \A g \in DOMAIN frec' : frec'[g] = IF g = f THEN [frec[f] EXCEPT !.blocks = n] ELSE frec[g]
  BY <1>1, <1>2
<1>5. DOMAIN brec' = DOMAIN brec \ {b} /\ \A c \in DOMAIN brec' : brec'[c] = brec[c]
  BY <1>2
<1>6. /\ [frec[f] EXCEPT !.blocks = n] \in FileRecord
      /\ [frec[f] EXCEPT !.blocks = n].used = frec[f].used
      /\ [frec[f] EXCEPT !.blocks = n].blocks = n
  BY <1>1, <1>3 DEF FileRecord
<1>7. TypeOK'
  BY <1>1, <1>2, <1>4, <1>5, <1>6 DEF IInv, TypeOK, Phases
<1>8. IsFiniteSet(DOMAIN brec')
  BY <1>5, FS_RemoveElement DEF IInv
<1>9. FilesFit' /\ LastFits'
  BY <1>1, <1>4, <1>6 DEF IInv, FilesFit, LastFits
<1>10. ASSUME ~harmed
       PROVE  RecordsAgree'
  <2>1. RecordsAgree
    BY <1>10 DEF IInv
  <2>2. IsFiniteSet(InFile(f)) /\ Cardinality(InFile(f)) \in Nat /\ b \in InFile(f)
    BY <1>1, InFileFinite DEF InFile, f
  <2>3. /\ IsFiniteSet(InFile(f) \ {b})
        /\ Cardinality(InFile(f) \ {b}) = Cardinality(InFile(f)) - 1
        /\ Cardinality(InFile(f) \ {b}) \in Nat
    BY <2>2, FS_RemoveElement, FS_CardinalityType
  <2>4. frec[f].blocks <= frec[f].used /\ Cardinality(InFile(f)) <= frec[f].blocks
    BY <1>1, <2>1 DEF RecordsAgree
  <2>5. n = frec[f].blocks - 1 /\ n <= frec[f].used /\ Cardinality(InFile(f) \ {b}) <= n
    BY <1>1, <1>3, <2>2, <2>3, <2>4
  <2>6. Emptied(n) => InFile(f) \ {b} = {}
    BY <2>3, <2>5, FS_EmptySet DEF Emptied
  <2>7. ASSUME NEW c \in DOMAIN brec'
        PROVE  /\ Readable(c)' /\ brec'[c].file \in DOMAIN frec'
               /\ brec'[c].position <= frec'[brec'[c].file].used
    <3>1. /\ c \in DOMAIN brec /\ c # b /\ brec'[c] = brec[c] /\ Readable(c)
          /\ brec[c].file \in DOMAIN frec /\ brec[c].position <= frec[brec[c].file].used
      BY <1>5, <2>1, <2>7 DEF RecordsAgree
    <3>2. brec[c].file \in DOMAIN frec'
      BY <1>4, <2>6, <3>1 DEF InFile
    <3>3. Readable(c)'
      BY <1>1, <2>7, <3>1 DEF Readable
    <3> QED
      BY <1>4, <1>6, <3>1, <3>2, <3>3
  <2>8. ASSUME NEW g \in DOMAIN frec'
        PROVE  frec'[g].blocks <= frec'[g].used /\ Cardinality(InFile(g)') <= frec'[g].blocks
    <3>1. CASE g = f
      <4>1. InFile(g)' = InFile(f) \ {b}
        BY <1>5, <3>1 DEF InFile
      <4> QED
        BY <1>4, <1>6, <2>5, <3>1, <4>1
    <3>2. CASE g # f
      <4>1. InFile(g)' = InFile(g)
        BY <1>1, <1>5, <3>2 DEF InFile, f
      <4> QED
        BY <1>4, <2>1, <3>2, <4>1 DEF RecordsAgree
    <3> QED
      BY <3>1, <3>2
  <2> QED
    BY <2>7, <2>8 DEF RecordsAgree
<1>11. TodoOK'
  BY <1>2, <1>4 DEF TodoOK
<1>12. phase' \in {"idle", "unlink"}
  BY <1>2
<1> QED
  BY <1>1, <1>7, <1>8, <1>9, <1>10, <1>11, <1>12 DEF IInv, JobOK, PieceOK, StartsFresh

\* The records of a file are finitely many, no more than the pieces found.
LEMMA RecordsFinite ==
  ASSUME NEW f, files[f] \in Seq(Piece), NEW found \in Readings(files[f]),
         IsFiniteSet(found)
  PROVE  /\ IsFiniteSet(DOMAIN Records(f, found))
         /\ Cardinality(DOMAIN Records(f, found)) <= Cardinality(found)
<1> DEFINE blockAt == [i \in found |-> files[f][i].block]
           blocks == {blockAt[i] : i \in found}
<1>2. blocks = DOMAIN Records(f, found)
  <2>1. DOMAIN Records(f, found) = {files[f][i].block : i \in found}
    BY RecordsAt
  <2> QED
    BY <2>1
<1>3. blockAt \in Surjection(found, blocks)
  BY DEF Surjection
<1> HIDE DEF blockAt, blocks
<1>4. IsFiniteSet(blocks) /\ Cardinality(blocks) <= Cardinality(found)
  BY <1>3, FS_Surjection DEF ExistsSurjection
<1> QED
  BY <1>2, <1>4

\* Every block that had a record in the file gets it again, so the count covers
\* what the records name; another file only loses blocks to this one.
LEMMA IndexFileInv ==
  ASSUME IInv, NEW f \in File, IndexFile(f)
  PROVE  IInv'
<1> DEFINE s == files[f]
<1>a. PICK found \in Readings(s) :
        /\ phase = "opening" /\ f \in todo /\ todo' = todo \ {f}
        /\ phase' = IF todo = {f} THEN "idle" ELSE "opening"
        /\ UNCHANGED <<files, last, writing, job, target, crashes, faults>>
        /\ \E n \in 0..Cardinality(Torn(s) \ found), u \in Used(s, found) :
             frec' = With(frec, f, [blocks |-> Cardinality(found) + n, used |-> u])
        /\ brec' = WithAll(brec, Records(f, found))
        /\ harmed' = (harmed \/ Misread(s, found))
  BY DEF IndexFile
<1>b. PICK n \in 0..Cardinality(Torn(s) \ found), u \in Used(s, found) :
        frec' = With(frec, f, [blocks |-> Cardinality(found) + n, used |-> u])
  BY <1>a
<1>1. /\ phase = "opening" /\ f \in todo /\ todo' = todo \ {f}
      /\ phase' = IF todo = {f} THEN "idle" ELSE "opening"
      /\ UNCHANGED <<files, last, writing, job, target, crashes, faults>>
      /\ frec' = With(frec, f, [blocks |-> Cardinality(found) + n, used |-> u])
      /\ brec' = WithAll(brec, Records(f, found))
      /\ harmed' = (harmed \/ Misread(s, found))
  BY <1>a, <1>b
<1> DEFINE recs == Records(f, found)
           rec == [blocks |-> Cardinality(found) + n, used |-> u]
<1>2. /\ f \in DOMAIN files /\ todo \subseteq DOMAIN files
      /\ DOMAIN files \ DOMAIN frec \subseteq todo
  BY <1>1 DEF IInv, TodoOK
<1>3. s \in Seq(Piece) /\ Len(s) \in Nat /\ DOMAIN s = 1..Len(s) /\ Len(s) <= Cap
  BY <1>2 DEF IInv, TypeOK, FilesFit
<1>4. /\ found \subseteq 1..u /\ u \in 0..Len(s) /\ IsFiniteSet(found)
      /\ Cardinality(found) \in Nat /\ n \in Nat
      /\ Cardinality(found) + n \in Nat /\ Cardinality(found) + n <= u
  BY <1>3, ReadingBounded
<1>5. /\ rec \in FileRecord
      /\ rec.blocks = Cardinality(found) + n /\ rec.used = u
  BY <1>3, <1>4, BlockStoreAssumption DEF FileRecord
<1>6. /\ DOMAIN recs = {s[i].block : i \in found}
      /\ \A b \in DOMAIN recs : \E i \in found :
           s[i].block = b /\ recs[b] = [file |-> f, position |-> i]
  BY <1>3, RecordsAt
<1>7. IsFiniteSet(DOMAIN recs) /\ Cardinality(DOMAIN recs) <= Cardinality(found)
  BY <1>3, <1>4, RecordsFinite
<1> HIDE DEF s, recs, rec
<1>8. \A i \in found : s[i] \in Piece
  BY <1>3, <1>4
<1>9. /\ DOMAIN recs \subseteq Block
      /\ \A b \in DOMAIN recs : recs[b] \in BlockRecord /\ recs[b].file = f
  <2> SUFFICES ASSUME NEW b \in DOMAIN recs
               PROVE  b \in Block /\ recs[b] \in BlockRecord /\ recs[b].file = f
    OBVIOUS
  <2>1. PICK i \in found : s[i].block = b /\ recs[b] = [file |-> f, position |-> i]
    BY <1>6
  <2>2. b \in Block
    BY <1>8, <2>1 DEF Piece
  <2>3. i \in Nat \ {0}
    BY <1>3, <1>4
  <2> QED
    BY <2>1, <2>2, <2>3 DEF BlockRecord
<1>10. /\ DOMAIN frec' = DOMAIN frec \cup {f} /\ frec'[f] = rec
       /\ \A g \in DOMAIN frec \ {f} : frec'[g] = frec[g]
  BY <1>1 DEF With, rec
<1>11. /\ DOMAIN brec' = DOMAIN brec \cup DOMAIN recs
       /\ \A b \in DOMAIN recs : brec'[b] = recs[b]
       /\ \A b \in DOMAIN brec \ DOMAIN recs : brec'[b] = brec[b]
  BY <1>1 DEF WithAll, recs
<1>12. TypeOK'
  <2>1. \A b \in DOMAIN brec' : brec'[b] \in BlockRecord
    BY <1>9, <1>11 DEF IInv, TypeOK
  <2>2. \A g \in DOMAIN frec' : frec'[g] \in FileRecord
    BY <1>5, <1>10 DEF IInv, TypeOK
  <2>3. DOMAIN brec' \subseteq Block /\ DOMAIN frec' \subseteq File
    BY <1>9, <1>10, <1>11 DEF IInv, TypeOK
  <2>4. harmed' \in BOOLEAN
    BY <1>1 DEF IInv, TypeOK
  <2> QED
    BY <1>1, <2>1, <2>2, <2>3, <2>4 DEF IInv, TypeOK, Phases
<1>13. IsFiniteSet(DOMAIN brec')
  BY <1>7, <1>11, FS_Union DEF IInv
<1>14. FilesFit' /\ LastFits'
  <2>1. FilesFit'
    BY <1>1 DEF IInv, FilesFit
  <2>a. last' = last /\ files' = files
    BY <1>1
  <2>2. CASE last = f
    <3>1. u <= Len(files[f])
      BY <1>3, <1>4 DEF s
    <3>2. frec'[f].used = u
      BY <1>5, <1>10
    <3>3. last' \in DOMAIN files' /\ frec'[last'].used <= Len(files'[last'])
      BY <1>2, <2>a, <2>2, <3>1, <3>2
    <3> QED
      BY <2>1, <3>3 DEF LastFits
  <2>3. CASE last # f
    <3>1. last \in DOMAIN frec' => last \in DOMAIN frec /\ frec'[last] = frec[last]
      BY <1>10, <2>3
    <3>2. LastFits
      BY DEF IInv
    <3> QED
      BY <2>1, <2>a, <3>1, <3>2 DEF LastFits
  <2> QED
    BY <2>1, <2>2, <2>3
<1>15. ASSUME ~harmed'
       PROVE  RecordsAgree'
  <2>1. RecordsAgree /\ ~harmed
    BY <1>1, <1>15 DEF IInv
  <2>2. found = {i \in DOMAIN s : s[i].kind = "whole"}
    BY <1>1, <1>15 DEF Misread, s
  <2>3. \A i \in found : s[i].kind = "whole"
    BY <2>2
  <2>4. \A b \in DOMAIN brec \ DOMAIN recs : brec[b].file # f
    <3> SUFFICES ASSUME NEW b \in DOMAIN brec, brec[b].file = f
                 PROVE  b \in DOMAIN recs
      OBVIOUS
    <3>1. brec[b].position \in DOMAIN s /\ s[brec[b].position] = [block |-> b, kind |-> "whole"]
      BY <2>1 DEF RecordsAgree, Readable, s
    <3>2. brec[b].position \in found
      BY <2>2, <3>1
    <3> QED
      BY <1>6, <3>1, <3>2
  <2>5. ASSUME NEW b \in DOMAIN brec'
        PROVE  /\ Readable(b)' /\ brec'[b].file \in DOMAIN frec'
               /\ brec'[b].position <= frec'[brec'[b].file].used
    <3>1. CASE b \in DOMAIN recs
      <4>1. PICK i \in found : s[i].block = b /\ recs[b] = [file |-> f, position |-> i]
        BY <1>6, <3>1
      <4>2. s[i] = [block |-> b, kind |-> "whole"] /\ i \in DOMAIN s /\ i <= u
        <5>1. s[i] \in Piece /\ s[i].kind = "whole" /\ s[i].block = b
          BY <1>8, <2>3, <4>1
        <5> QED
          BY <1>3, <1>4, <5>1 DEF Piece
      <4>3. brec'[b].file = f /\ brec'[b].position = i
        BY <1>11, <3>1, <4>1
      <4> QED
        BY <1>1, <1>2, <1>5, <1>10, <2>5, <4>2, <4>3 DEF Readable, s
    <3>2. CASE b \notin DOMAIN recs
      <4>1. b \in DOMAIN brec /\ brec'[b] = brec[b] /\ brec[b].file # f
        BY <1>11, <2>4, <2>5, <3>2
      <4>2. Readable(b)'
        BY <1>1, <2>1, <2>5, <4>1 DEF RecordsAgree, Readable
      <4> QED
        BY <1>10, <2>1, <4>1, <4>2 DEF RecordsAgree
    <3> QED
      BY <3>1, <3>2
  <2>6. ASSUME NEW g \in DOMAIN frec'
        PROVE  frec'[g].blocks <= frec'[g].used /\ Cardinality(InFile(g)') <= frec'[g].blocks
    <3>1. CASE g = f
      <4>1. InFile(g)' \in SUBSET DOMAIN recs
        BY <1>11, <2>4, <3>1 DEF InFile
      <4>2. IsFiniteSet(InFile(g)') /\ Cardinality(InFile(g)') <= Cardinality(DOMAIN recs)
        BY <1>7, <4>1, FS_Subset
      <4>3. Cardinality(InFile(g)') \in Nat /\ Cardinality(DOMAIN recs) \in Nat
        BY <1>7, <4>2, FS_CardinalityType
      <4>4. Cardinality(InFile(g)') <= Cardinality(found)
        BY <1>4, <1>7, <4>2, <4>3
      <4>5. Cardinality(InFile(g)') <= Cardinality(found) + n
        <5>1. \A p, q, r \in Nat : p <= q => p <= q + r
          OBVIOUS
        <5> QED
          BY <1>4, <4>3, <4>4, <5>1
      <4> QED
        BY <1>4, <1>5, <1>10, <3>1, <4>5
    <3>2. CASE g # f
      <4>1. InFile(g)' \in SUBSET InFile(g)
        BY <1>9, <1>11, <3>2 DEF InFile
      <4>2. IsFiniteSet(InFile(g)') /\ Cardinality(InFile(g)') <= Cardinality(InFile(g))
        BY <4>1, InFileFinite, FS_Subset
      <4>3. Cardinality(InFile(g)') \in Nat /\ Cardinality(InFile(g)) \in Nat
        BY <4>2, InFileFinite, FS_CardinalityType
      <4>4. g \in DOMAIN frec /\ frec'[g] = frec[g] /\ frec[g].blocks \in Nat
        BY <1>10, <2>6, <3>2 DEF IInv, TypeOK, FileRecord
      <4>5. frec[g].blocks <= frec[g].used /\ Cardinality(InFile(g)) <= frec[g].blocks
        BY <2>1, <4>4 DEF RecordsAgree
      <4> QED
        BY <4>2, <4>3, <4>4, <4>5
    <3> QED
      BY <3>1, <3>2
  <2> QED
    BY <2>5, <2>6 DEF RecordsAgree
<1>16. TodoOK'
  BY <1>1, <1>2, <1>10 DEF TodoOK
<1>17. phase' \in {"idle", "opening"}
  BY <1>1
<1> QED
  BY <1>12, <1>13, <1>14, <1>15, <1>16, <1>17 DEF IInv, JobOK, PieceOK, StartsFresh

----------------------------------------------------------------------------
\* The invariant holds.

LEMMA InitInv == Init => IInv
<1> SUFFICES ASSUME Init
             PROVE  IInv
  OBVIOUS
<1>1. NoTarget \in Target
  BY NewRecordType, BlockStoreAssumption DEF NoTarget, Target, File
<1>2. DOMAIN files = {} /\ DOMAIN frec = {} /\ DOMAIN brec = {}
  BY DEF Init
<1>3. 0 \in File /\ 0 \in 0..MaxCrashes /\ 0 \in 0..MaxFaults
  BY BlockStoreAssumption DEF File
<1>4. TypeOK
  BY <1>1, <1>2, <1>3 DEF Init, TypeOK, Phases
<1>5. IsFiniteSet(DOMAIN brec)
  BY <1>2, FS_EmptySet
<1> QED
  BY <1>2, <1>4, <1>5 DEF Init, IInv, FilesFit, LastFits, JobOK, PieceOK, TodoOK, RecordsAgree,
                          StartsFresh

LEMMA NextInv == IInv /\ [Next]_vars => IInv'
<1> SUFFICES ASSUME IInv, [Next]_vars
             PROVE  IInv'
  OBVIOUS
<1>1. CASE Touch
  BY <1>1, TouchInv
<1>2. CASE WritePiece
  BY <1>2, WritePieceInv
<1>3. CASE CommitWrite
  BY <1>3, CommitWriteInv
<1>4. CASE ShortWrite
  BY <1>4, ShortWriteInv
<1>5. CASE WriteThrows
  BY <1>5, WriteThrowsInv
<1>6. CASE Unlink
  BY <1>6, UnlinkInv
<1>7. CASE Crash
  BY <1>7, CrashInv
<1>8. CASE Close
  BY <1>8, CloseInv
<1>9. CASE LoseIndex
  BY <1>9, LoseIndexInv
<1>10. CASE Open
  BY <1>10, OpenInv
<1>11. ASSUME NEW b \in Block, Write(b) \/ Prune(b)
       PROVE  IInv'
  BY <1>11, WriteInv, PruneInv
<1>12. ASSUME NEW f \in File, IndexFile(f)
       PROVE  IInv'
  BY <1>12, IndexFileInv
<1>13. CASE UNCHANGED vars
  <2>1. UNCHANGED <<files, frec, brec, last, writing, phase, job, target, todo, crashes, faults,
                    harmed>>
    BY <1>13 DEF vars, disk
  <2> QED
    BY <2>1 DEF IInv, TypeOK, FilesFit, LastFits, JobOK, PieceOK, TodoOK, RecordsAgree,
                StartsFresh, Starts, Appends, Readable, InFile
<1> QED
  BY <1>1, <1>2, <1>3, <1>4, <1>5, <1>6, <1>7, <1>8, <1>9, <1>10, <1>11, <1>12, <1>13 DEF Next

LEMMA Invariant == Spec => []IInv
<1>1. Init => IInv
  BY InitInv
<1>2. IInv /\ [Next]_vars => IInv'
  BY NextInv
<1> QED
  BY <1>1, <1>2, PTL DEF Spec

\* The records of files and blocks keep their types and counts stay what 32 bits
\* hold, in every order of writes, prunes, errors, crashes and index passes.
THEOREM RecordTypes == Spec => []TypeOK
<1>1. IInv => TypeOK
  BY DEF IInv
<1> QED
  BY <1>1, Invariant, PTL

\* The count of a file record covers every block whose record names the file, so
\* _prune unlinks no file that holds a block, whatever was written twice.
THEOREM CountsCoverRecords == Spec => []CountsCover
<1>1. IInv => CountsCover
  <2> SUFFICES ASSUME IInv, ~harmed, NEW f \in DOMAIN files, InFile(f) # {}
               PROVE  f \in DOMAIN frec /\ frec[f].blocks >= Cardinality(InFile(f))
    BY DEF CountsCover
  <2>1. f \in DOMAIN frec /\ Cardinality(InFile(f)) <= frec[f].blocks
    BY DEF IInv, RecordsAgree, InFile
  <2>2. frec[f].blocks \in Nat /\ Cardinality(InFile(f)) \in Nat
    BY <2>1, InFileFinite DEF IInv, TypeOK, FileRecord
  <2> QED
    BY <2>1, <2>2
<1> QED
  BY <1>1, Invariant, PTL

\* What has() reports can be read: no record of a block outlives its file, or
\* names a piece that is torn, overwritten or another block's.
THEOREM RecordsReadable == Spec => []AllReadable
<1>1. IInv => AllReadable
  BY DEF IInv, RecordsAgree, AllReadable
<1> QED
  BY <1>1, Invariant, PTL

----------------------------------------------------------------------------
\* The refinement: every step is one of KeptBlocks, or takes nothing and adds
\* nothing.

\* The blocks the next index pass will find in files that have no record.
Unindexed ==
  {b \in Block : \E f \in DOMAIN files \ DOMAIN frec : \E i \in DOMAIN files[f] :
     files[f][i] = [block |-> b, kind |-> "whole"]}

LEMMA KeptIs ==
  IInv /\ ~harmed =>
    Kept = DOMAIN brec \cup (IF phase \in {"closed", "opening"} THEN Unindexed ELSE {})
<1> SUFFICES ASSUME IInv, ~harmed
             PROVE  Kept = DOMAIN brec \cup (IF phase \in {"closed", "opening"} THEN Unindexed ELSE {})
  OBVIOUS
<1>1. \A b \in Block : Readable(b) <=> b \in DOMAIN brec
  BY DEF IInv, RecordsAgree, Readable
<1>2. DOMAIN brec \subseteq Block
  BY DEF IInv, TypeOK
<1> QED
  BY <1>1, <1>2 DEF Kept, Unindexed

\* Of the steps only Prune takes a block away, and it takes the one it is asked to.
LEMMA PromiseStep ==
  ASSUME IInv, IInv', Next, ~harmed'
  PROVE  \/ CommitWrite /\ Promise!Put(job)
         \/ \E b \in Block : Prune(b) /\ Promise!Drop(b)
         \/ Restarts /\ Promise!Recover
         \/ UNCHANGED Kept
<1> USE DEF Promise!Put, Promise!Drop, Promise!Recover
<1>1. ~harmed
  BY DEF Next, Touch, WritePiece, CommitWrite, ShortWrite, WriteThrows, Unlink, Crash, Close,
         LoseIndex, Open, Write, Prune, IndexFile
<1>2. Kept = DOMAIN brec \cup (IF phase \in {"closed", "opening"} THEN Unindexed ELSE {})
  BY <1>1, KeptIs
<1>3. Kept' = DOMAIN brec' \cup (IF phase' \in {"closed", "opening"} THEN Unindexed' ELSE {})
  <2>1. (Kept = DOMAIN brec \cup (IF phase \in {"closed", "opening"} THEN Unindexed ELSE {}))'
    BY KeptIs, PTL
  <2> QED
    BY <2>1
<1>4. Kept' \subseteq Block /\ Kept \subseteq Block
  BY DEF Kept
<1>5. CASE \/ Touch \/ WritePiece \/ ShortWrite \/ WriteThrows \/ Unlink
           \/ \E b \in Block : Write(b)
  <2>1. brec' = brec /\ phase \notin {"closed", "opening"} /\ phase' \notin {"closed", "opening"}
    BY <1>5 DEF Touch, WritePiece, ShortWrite, WriteThrows, Unlink, Write, disk
  <2> QED
    BY <1>2, <1>3, <2>1
<1>6. CASE CommitWrite
  <2>1. /\ phase \notin {"closed", "opening"} /\ phase' \notin {"closed", "opening"}
        /\ DOMAIN brec' = DOMAIN brec \cup {job} /\ job \in Block
    BY <1>6 DEF CommitWrite, With, IInv, JobOK
  <2>2. Promise!Put(job)
    BY <1>2, <1>3, <2>1
  <2> QED
    BY <1>6, <2>2
<1>7. ASSUME NEW b \in Block, Prune(b)
      PROVE  Promise!Drop(b)
  <2>1. /\ phase \notin {"closed", "opening"} /\ phase' \notin {"closed", "opening"}
        /\ DOMAIN brec' = DOMAIN brec \ {b}
    BY <1>7 DEF Prune
  <2> QED
    BY <1>2, <1>3, <2>1
<1>8. CASE Crash \/ Close
  <2>1. brec' = brec /\ frec' = frec /\ phase' = "closed"
    BY <1>8 DEF Crash, Close, disk
  <2>2. phase \in {"closed", "opening"} => files' = files
    BY <1>8 DEF Crash, Close, disk
  <2>3. phase \in {"closed", "opening"} => Unindexed' = Unindexed
    BY <2>1, <2>2 DEF Unindexed
  <2>4. Promise!Recover
    BY <1>2, <1>3, <1>4, <2>1, <2>3
  <2> QED
    BY <1>8, <2>4 DEF Restarts
<1>9. CASE LoseIndex
  <2>1. files' = files /\ DOMAIN frec' = {} /\ phase = "closed" /\ phase' = "closed"
    BY <1>9 DEF LoseIndex
  <2>2. Unindexed \subseteq Unindexed'
    BY <2>1 DEF Unindexed
  <2>3. DOMAIN brec \subseteq Unindexed'
    <3> SUFFICES ASSUME NEW b \in DOMAIN brec
                 PROVE  b \in Unindexed'
      OBVIOUS
    <3>1. b \in Block /\ Readable(b)
      BY <1>1 DEF IInv, TypeOK, RecordsAgree
    <3> QED
      BY <2>1, <3>1 DEF Readable, Unindexed
  <2>4. Promise!Recover
    BY <1>2, <1>3, <1>4, <2>1, <2>2, <2>3
  <2> QED
    BY <1>9, <2>4 DEF Restarts
<1>10. CASE Open
  <2>1. /\ brec' = brec /\ frec' = frec /\ files' = files /\ phase = "closed"
        /\ phase' = IF ToIndex = {} THEN "idle" ELSE "opening"
    BY <1>10 DEF Open, disk
  <2>2. Unindexed' = Unindexed
    BY <2>1 DEF Unindexed
  <2>3. ToIndex = {} => Unindexed = {}
    BY DEF ToIndex, Missing, Unindexed
  <2> QED
    BY <1>2, <1>3, <2>1, <2>2, <2>3
<1>11. ASSUME NEW f \in File, IndexFile(f)
       PROVE  Promise!Recover
  <2> DEFINE found == {i \in DOMAIN files[f] : files[f][i].kind = "whole"}
  <2>1. /\ phase = "opening" /\ f \in todo /\ f \in DOMAIN files
        /\ DOMAIN files \ DOMAIN frec \subseteq todo
        /\ phase' = IF todo = {f} THEN "idle" ELSE "opening"
        /\ files' = files
        /\ DOMAIN frec' = DOMAIN frec \cup {f}
        /\ found \in Readings(files[f])
        /\ DOMAIN brec' = DOMAIN brec \cup DOMAIN Records(f, found)
    BY <1>11 DEF IndexFile, With, WithAll, IInv, TodoOK, Misread
  <2>2. files[f] \in Seq(Piece)
    BY <2>1 DEF IInv, TypeOK
  <2>3. \A i \in DOMAIN files[f] :
          files[f][i].kind = "whole" => files[f][i].block \in DOMAIN Records(f, found)
    <3>1. DOMAIN Records(f, found) = {files[f][j].block : j \in found}
      <4> HIDE DEF found
      <4> QED
        BY <2>1, <2>2, RecordsAt
    <3> QED
      BY <3>1
  <2>4. Unindexed \subseteq DOMAIN brec' \cup (IF phase' = "opening" THEN Unindexed' ELSE {})
    <3> SUFFICES ASSUME NEW b \in Unindexed, b \notin DOMAIN brec'
                 PROVE  phase' = "opening" /\ b \in Unindexed'
      OBVIOUS
    <3>1. PICK g \in DOMAIN files \ DOMAIN frec : \E i \in DOMAIN files[g] :
                 files[g][i] = [block |-> b, kind |-> "whole"]
      BY DEF Unindexed
    <3>2. g # f
      BY <2>1, <2>3, <3>1
    <3> QED
      BY <2>1, <3>1, <3>2 DEF Unindexed
  <2> QED
    BY <1>2, <1>3, <1>4, <2>1, <2>4
<1> QED
  BY <1>5, <1>6, <1>7, <1>8, <1>9, <1>10, <1>11 DEF Next, Restarts

\* The store keeps what it promises to the chain: only _prune takes a block away,
\* the one it is called with, only _write's batch adds one, and a restart only
\* brings back, through crashes, torn writes and index passes.
THEOREM StoreKeepsPromise == Spec => KeepsPromise
<1>1. IInv /\ IInv' /\ [Next]_vars =>
        [~harmed' => \/ CommitWrite /\ Promise!Put(job)
                     \/ \E b \in Block : Prune(b) /\ Promise!Drop(b)
                     \/ Restarts /\ Promise!Recover
                     \/ UNCHANGED Kept]_vars
  BY PromiseStep
<1> QED
  BY <1>1, Invariant, PTL DEF Spec, KeepsPromise
=============================================================================
