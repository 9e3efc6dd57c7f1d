----------------------------- MODULE BlockStore -----------------------------
(***************************************************************************)
(* FileBlockStore of lib/blockstore/file.js, for one type of data: blocks, *)
(* undo coins, merkle blocks and filters each have files, records and a    *)
(* writing flag of their own and share no state.                           *)
(*                                                                         *)
(* A file is a sequence of pieces, a piece being what one _write leaves:   *)
(* the magic, the length (and the hash) and the data.  A write cut short   *)
(* leaves a "scrap", which does not begin with the magic, or a "torn"      *)
(* piece, which does and lacks something behind it.  Cap pieces fill a     *)
(* file.  The magic occurs nowhere in the data.                            *)
(*                                                                         *)
(* The callers (chain, filter indexer) hold their lock around a write or a *)
(* prune, so one of these runs at a time; a crash may come between any two *)
(* of its steps.                                                           *)
(***************************************************************************)
EXTENDS Integers, Sequences, FiniteSets

CONSTANTS
  Block,
  NoBlock,
  Cap,          \* pieces in maxFileLength
  MaxFile,      \* bound: the last file number
  MaxCrashes,   \* bound: crashes
  MaxFaults,    \* bound: input and output errors, and losses of the index
  Top           \* the largest count of blocks a file record holds

ASSUME BlockStoreAssumption ==
  /\ NoBlock \notin Block
  /\ Cap \in Nat \ {0}
  /\ MaxFile \in Nat
  /\ MaxCrashes \in Nat
  /\ MaxFaults \in Nat
  /\ Top \in Nat
  /\ Cap <= Top     \* maxFileLength is far below the largest 32-bit count

File == 0..MaxFile

VARIABLES
  files,        \* *.dat in the directory: file number -> its pieces
  frec,         \* layout.f: file number -> [blocks, used]
  brec,         \* layout.b: block -> [file, position]
  last,         \* layout.F, 0 when there is none
  writing,      \* this.writing[type]
  phase,        \* what runs: see Phases
  job,          \* the block that is written
  target,       \* what allocate chose for it: [fileno, filerecord]
  todo,         \* files the index pass has not read, the file to unlink
  crashes, faults,
  harmed        \* history: a file after the last was taken for a new one
                \* though it has records, or the index pass took a torn piece
                \* for a block or missed a whole one behind it

disk == <<files, frec, brec, last>>
vars == <<disk, writing, phase, job, target, todo, crashes, faults, harmed>>

Phases == {"closed", "opening", "idle", "touch", "write", "commit", "unlink"}
Kinds == {"whole", "torn", "scrap"}
Piece == [block : Block, kind : Kinds]
FileRecord == [blocks : 0..Top, used : Nat]
BlockRecord == [file : File, position : Nat \ {0}]
Target == [fileno : File, filerecord : FileRecord]

\* A put of one record, and of all the records of a batch.
With(f, x, v) == [y \in DOMAIN f \cup {x} |-> IF y = x THEN v ELSE f[y]]
WithAll(f, g) == [y \in DOMAIN f \cup DOMAIN g |-> IF y \in DOMAIN g THEN g[y] ELSE f[y]]

NewRecord == [blocks |-> 0, used |-> 0]
NoTarget == [fileno |-> 0, filerecord |-> NewRecord]

\* The types of the records and of what runs; counts are unsigned.
TypeOK ==
  /\ DOMAIN files \subseteq File
  /\ \A f \in DOMAIN files : files[f] \in Seq(Piece)
  /\ DOMAIN frec \subseteq File
  /\ \A f \in DOMAIN frec : frec[f] \in FileRecord
  /\ DOMAIN brec \subseteq Block
  /\ \A b \in DOMAIN brec : brec[b] \in BlockRecord
  /\ last \in File
  /\ writing \in BOOLEAN
  /\ phase \in Phases
  /\ job \in Block \cup {NoBlock}
  /\ target \in Target
  /\ todo \in SUBSET File
  /\ crashes \in 0..MaxCrashes
  /\ faults \in 0..MaxFaults
  /\ harmed \in BOOLEAN

\* A first start: there are no files and no records.
Init ==
  /\ files = <<>> /\ frec = <<>> /\ brec = <<>> /\ last = 0
  /\ writing = FALSE
  /\ phase = "closed" /\ job = NoBlock /\ target = NoTarget /\ todo = {}
  /\ crashes = 0 /\ faults = 0 /\ harmed = FALSE

----------------------------------------------------------------------------
\* Reading.

\* What _read finds for a block: the piece at its record, if it is there.
Readable(b) ==
  /\ b \in DOMAIN brec
  /\ brec[b].file \in DOMAIN files
  /\ brec[b].position \in DOMAIN files[brec[b].file]
  /\ files[brec[b].file][brec[b].position] = [block |-> b, kind |-> "whole"]

----------------------------------------------------------------------------
\* Writing.

\* Mutant of Allocate: a full file is started again instead of the next one.
AllocateSame ==
  LET rec == IF last \in DOMAIN frec THEN frec[last] ELSE NewRecord
  IN [fileno |-> last, filerecord |-> IF rec.used + 1 > Cap THEN NewRecord ELSE rec]

\* allocate: the last file while the piece fits, else the next one.
Allocate ==
  LET rec == IF last \in DOMAIN frec THEN frec[last] ELSE NewRecord
  IN IF rec.used + 1 > Cap THEN [fileno |-> last + 1, filerecord |-> NewRecord]
     ELSE [fileno |-> last, filerecord |-> rec]

\* allocate opens a file that is new, or has no record, with 'w'.
Touches(t) == t.fileno # last \/ t.fileno \notin DOMAIN frec

\* _write of a block that is there returns at once.
Wanted(b) == b \notin DOMAIN brec

\* _write, until allocate has chosen the file.
Write(b) ==
  /\ phase = "idle" /\ ~writing /\ Wanted(b)
  /\ Allocate.fileno \in File
  /\ writing' = TRUE /\ job' = b /\ target' = Allocate
  /\ phase' = IF Touches(Allocate) THEN "touch" ELSE "write"
  /\ UNCHANGED <<disk, todo, crashes, faults, harmed>>

\* The blocks whose records name a file.
InFile(f) == {b \in DOMAIN brec : brec[b].file = f}

\* allocate's fs.open(filepath, 'w'): whatever the file held is gone.
Touch ==
  /\ phase = "touch"
  /\ files' = With(files, target.fileno, <<>>)
  /\ harmed' = (harmed \/ (target.fileno # last /\ InFile(target.fileno) # {}))
  /\ phase' = "write"
  /\ UNCHANGED <<frec, brec, last, writing, job, target, todo, crashes, faults>>

\* The file with a piece written at filerecord.used, over what was there.
Written(piece) ==
  With(files, target.fileno,
       SubSeq(files[target.fileno], 1, target.filerecord.used) \o <<piece>>)

Whole == [block |-> job, kind |-> "whole"]

\* What was there: a write that was never recorded.
Older ==
  {files[target.fileno][i].block :
     i \in DOMAIN files[target.fileno] \cap {target.filerecord.used + 1}}

\* What the two fs.write, of the magic and of the data, leave when they are cut
\* short: part of the piece, whose data may still be that of the older one.
Remains ==
  {[block |-> job, kind |-> kind] : kind \in Kinds}
    \cup {[block |-> b, kind |-> "torn"] : b \in Older}

WritePiece ==
  /\ phase = "write"
  /\ files' = Written(Whole)
  /\ phase' = "commit"
  /\ UNCHANGED <<frec, brec, last, writing, job, target, todo, crashes, faults, harmed>>

\* Mutant of NewCount: the block is not counted.
NewCountSame(n) == n

NewCount(n) == (n + 1) % (Top + 1)

\* The batch at the end of _write.
CommitWrite ==
  /\ phase = "commit"
  /\ LET f == target.fileno
         r == target.filerecord
     IN /\ brec' = With(brec, job, [file |-> f, position |-> r.used + 1])
        /\ frec' = With(frec, f, [blocks |-> NewCount(r.blocks), used |-> r.used + 1])
        /\ last' = f
  /\ writing' = FALSE
  /\ phase' = "idle" /\ job' = NoBlock /\ target' = NoTarget
  /\ UNCHANGED <<files, todo, crashes, faults, harmed>>

\* fs.write returns fewer bytes than asked: _write throws and clears the flag.
ShortWrite ==
  /\ phase = "write" /\ faults < MaxFaults
  /\ \E piece \in Remains : files' = Written(piece)
  /\ writing' = FALSE
  /\ phase' = "idle" /\ job' = NoBlock /\ target' = NoTarget
  /\ faults' = faults + 1
  /\ UNCHANGED <<frec, brec, last, todo, crashes, harmed>>

\* fs.open, fs.write or the batch throws: nothing clears the flag.
WriteThrows ==
  /\ phase \in {"touch", "write", "commit"} /\ faults < MaxFaults
  /\ \/ UNCHANGED files
     \/ phase = "write" /\ \E piece \in Remains : files' = Written(piece)
  /\ phase' = "idle" /\ job' = NoBlock /\ target' = NoTarget
  /\ faults' = faults + 1
  /\ UNCHANGED <<frec, brec, last, writing, todo, crashes, harmed>>

----------------------------------------------------------------------------
\* Pruning.

\* Mutant of LessOne: the count is signed.
LessOneSigned(n) == n - 1

\* filerecord.blocks is an unsigned number.
LessOne(n) == IF n = 0 THEN Top ELSE n - 1

\* Mutant of Emptied: the last file goes while it has one block.
EmptiedEarly(n) == n \in {0, 1}

Emptied(n) == n = 0

\* _prune, with its batch.
Prune(b) ==
  /\ phase = "idle"
  /\ b \in DOMAIN brec /\ brec[b].file \in DOMAIN frec
  /\ LET f == brec[b].file
         n == LessOne(frec[f].blocks)
     IN /\ frec' = IF Emptied(n) THEN [g \in DOMAIN frec \ {f} |-> frec[g]]
                   ELSE [frec EXCEPT ![f].blocks = n]
        /\ brec' = [c \in DOMAIN brec \ {b} |-> brec[c]]
        /\ todo' = IF Emptied(n) THEN {f} ELSE {}
        /\ phase' = IF Emptied(n) THEN "unlink" ELSE "idle"
  /\ UNCHANGED <<files, last, writing, job, target, crashes, faults, harmed>>

\* _prune's fs.unlink, which throws when the file is gone.
Unlink ==
  /\ phase = "unlink"
  /\ \/ files' = [g \in DOMAIN files \ todo |-> files[g]] /\ faults' = faults
     \/ faults < MaxFaults /\ faults' = faults + 1 /\ UNCHANGED files
  /\ phase' = "idle" /\ todo' = {}
  /\ UNCHANGED <<frec, brec, last, writing, job, target, crashes, harmed>>

----------------------------------------------------------------------------
\* Crash, and what open does about it.

\* The process ends, perhaps in the middle of a write.
Crash ==
  /\ crashes < MaxCrashes /\ phase # "closed"
  /\ \/ UNCHANGED files
     \/ phase = "write" /\ \E piece \in Remains : files' = Written(piece)
  /\ writing' = FALSE
  /\ phase' = "closed" /\ job' = NoBlock /\ target' = NoTarget /\ todo' = {}
  /\ crashes' = crashes + 1
  /\ UNCHANGED <<frec, brec, last, faults, harmed>>

\* close: the next start has a new FileBlockStore.
Close ==
  /\ phase = "idle"
  /\ phase' = "closed" /\ writing' = FALSE
  /\ UNCHANGED <<disk, job, target, todo, crashes, faults, harmed>>

\* The index directory is lost; the files are not.
LoseIndex ==
  /\ phase = "closed" /\ faults < MaxFaults
  /\ frec' = <<>> /\ brec' = <<>> /\ last' = 0
  /\ faults' = faults + 1
  /\ UNCHANGED <<files, writing, phase, job, target, todo, crashes, harmed>>

\* check: some file has no record.
Missing == DOMAIN files \ DOMAIN frec # {}

\* _index reads every file when one has no record.
ToIndex == IF Missing THEN DOMAIN files ELSE {}

Open ==
  /\ phase = "closed"
  /\ todo' = ToIndex
  /\ phase' = IF ToIndex = {} THEN "idle" ELSE "opening"
  /\ UNCHANGED <<disk, writing, job, target, crashes, faults, harmed>>

Torn(s) == {i \in DOMAIN s : s[i].kind = "torn"}

\* The sets of positions at which the scan of _index may find a block.  It takes
\* what follows a magic for the length, the hash and the data.  Behind a torn
\* piece these are bytes of the next pieces: the torn one is taken for a block
\* if the length does not pass the end of the file, and pieces that begin
\* before the place the scan then goes on from are missed.
Readings(s) ==
  {found \in SUBSET {i \in DOMAIN s : s[i].kind # "scrap"} :
     \A i \in DOMAIN s \ found :
       s[i].kind = "whole" => \E j \in Torn(s) : j < i /\ (j + 1)..i \cap found = {}}

\* reader.offset at the end of the scan: the last bytes are not read, and the
\* next write goes over them, unless the last piece is a block.
Used(s, found) ==
  {Len(s)} \cup {n \in {Len(s) - 1} : n + 1 \in DOMAIN s \ (found \cup Torn(s))}

\* The block records that _index writes for a file; of two copies, the later.
Records(f, found) ==
  LET at(b) == {i \in found : files[f][i].block = b}
  IN [b \in {files[f][i].block : i \in found} |->
        [file |-> f, position |-> CHOOSE i \in at(b) : \A j \in at(b) : j <= i]]

\* What `harmed' says of a scan.
Misread(s, found) ==
  found # {i \in DOMAIN s : s[i].kind = "whole"}

\* _index for one file, one batch; the directory lists the files in any order.
\* Of the torn pieces some are counted under a hash that is no block's.
IndexFile(f) ==
  /\ phase = "opening" /\ f \in todo
  /\ \E found \in Readings(files[f]) :
       /\ \E n \in 0..Cardinality(Torn(files[f]) \ found), u \in Used(files[f], found) :
            frec' = With(frec, f, [blocks |-> Cardinality(found) + n, used |-> u])
       /\ brec' = WithAll(brec, Records(f, found))
       /\ harmed' = (harmed \/ Misread(files[f], found))
  /\ todo' = todo \ {f}
  /\ phase' = IF todo = {f} THEN "idle" ELSE "opening"
  /\ UNCHANGED <<files, last, writing, job, target, crashes, faults>>

----------------------------------------------------------------------------
Next ==
  \/ Touch \/ WritePiece \/ CommitWrite \/ ShortWrite \/ WriteThrows
  \/ Unlink \/ Crash \/ Close \/ LoseIndex \/ Open
  \/ \E b \in Block : Write(b) \/ Prune(b)
  \/ \E f \in File : IndexFile(f)

Spec == Init /\ [][Next]_vars

----------------------------------------------------------------------------
\* Properties.

\* What can be read; while the store is closed, what the index pass will find
\* in the files that have no record too.
Kept ==
  {b \in Block :
     \/ Readable(b)
     \/ /\ phase \in {"closed", "opening"}
        /\ \E f \in DOMAIN files \ DOMAIN frec : \E i \in DOMAIN files[f] :
             files[f][i] = [block |-> b, kind |-> "whole"]}

Promise == INSTANCE KeptBlocks WITH kept <- Kept

\* The process ends or starts.
Restarts == Crash \/ Close \/ LoseIndex \/ Open \/ \E f \in File : IndexFile(f)

\* Whatever the order of writes, prunes, short writes, errors, crashes and index
\* passes, only _prune takes something from what can be read, the block it is
\* called with; only the batch of _write adds a block, the one it wrote; a
\* restart may bring back what was pruned or not recorded; nothing else changes
\* what can be read, save where `harmed' says what the store cannot stand.
KeepsPromise ==
  [][~harmed' => \/ CommitWrite /\ Promise!Put(job)
                 \/ \E b \in Block : Prune(b) /\ Promise!Drop(b)
                 \/ Restarts /\ Promise!Recover
                 \/ UNCHANGED Kept]_vars

\* The file record counts every block whose record names the file, so _prune
\* unlinks no file that holds a block: the counts of _write, _prune and _index
\* agree through restarts, copies of one block in a file included.
CountsCover ==
  ~harmed /\ phase = "idle" =>
    \A f \in DOMAIN files :
      InFile(f) # {} => f \in DOMAIN frec /\ frec[f].blocks >= Cardinality(InFile(f))

\* A block that has() reports can be read: no record outlives its file or names
\* a piece that is torn, overwritten or another block's.
AllReadable == ~harmed /\ phase = "idle" => \A b \in DOMAIN brec : Readable(b)
=============================================================================
