---------------------------- MODULE StorageProofs ----------------------------
(***************************************************************************)
(* Proofs about lib/fs/spifs/spifs.c, for any device, any files, any       *)
(* lengths and directories: whenever the power fails and whichever calls   *)
(* fail, no file that was reported to be there is lost, nor any page of it *)
(* but the one that is being written again, and a directory that is being  *)
(* read stands at a file that is there.  About psar.c, for any container:  *)
(* every callback gets the data of its own entry.  And about               *)
(* lib/norfs/norfs.c, for any objects and blocks: the references that are  *)
(* counted are the copies on the flash, and a mount finds what was stored, *)
(* with the exceptions that CrashKeepsObjects names.                       *)
(***************************************************************************)
EXTENDS Spifs, Psar, Norfs, FiniteSetTheorems, SequenceTheorems, WellFoundedInduction, TLAPS

TocNames == {FRONT_TOC, BACK_TOC}

FileEntry ==
  [name : Names \cup TocNames, page_idx : Nat, capacity : Nat, length : Nat]

Kinds == {"none", "create", "remove", "write", "grow", "truncate", "format", "format_again"}

Stages == {"none", "erase", "page", "rewrite", "commit", "writing"}
OpRecord == [kind : Kinds, at : Stages, file : FileEntry, left : SUBSET Nat]

SpifsTypeOK ==
  /\ toc \in [TocNames -> [generation : Nat, files : Seq(FileEntry)]]
  /\ page \in [0 .. page_count - 1 -> Names \cup {"erased"}]
  /\ spifs_mounted \in BOOLEAN
  /\ generation \in Nat
  /\ toc_position \in TocNames
  /\ files \in Seq(FileEntry)
  /\ cookies \in [Dirs -> Names \cup TocNames \cup {Closed}]
  /\ op \in OpRecord
  /\ exists \in SUBSET Names
  /\ stored \in [Names -> SUBSET Nat]
  /\ saved \in [Names -> Nat]
  /\ formatted \in BOOLEAN

(* The page behind a file. *)
End(f) == f.page_idx + f.capacity

(* A list of files as spifs_mount relies on it: between the two tables,    *)
(* files of different names, none of which reaches into a later one.       *)
Sound(fs) ==
  /\ fs \in Seq(FileEntry)
  /\ Len(fs) >= 2
  /\ fs[1] = TocFiles[1]
  /\ fs[Len(fs)] = TocFiles[2]
  /\ \A i \in 2 .. Len(fs) - 1 : fs[i].name \in Names
  /\ \A i, j \in 1 .. Len(fs) :
       i < j => fs[i].name # fs[j].name /\ End(fs[i]) <= fs[j].page_idx

(* Every table with a right checksum is sound. *)
TablesSound ==
  \A t \in TocNames : toc[t] = TornToc \/ (toc[t].generation > 0 /\ Sound(toc[t].files))

(* Every file of ex is in list fs, as long as len says and with the pages  *)
(* that are in pages.                                                      *)
Holds(fs, ex, len, pages) ==
  \A n \in ex : \E i \in 2 .. Len(fs) - 1 :
    fs[i].name = n /\ fs[i].length >= len[n] /\ pages[n] \subseteq PagesOf(fs[i])

(* Every file that has to be there is in list fs, as long as it was saved, *)
(* and with the pages that were stored.                                    *)
Keeps(fs) == Holds(fs, exists, saved, stored)

(* A file of ex lies in the same place in either list. *)
Agrees(fs, gs, ex) ==
  \A n \in ex : \A i \in DOMAIN fs, j \in DOMAIN gs :
    fs[i].name = n /\ gs[j].name = n =>
      fs[i].page_idx = gs[j].page_idx /\ fs[i].capacity = gs[j].capacity

(* What was stored is there, of the files that have to be. *)
OwnData ==
  /\ \A n \in exists : \A p \in stored[n] : p \in DOMAIN page /\ page[p] = n
  /\ \A n \in Names \ exists : stored[n] = {}

(* File f, which is not in list fs, lies in a gap of it. *)
InGap(f, fs) ==
  /\ f.name \in Names
  /\ f.capacity >= 1
  /\ \A i \in DOMAIN fs : fs[i].name # f.name
  /\ \E i \in 1 .. Len(fs) - 1 :
       End(fs[i]) = f.page_idx /\ End(f) <= fs[i + 1].page_idx

(* Where an operation on the mounted file system may stand. *)
OpOnFiles ==
  \/ op = Idle
  \/ op.at = "erase" /\ op.kind = "create" /\ InGap(op.file, files)
  \/ /\ op.at \in {"commit", "writing"}
     /\ op.kind = "create"
     /\ \E i \in 2 .. Len(files) - 1 : files[i] = op.file
     /\ op.file.name \notin exists
     /\ \A d \in Dirs : cookies[d] # op.file.name
  \/ op.at \in {"commit", "writing"} /\ op.kind \in {"remove", "grow", "truncate"}
  \/ /\ op.at \in {"page", "rewrite"}
     /\ op.kind \in {"write", "grow"}
     /\ op.left # {}
     /\ op.at = "rewrite" => NextPage \notin stored[op.file.name]
     /\ \E i \in 2 .. Len(files) - 1 :
          files[i].name = op.file.name /\ op.left \subseteq PagesOf(files[i])

(* While the file system is mounted: the table in use and the one that a   *)
(* mount would take keep what the list in memory keeps.  They differ after *)
(* a commit whose last page was written although it failed, and after a    *)
(* mount that could not read the newer table.                              *)
Mounted ==
  /\ Sound(files)
  /\ Keeps(files)
  /\ generation > 0
  /\ toc[toc_position].generation = generation
  /\ \A t \in {toc_position, Newest} : Keeps(toc[t].files) /\ Agrees(toc[t].files, files, exists)
  /\ OpOnFiles
  /\ CookiesAlive

(* While it is not, spifs_format may be under way, and has forgotten the   *)
(* files.                                                                  *)
NotMounted ==
  /\ \A d \in Dirs : cookies[d] = Closed
  /\ Keeps(toc[Newest].files)
  /\ \/ op = Idle
     \/ /\ op.at \in {"commit", "writing"}
        /\ op.kind = "format" => toc_position = FRONT_TOC /\ generation = 1
        /\ op.kind = "format_again" =>
             toc_position = BACK_TOC /\ generation = 2 /\ toc[BACK_TOC].generation = 2
        /\ op.kind \in {"format", "format_again"}
        /\ files = TocFiles
        /\ exists = {}
        /\ ~formatted

SpifsInv ==
  /\ SpifsTypeOK
  /\ TablesSound
  /\ OwnData
  /\ formatted => toc[Newest].generation # CORRUPT_TOC
  /\ IF spifs_mounted THEN Mounted ELSE NotMounted
-----------------------------------------------------------------------------
(* Lists of files. *)

LEMMA Joined ==
  ASSUME NEW S, NEW a \in Seq(S), NEW b \in Seq(S)
  PROVE  /\ a \o b \in Seq(S)
         /\ Len(a \o b) = Len(a) + Len(b)
         /\ \A i \in 1 .. Len(a) + Len(b) : (a \o b)[i] = IF i <= Len(a) THEN a[i] ELSE b[i - Len(a)]
  BY ConcatProperties

LEMMA Removed ==
  ASSUME NEW S, NEW s \in Seq(S), NEW k \in 1 .. Len(s)
  PROVE  /\ RemoveAt(s, k) \in Seq(S)
         /\ Len(RemoveAt(s, k)) = Len(s) - 1
         /\ \A i \in 1 .. Len(s) - 1 : RemoveAt(s, k)[i] = IF i < k THEN s[i] ELSE s[i + 1]
  <1> DEFINE a == SubSeq(s, 1, k - 1)  b == SubSeq(s, k + 1, Len(s))
  <1>1. /\ a \in Seq(S) /\ Len(a) = k - 1
        /\ \A i \in 1 .. k - 1 : a[i] = s[i]
    OBVIOUS
  <1>2. /\ b \in Seq(S) /\ Len(b) = Len(s) - k
        /\ \A i \in 1 .. Len(s) - k : b[i] = s[k + i]
    OBVIOUS
  <1>3. RemoveAt(s, k) = a \o b
    BY DEF RemoveAt
  <1> HIDE DEF a, b
  <1> DEFINE c == a \o b
  <1>4. /\ c \in Seq(S) /\ Len(c) = Len(a) + Len(b)
        /\ \A i \in 1 .. Len(a) + Len(b) : c[i] = IF i <= Len(a) THEN a[i] ELSE b[i - Len(a)]
    BY <1>1, <1>2, Joined
  <1> HIDE DEF c
  <1>5. \A i \in 1 .. Len(s) - 1 : c[i] = IF i < k THEN a[i] ELSE b[i - (k - 1)]
    <2> TAKE i \in 1 .. Len(s) - 1
    <2>1. Len(a) = k - 1 /\ i \in 1 .. Len(a) + Len(b) /\ (i <= Len(a) <=> i < k)
      BY <1>1, <1>2
    <2> QED BY <1>4, <2>1
  <1>6. \A i \in 1 .. Len(s) - 1 : i >= k => b[i - (k - 1)] = s[i + 1]
    <2> TAKE i \in 1 .. Len(s) - 1
    <2>1. ASSUME i >= k PROVE i - (k - 1) \in 1 .. Len(s) - k /\ k + (i - (k - 1)) = i + 1
      BY <2>1
    <2> QED BY <2>1, <1>2
  <1> QED BY <1>1, <1>2, <1>3, <1>4, <1>5, <1>6 DEF c

(* List d is list s with e as its k-th element. *)
HasInserted(d, s, k, e) ==
  /\ Len(d) = Len(s) + 1
  /\ d[k] = e
  /\ \A i \in 1 .. Len(s) : IF i < k THEN d[i] = s[i] ELSE d[i + 1] = s[i]

LEMMA Inserted ==
  ASSUME NEW S, NEW s \in Seq(S), NEW k \in 1 .. Len(s), NEW e \in S,
         NEW d, d = InsertAt(s, k, e)
  PROVE  d \in Seq(S) /\ HasInserted(d, s, k, e)
  <1> DEFINE a == SubSeq(s, 1, k - 1)  b == SubSeq(s, k, Len(s))  c == a \o <<e>>
  <1>1. /\ a \in Seq(S) /\ Len(a) = k - 1
        /\ \A i \in 1 .. k - 1 : a[i] = s[i]
    OBVIOUS
  <1>2. /\ b \in Seq(S) /\ Len(b) = Len(s) - k + 1
        /\ \A i \in 1 .. Len(s) - k + 1 : b[i] = s[k + i - 1]
    OBVIOUS
  <1>3. d = c \o b
    BY DEF InsertAt
  <1> HIDE DEF a, b
  <1>4. /\ c \in Seq(S) /\ Len(c) = k
        /\ \A i \in 1 .. k - 1 : c[i] = a[i]
        /\ c[k] = e
    BY <1>1
  <1> HIDE DEF c
  <1>5. /\ d \in Seq(S) /\ Len(d) = Len(c) + Len(b)
        /\ \A i \in 1 .. Len(c) + Len(b) : d[i] = IF i <= Len(c) THEN c[i] ELSE b[i - Len(c)]
    BY <1>2, <1>3, <1>4, Joined
  <1>6. Len(s) \in Nat /\ Len(d) = Len(s) + 1
    BY <1>2, <1>4, <1>5
  <1>7. d[k] = e
    BY <1>4, <1>5, <1>6
  <1>8. ASSUME NEW i \in 1 .. Len(s) PROVE IF i < k THEN d[i] = s[i] ELSE d[i + 1] = s[i]
    <2>1. CASE i < k
      <3>1. i \in 1 .. k - 1 /\ i \in 1 .. Len(c) + Len(b) /\ i <= Len(c)
        BY <2>1, <1>4, <1>5, <1>6
      <3> QED BY <2>1, <3>1, <1>1, <1>4, <1>5
    <2>2. CASE ~(i < k)
      <3>1. /\ i + 1 \in 1 .. Len(c) + Len(b) /\ ~(i + 1 <= Len(c))
            /\ i + 1 - Len(c) \in 1 .. Len(s) - k + 1 /\ k + (i + 1 - Len(c)) - 1 = i
        BY <2>2, <1>4, <1>5, <1>6
      <3>2. d[i + 1] = b[i + 1 - Len(c)]
        BY <3>1, <1>5
      <3>3. b[i + 1 - Len(c)] = s[i]
        BY <3>1, <1>2
      <3> QED BY <2>2, <3>2, <3>3
    <2> QED BY <2>1, <2>2
  <1> QED BY <1>5, <1>6, <1>7, <1>8 DEF HasInserted

(* The two tables, in a list and as entries. *)
LEMMA Tables ==
  /\ TocFiles \in Seq(FileEntry) /\ Len(TocFiles) = 2
  /\ TocFiles[1].name = FRONT_TOC /\ TocFiles[1].page_idx = 0
  /\ TocFiles[1].capacity = toc_pages
  /\ TocFiles[2].name = BACK_TOC /\ TocFiles[2].page_idx = page_count - toc_pages
  /\ TocFiles[2].capacity = toc_pages
  /\ TocFiles[1] \in FileEntry /\ TocFiles[2] \in FileEntry
  /\ FRONT_TOC # BACK_TOC /\ FRONT_TOC \notin Names /\ BACK_TOC \notin Names
  /\ Closed \notin Names \cup TocNames
  /\ toc_pages \in Nat \ {0} /\ page_count \in Nat /\ page_count >= 2 * toc_pages
  BY SpifsAssumption DEF TocFiles, Entry, FileEntry, TocNames, FRONT_TOC, BACK_TOC, Closed

LEMMA SoundTables == Sound(TocFiles)
  BY Tables DEF Sound, End

LEMMA EndOf ==
  ASSUME NEW f, f.page_idx \in Nat, f.capacity \in Nat
  PROVE  End(f) \in Nat /\ f.page_idx <= End(f)
  BY DEF End

LEMMA PagesApart ==
  ASSUME NEW f, NEW g, f.page_idx \in Nat, f.capacity \in Nat, g.page_idx \in Nat, g.capacity \in Nat,
         End(f) <= g.page_idx \/ End(g) <= f.page_idx
  PROVE  PagesOf(f) \cap PagesOf(g) = {}
  BY DEF End, PagesOf

LEMMA Chain ==
  ASSUME NEW a \in Nat, NEW b \in Nat, NEW c \in Nat, a <= b, b <= c
  PROVE  a <= c
  OBVIOUS

(* A file of a sound list: only the tables are at its ends, a name is      *)
(* there once, and its pages are pages of the device and its own.          *)
LEMMA SoundFacts ==
  ASSUME NEW fs, Sound(fs)
  PROVE  /\ DOMAIN fs = 1 .. Len(fs) /\ Len(fs) \in Nat
         /\ \A i \in 1 .. Len(fs) : fs[i] \in FileEntry
         /\ \A i \in 1 .. Len(fs) : fs[i].page_idx \in Nat /\ fs[i].capacity \in Nat
                                    /\ fs[i].length \in Nat
         /\ \A i \in 1 .. Len(fs) : fs[i].name \in Names <=> i \in 2 .. Len(fs) - 1
         /\ \A i, j \in 1 .. Len(fs) : fs[i].name = fs[j].name => i = j
         /\ \A i \in 2 .. Len(fs) - 1 : PagesOf(fs[i]) \subseteq 0 .. page_count - 1
         /\ \A i, j \in 1 .. Len(fs) : i # j => PagesOf(fs[i]) \cap PagesOf(fs[j]) = {}
         /\ consistency_check(fs)
  <1>1. /\ fs \in Seq(FileEntry) /\ Len(fs) >= 2
        /\ fs[1] = TocFiles[1] /\ fs[Len(fs)] = TocFiles[2]
        /\ \A i \in 2 .. Len(fs) - 1 : fs[i].name \in Names
        /\ \A i, j \in 1 .. Len(fs) :
             i < j => fs[i].name # fs[j].name /\ End(fs[i]) <= fs[j].page_idx
    BY DEF Sound
  <1>2. /\ DOMAIN fs = 1 .. Len(fs) /\ Len(fs) \in Nat
        /\ \A i \in 1 .. Len(fs) : fs[i] \in FileEntry
    BY <1>1
  <1>3. \A i \in 1 .. Len(fs) : fs[i].name \in Names <=> i \in 2 .. Len(fs) - 1
    BY <1>1, <1>2, Tables
  <1>4. \A i, j \in 1 .. Len(fs) : fs[i].name = fs[j].name => i = j
    BY <1>1, <1>2
  <1>5. \A i \in 1 .. Len(fs) : fs[i].page_idx \in Nat /\ fs[i].capacity \in Nat
                                /\ fs[i].length \in Nat
    BY <1>2 DEF FileEntry
  <1>6. \A i \in 2 .. Len(fs) - 1 : PagesOf(fs[i]) \subseteq 0 .. page_count - 1
    <2> TAKE i \in 2 .. Len(fs) - 1
    <2>1. i \in 1 .. Len(fs) /\ Len(fs) \in 1 .. Len(fs) /\ i < Len(fs)
      BY <1>1, <1>2
    <2>2. End(fs[i]) <= fs[Len(fs)].page_idx
      BY <1>1, <2>1
    <2>3. End(fs[i]) <= page_count - toc_pages
      BY <1>1, <2>2, Tables
    <2>4. fs[i].page_idx \in Nat /\ fs[i].capacity \in Nat
      BY <2>1, <1>5
    <2>5. /\ page_count \in Nat /\ toc_pages \in Nat
          /\ fs[i].page_idx + fs[i].capacity <= page_count - toc_pages
      BY <2>3, Tables DEF End
    <2> QED BY <2>4, <2>5 DEF PagesOf
  <1>7. \A i, j \in 1 .. Len(fs) : i # j => PagesOf(fs[i]) \cap PagesOf(fs[j]) = {}
    <2>1. ASSUME NEW i \in 1 .. Len(fs), NEW j \in 1 .. Len(fs), i < j
          PROVE  PagesOf(fs[i]) \cap PagesOf(fs[j]) = {}
      <3>1. End(fs[i]) <= fs[j].page_idx
        BY <2>1, <1>1
      <3>2. /\ fs[i].page_idx \in Nat /\ fs[i].capacity \in Nat
            /\ fs[j].page_idx \in Nat /\ fs[j].capacity \in Nat
        BY <1>5
      <3> QED BY <3>1, <3>2, PagesApart
    <2> QED BY <2>1, <1>2
  <1>8. consistency_check(fs)
    <2> SUFFICES ASSUME NEW i \in 1 .. Len(fs) - 1
                 PROVE  fs[i + 1].page_idx > fs[i].page_idx + fs[i].capacity - 1
      BY DEF consistency_check
    <2>1. i \in 1 .. Len(fs) /\ i + 1 \in 1 .. Len(fs) /\ i < i + 1
      BY <1>2
    <2>2. End(fs[i]) <= fs[i + 1].page_idx
      BY <2>1, <1>1
    <2>3. fs[i].page_idx \in Nat /\ fs[i].capacity \in Nat /\ fs[i + 1].page_idx \in Nat
      BY <2>1, <1>5
    <2> QED BY <2>2, <2>3 DEF End
  <1> QED BY <1>2, <1>3, <1>4, <1>5, <1>6, <1>7, <1>8

(* List gs is sound and has the files of list fs but the k-th. *)
Without(gs, fs, k) ==
  /\ Sound(gs)
  /\ \A i \in 2 .. Len(fs) - 1 : i # k => \E j \in 2 .. Len(gs) - 1 : gs[j] = fs[i]
  /\ \A i \in DOMAIN fs : i # k => \E j \in DOMAIN gs : gs[j] = fs[i]
  /\ \A j \in DOMAIN gs : \E i \in DOMAIN fs : i # k /\ gs[j] = fs[i]

(* Where the files of a list are after one of them has been taken out. *)
LEMMA SoundWithout ==
  ASSUME NEW fs, Sound(fs), NEW k \in 2 .. Len(fs) - 1, NEW gs, gs = RemoveAt(fs, k)
  PROVE  Without(gs, fs, k)
  <1>1. /\ fs \in Seq(FileEntry) /\ Len(fs) >= 2 /\ Len(fs) \in Nat
        /\ fs[1] = TocFiles[1] /\ fs[Len(fs)] = TocFiles[2]
        /\ \A i \in 2 .. Len(fs) - 1 : fs[i].name \in Names
        /\ \A i, j \in 1 .. Len(fs) :
             i < j => fs[i].name # fs[j].name /\ End(fs[i]) <= fs[j].page_idx
        /\ DOMAIN fs = 1 .. Len(fs)
    BY DEF Sound
  <1> DEFINE old(i) == IF i < k THEN i ELSE i + 1
             new(i) == IF i < k THEN i ELSE i - 1
  <1>2. /\ gs \in Seq(FileEntry) /\ Len(gs) = Len(fs) - 1
        /\ \A i \in 1 .. Len(fs) - 1 : gs[i] = fs[old(i)]
    <2>1. k \in 1 .. Len(fs)
      BY <1>1
    <2>2. /\ gs \in Seq(FileEntry) /\ Len(gs) = Len(fs) - 1
          /\ \A i \in 1 .. Len(fs) - 1 : gs[i] = IF i < k THEN fs[i] ELSE fs[i + 1]
      BY <1>1, <2>1, Removed
    <2> QED BY <2>2
  <1>3. DOMAIN gs = 1 .. Len(gs)
    BY <1>2
  <1>4. /\ \A i \in 1 .. Len(gs) : old(i) \in 1 .. Len(fs) /\ old(i) # k
        /\ \A i \in 2 .. Len(gs) - 1 : old(i) \in 2 .. Len(fs) - 1
        /\ \A i, j \in 1 .. Len(gs) : i < j => old(i) < old(j)
        /\ old(1) = 1 /\ old(Len(gs)) = Len(fs)
        /\ \A i \in 1 .. Len(fs) : i # k => new(i) \in 1 .. Len(gs) /\ old(new(i)) = i
        /\ \A i \in 2 .. Len(fs) - 1 : i # k => new(i) \in 2 .. Len(gs) - 1
    <2>1. Len(fs) \in Nat /\ Len(gs) = Len(fs) - 1
      BY <1>1, <1>2
    <2> QED BY <2>1
  <1> HIDE DEF old, new
  <1>5. Sound(gs)
    <2>1. Len(gs) >= 2
      BY <1>1, <1>2
    <2>2. /\ 1 \in 1 .. Len(gs) /\ Len(gs) \in 1 .. Len(gs)
          /\ \A i \in 2 .. Len(gs) - 1 : i \in 1 .. Len(gs)
      BY <1>2, <2>1
    <2>3. \A i \in 1 .. Len(gs) : gs[i] = fs[old(i)]
      BY <1>1, <1>2
    <2>4. gs[1] = TocFiles[1] /\ gs[Len(gs)] = TocFiles[2]
      BY <1>1, <1>4, <2>2, <2>3
    <2>5. \A i \in 2 .. Len(gs) - 1 : gs[i].name \in Names
      BY <1>1, <1>4, <2>2, <2>3
    <2>6. \A i, j \in 1 .. Len(gs) :
             i < j => gs[i].name # gs[j].name /\ End(gs[i]) <= gs[j].page_idx
      BY <1>1, <1>4, <2>3
    <2> QED BY <1>2, <2>1, <2>4, <2>5, <2>6 DEF Sound
  <1>6. \A i \in 1 .. Len(gs) : gs[i] = fs[old(i)]
    BY <1>1, <1>2
  <1>7. \A i \in 2 .. Len(fs) - 1 : i # k => \E j \in 2 .. Len(gs) - 1 : gs[j] = fs[i]
    <2>1. \A i \in 2 .. Len(fs) - 1 : i \in 1 .. Len(fs)
      BY <1>1
    <2> QED BY <1>4, <1>6, <2>1
  <1>8. \A i \in DOMAIN fs : i # k => \E j \in DOMAIN gs : gs[j] = fs[i]
    BY <1>1, <1>3, <1>4, <1>6
  <1>9. \A j \in DOMAIN gs : \E i \in DOMAIN fs : i # k /\ gs[j] = fs[i]
    BY <1>1, <1>3, <1>4, <1>6
  <1> QED BY <1>5, <1>7, <1>8, <1>9 DEF Without

(* The first file of fs that begins behind file f is the k-th. *)
FirstBehind(k, f, fs) ==
  /\ k \in DOMAIN fs
  /\ fs[k].page_idx > f.page_idx
  /\ \A j \in DOMAIN fs : fs[j].page_idx > f.page_idx => k <= j

(* spifs_add_ascending puts a file that lies in a gap into that gap.       *)
LEMMA SoundWith ==
  ASSUME NEW fs, Sound(fs), NEW f \in FileEntry, InGap(f, fs),
         NEW k, FirstBehind(k, f, fs), NEW gs, gs = InsertAt(fs, k, f)
  PROVE  /\ Sound(gs)
         /\ \E j \in 2 .. Len(gs) - 1 : gs[j] = f
         /\ \A i \in 2 .. Len(fs) - 1 : \E j \in 2 .. Len(gs) - 1 : gs[j] = fs[i]
         /\ \A i \in DOMAIN fs : \E j \in DOMAIN gs : gs[j] = fs[i]
         /\ \A j \in DOMAIN gs : gs[j] = f \/ \E i \in DOMAIN fs : gs[j] = fs[i]
  <1>1. /\ fs \in Seq(FileEntry) /\ Len(fs) >= 2 /\ Len(fs) \in Nat
        /\ fs[1] = TocFiles[1] /\ fs[Len(fs)] = TocFiles[2]
        /\ \A i \in 2 .. Len(fs) - 1 : fs[i].name \in Names
        /\ \A i, j \in 1 .. Len(fs) :
             i < j => fs[i].name # fs[j].name /\ End(fs[i]) <= fs[j].page_idx
        /\ DOMAIN fs = 1 .. Len(fs)
    BY DEF Sound
  <1>2. \A i \in 1 .. Len(fs) : fs[i].page_idx \in Nat /\ fs[i].capacity \in Nat
    BY SoundFacts
  <1>3. f.page_idx \in Nat /\ f.capacity \in Nat /\ f.capacity >= 1 /\ f.name \in Names
    BY DEF FileEntry, InGap
  <1>4. PICK g \in 1 .. Len(fs) - 1 : End(fs[g]) = f.page_idx /\ End(f) <= fs[g + 1].page_idx
    BY DEF InGap
  <1>5. k = g + 1
    <2>0. /\ k \in 1 .. Len(fs) /\ fs[k].page_idx > f.page_idx
          /\ \A j \in 1 .. Len(fs) : fs[j].page_idx > f.page_idx => k <= j
      BY <1>1 DEF FirstBehind
    <2>1. g \in 1 .. Len(fs) /\ g + 1 \in 1 .. Len(fs)
      BY <1>1
    <2>2. fs[g + 1].page_idx > f.page_idx
      BY <1>2, <1>3, <1>4, <2>1 DEF End
    <2>3. k <= g + 1
      BY <2>0, <2>1, <2>2
    <2>4. ASSUME k < g + 1 PROVE FALSE
      <3>1. k <= g /\ k \in 1 .. Len(fs)
        BY <2>0, <2>4
      <3>2. fs[k].page_idx <= End(fs[g])
        <4>1. CASE k = g
          BY <4>1, <1>2, <2>1 DEF End
        <4>2. CASE k < g
          <5>1. End(fs[k]) <= fs[g].page_idx
            BY <4>2, <1>1, <2>1, <3>1
          <5>2. /\ fs[k].page_idx \in Nat /\ fs[k].capacity \in Nat
                /\ fs[g].page_idx \in Nat /\ fs[g].capacity \in Nat
            BY <1>2, <2>1, <3>1
          <5>3. /\ End(fs[k]) \in Nat /\ fs[k].page_idx <= End(fs[k])
                /\ End(fs[g]) \in Nat /\ fs[g].page_idx <= End(fs[g])
            BY <5>2, EndOf
          <5>4. fs[k].page_idx <= fs[g].page_idx
            BY <5>1, <5>2, <5>3, Chain, Zenon
          <5> QED BY <5>2, <5>3, <5>4, Chain, Zenon
        <4> QED BY <3>1, <4>1, <4>2
      <3> QED BY <2>0, <3>2, <1>2, <1>3, <1>4, <3>1
    <2> QED BY <2>0, <2>3, <2>4, <1>1
  <1>6. k \in 2 .. Len(fs)
    BY <1>1, <1>5
  <1> DEFINE old(i) == IF i < k THEN i ELSE i - 1
             new(i) == IF i < k THEN i ELSE i + 1
  <1>7. /\ gs \in Seq(FileEntry) /\ Len(gs) = Len(fs) + 1
        /\ \A i \in 1 .. Len(gs) : i # k => gs[i] = fs[old(i)]
        /\ gs[k] = f
    <2>1. k \in 1 .. Len(fs)
      BY <1>1, <1>6
    <2>2. fs \in Seq(FileEntry) /\ f \in FileEntry /\ gs = InsertAt(fs, k, f)
      BY <1>1
    <2>3. /\ gs \in Seq(FileEntry) /\ Len(gs) = Len(fs) + 1
          /\ gs[k] = f
          /\ \A i \in 1 .. Len(fs) : IF i < k THEN gs[i] = fs[i] ELSE gs[i + 1] = fs[i]
      <3>1. gs \in Seq(FileEntry) /\ HasInserted(gs, fs, k, f)
        BY <2>1, <2>2, Inserted, Zenon
      <3> QED BY <3>1 DEF HasInserted
    <2>4. ASSUME NEW i \in 1 .. Len(gs), i # k PROVE gs[i] = fs[old(i)]
      <3>1. CASE i < k
        BY <3>1, <1>1, <2>1, <2>3
      <3>2. CASE i > k
        <4>1. i - 1 \in 1 .. Len(fs) /\ ~(i - 1 < k) /\ i - 1 + 1 = i /\ old(i) = i - 1
          BY <3>2, <1>1, <2>1, <2>3
        <4>2. gs[i - 1 + 1] = fs[i - 1]
          BY <2>3, <4>1
        <4> QED BY <4>1, <4>2
      <3> QED BY <2>1, <2>4, <3>1, <3>2
    <2> QED BY <2>3, <2>4
  <1>8. /\ \A i \in 1 .. Len(gs) : i # k => old(i) \in 1 .. Len(fs)
        /\ \A i \in 2 .. Len(gs) - 1 : i # k => old(i) \in 2 .. Len(fs) - 1
        /\ \A i, j \in 1 .. Len(gs) : i < j /\ i # k /\ j # k => old(i) < old(j)
        /\ old(1) = 1 /\ old(Len(gs)) = Len(fs)
        /\ \A i \in 1 .. Len(fs) : new(i) \in 1 .. Len(gs) /\ old(new(i)) = i /\ new(i) # k
        /\ \A i \in 2 .. Len(fs) - 1 : new(i) \in 2 .. Len(gs) - 1
        /\ \A i \in 1 .. Len(gs) : i < k => old(i) <= g
        /\ \A i \in 1 .. Len(gs) : i > k => old(i) >= g + 1
        /\ 1 # k /\ Len(gs) # k /\ DOMAIN gs = 1 .. Len(gs) /\ k \in 2 .. Len(gs) - 1
    BY <1>1, <1>5, <1>6, <1>7
  <1> HIDE DEF old, new
  <1>9. Sound(gs)
    <2>1. Len(gs) >= 2
      BY <1>1, <1>7
    <2>2. /\ 1 \in 1 .. Len(gs) /\ Len(gs) \in 1 .. Len(gs)
          /\ \A i \in 2 .. Len(gs) - 1 : i \in 1 .. Len(gs)
      BY <1>1, <1>7
    <2>3. gs[1] = TocFiles[1] /\ gs[Len(gs)] = TocFiles[2]
      <3>1. gs[1] = fs[old(1)] /\ gs[Len(gs)] = fs[old(Len(gs))]
        BY <1>7, <1>8, <2>2, Zenon
      <3> QED BY <1>1, <1>8, <3>1, Zenon
    <2>4. \A i \in 2 .. Len(gs) - 1 : gs[i].name \in Names
      <3> TAKE i \in 2 .. Len(gs) - 1
      <3>1. CASE i = k
        BY <3>1, <1>3, <1>7
      <3>2. CASE i # k
        <4>1. gs[i] = fs[old(i)] /\ old(i) \in 2 .. Len(fs) - 1
          BY <3>2, <1>7, <1>8, <2>2
        <4> QED BY <4>1, <1>1
      <3> QED BY <3>1, <3>2
    <2>5. \A i \in 1 .. Len(fs) : fs[i].name # f.name
      BY <1>1 DEF InGap
    <2>6. ASSUME NEW i \in 1 .. Len(gs), NEW j \in 1 .. Len(gs), i < j
          PROVE  gs[i].name # gs[j].name /\ End(gs[i]) <= gs[j].page_idx
      <3>1. CASE i # k /\ j # k
        <4>1. gs[i] = fs[old(i)] /\ gs[j] = fs[old(j)]
          BY <3>1, <1>7
        <4>2. old(i) \in 1 .. Len(fs) /\ old(j) \in 1 .. Len(fs) /\ old(i) < old(j)
          BY <3>1, <2>6, <1>8
        <4> QED BY <4>1, <4>2, <1>1
      <3>2. CASE i = k
        <4>1. j # k /\ j > k /\ gs[j] = fs[old(j)] /\ old(j) \in 1 .. Len(fs) /\ old(j) >= g + 1
              /\ gs[i] = f
          <5>1. j # k /\ j > k /\ gs[i] = f
            BY <3>2, <2>6, <1>7
          <5> QED BY <5>1, <1>7, <1>8, Zenon
        <4>2. g + 1 \in 1 .. Len(fs)
          BY <1>1
        <4>3. fs[g + 1].page_idx <= fs[old(j)].page_idx
          <5>1. CASE old(j) = g + 1
            BY <5>1, <1>2, <4>2
          <5>2. CASE old(j) > g + 1
            <6>1. End(fs[g + 1]) <= fs[old(j)].page_idx
              BY <5>2, <1>1, <4>1, <4>2
            <6>2. /\ fs[g + 1].page_idx \in Nat /\ fs[g + 1].capacity \in Nat
                  /\ fs[old(j)].page_idx \in Nat
              BY <1>2, <4>1, <4>2
            <6>3. End(fs[g + 1]) \in Nat /\ fs[g + 1].page_idx <= End(fs[g + 1])
              BY <6>2, EndOf
            <6> QED BY <6>1, <6>2, <6>3, Chain, Zenon
          <5> QED BY <4>1, <4>2, <5>1, <5>2
        <4>4. /\ End(f) \in Nat /\ fs[g + 1].page_idx \in Nat /\ fs[old(j)].page_idx \in Nat
          BY <1>2, <1>3, <4>1, <4>2, EndOf
        <4>5. End(f) <= fs[old(j)].page_idx
          BY <1>4, <4>3, <4>4, Chain, Zenon
        <4> QED BY <2>5, <4>1, <4>5
      <3>3. CASE j = k
        <4>1. i # k /\ i < k /\ gs[i] = fs[old(i)] /\ old(i) \in 1 .. Len(fs) /\ old(i) <= g
              /\ gs[j] = f
          <5>1. i # k /\ i < k /\ gs[j] = f
            BY <3>3, <2>6, <1>7
          <5> QED BY <5>1, <1>7, <1>8, Zenon
        <4>2. g \in 1 .. Len(fs)
          BY <1>1
        <4>3. End(fs[old(i)]) <= End(fs[g])
          <5>1. CASE old(i) = g
            BY <5>1, <1>2, <4>2 DEF End
          <5>2. CASE old(i) < g
            <6>1. End(fs[old(i)]) <= fs[g].page_idx
              BY <5>2, <1>1, <4>1, <4>2
            <6>2. fs[g].page_idx \in Nat /\ fs[g].capacity \in Nat
              BY <1>2, <4>2
            <6>3. End(fs[old(i)]) \in Nat
              BY <1>2, <4>1 DEF End
            <6> QED BY <6>1, <6>2, <6>3 DEF End
          <5> QED BY <4>1, <4>2, <5>1, <5>2
        <4> QED BY <1>4, <2>5, <4>1, <4>3
      <3> QED BY <3>1, <3>2, <3>3
    <2> QED BY <1>7, <2>1, <2>3, <2>4, <2>6 DEF Sound
  <1>10. /\ \A i \in 1 .. Len(fs) : gs[new(i)] = fs[i]
         /\ \A i \in 2 .. Len(fs) - 1 : i \in 1 .. Len(fs)
    <2>1. \A i \in 1 .. Len(fs) : gs[new(i)] = fs[i]
      <3> TAKE i \in 1 .. Len(fs)
      <3>1. new(i) \in 1 .. Len(gs) /\ new(i) # k /\ old(new(i)) = i
        BY <1>8
      <3>2. gs[new(i)] = fs[old(new(i))]
        BY <1>7, <3>1
      <3> QED BY <3>1, <3>2
    <2> QED BY <1>1, <2>1
  <1>11. \E j \in 2 .. Len(gs) - 1 : gs[j] = f
    BY <1>7, <1>8
  <1>12. /\ \A i \in 2 .. Len(fs) - 1 : \E j \in 2 .. Len(gs) - 1 : gs[j] = fs[i]
         /\ \A i \in DOMAIN fs : \E j \in DOMAIN gs : gs[j] = fs[i]
    <2>1. DOMAIN fs = 1 .. Len(fs) /\ DOMAIN gs = 1 .. Len(gs)
      BY <1>1, <1>8
    <2>2. /\ \A i \in 1 .. Len(fs) : new(i) \in 1 .. Len(gs)
          /\ \A i \in 2 .. Len(fs) - 1 : new(i) \in 2 .. Len(gs) - 1
      BY <1>8
    <2> QED BY <1>10, <2>1, <2>2
  <1>13. \A j \in DOMAIN gs : gs[j] = f \/ \E i \in DOMAIN fs : gs[j] = fs[i]
    <2>1. DOMAIN fs = 1 .. Len(fs) /\ DOMAIN gs = 1 .. Len(gs)
      BY <1>1, <1>8
    <2>2. \A i \in 1 .. Len(gs) : i # k => gs[i] = fs[old(i)] /\ old(i) \in 1 .. Len(fs)
      BY <1>7, <1>8
    <2> QED BY <1>7, <2>1, <2>2
  <1> QED BY <1>9, <1>11, <1>12, <1>13

(* List gs is sound and list fs but for the length of file n. *)
Relengthed(gs, fs, n, len) ==
  /\ Sound(gs)
  /\ DOMAIN gs = DOMAIN fs /\ Len(gs) = Len(fs)
  /\ \A i \in DOMAIN fs : /\ gs[i].name = fs[i].name /\ gs[i].page_idx = fs[i].page_idx
                          /\ gs[i].capacity = fs[i].capacity
                          /\ gs[i].length = IF fs[i].name = n THEN len ELSE fs[i].length

LEMMA SoundLengths ==
  ASSUME NEW fs, Sound(fs), NEW n \in Names, NEW len \in Nat,
         NEW gs, gs = [i \in DOMAIN fs |->
                         IF fs[i].name = n THEN [fs[i] EXCEPT !.length = len] ELSE fs[i]]
  PROVE  Relengthed(gs, fs, n, len)
  <1>1. /\ fs \in Seq(FileEntry) /\ Len(fs) >= 2 /\ Len(fs) \in Nat
        /\ fs[1] = TocFiles[1] /\ fs[Len(fs)] = TocFiles[2]
        /\ \A i \in 2 .. Len(fs) - 1 : fs[i].name \in Names
        /\ \A i, j \in 1 .. Len(fs) :
             i < j => fs[i].name # fs[j].name /\ End(fs[i]) <= fs[j].page_idx
        /\ DOMAIN fs = 1 .. Len(fs)
    BY DEF Sound
  <1>2. \A i \in 1 .. Len(fs) : fs[i] \in FileEntry
    BY <1>1
  <1>3. \A i \in DOMAIN fs : /\ gs[i] \in FileEntry
                             /\ gs[i].name = fs[i].name /\ gs[i].page_idx = fs[i].page_idx
                             /\ gs[i].capacity = fs[i].capacity
                             /\ gs[i].length = IF fs[i].name = n THEN len ELSE fs[i].length
    <2> TAKE i \in DOMAIN fs
    <2>1. fs[i] \in FileEntry /\ gs[i] = IF fs[i].name = n THEN [fs[i] EXCEPT !.length = len] ELSE fs[i]
      BY <1>1, <1>2
    <2> QED BY <2>1 DEF FileEntry
  <1>4. gs \in Seq(FileEntry) /\ Len(gs) = Len(fs) /\ DOMAIN gs = DOMAIN fs
    <2>1. gs \in [1 .. Len(fs) -> FileEntry]
      BY <1>1, <1>3
    <2> QED BY <1>1, <2>1
  <1>5. gs[1] = fs[1] /\ gs[Len(fs)] = fs[Len(fs)]
    BY <1>1, Tables
  <1>6. \A i, j \in 1 .. Len(gs) :
             i < j => gs[i].name # gs[j].name /\ End(gs[i]) <= gs[j].page_idx
    BY <1>1, <1>3, <1>4 DEF End
  <1>7. \A i \in 2 .. Len(gs) - 1 : gs[i].name \in Names
    BY <1>1, <1>3, <1>4
  <1>8. Sound(gs)
    BY <1>1, <1>3, <1>4, <1>5, <1>6, <1>7 DEF Sound
  <1> QED BY <1>3, <1>4, <1>8 DEF Relengthed

(* What a list holds, another holds that has the same files in the same    *)
(* places.                                                                 *)
LEMMA HoldsStep ==
  ASSUME NEW fs, NEW gs, NEW ex, NEW ex2, NEW len, NEW len2, NEW pages, NEW pages2,
         ex2 \subseteq ex,
         \A n \in ex2 : pages2[n] \subseteq pages[n],
         \A n \in ex2 : \A i \in 2 .. Len(fs) - 1 :
           fs[i].name = n /\ fs[i].length >= len[n] =>
             \E j \in 2 .. Len(gs) - 1 : /\ gs[j].name = n /\ gs[j].length >= len2[n]
                                         /\ PagesOf(fs[i]) \subseteq PagesOf(gs[j]),
         Holds(fs, ex, len, pages)
  PROVE  Holds(gs, ex2, len2, pages2)
  <1> SUFFICES ASSUME NEW n \in ex2
               PROVE  \E j \in 2 .. Len(gs) - 1 : /\ gs[j].name = n /\ gs[j].length >= len2[n]
                                                  /\ pages2[n] \subseteq PagesOf(gs[j])
    BY Zenon DEF Holds
  <1>1. PICK i \in 2 .. Len(fs) - 1 :
          fs[i].name = n /\ fs[i].length >= len[n] /\ pages[n] \subseteq PagesOf(fs[i])
    BY Zenon DEF Holds
  <1>2. PICK j \in 2 .. Len(gs) - 1 : /\ gs[j].name = n /\ gs[j].length >= len2[n]
                                      /\ PagesOf(fs[i]) \subseteq PagesOf(gs[j])
    BY <1>1, Zenon
  <1>3. pages2[n] \subseteq PagesOf(gs[j])
    BY <1>1, <1>2, Zenon
  <1> QED BY <1>2, <1>3, Zenon

(* ... or has more files.                                                  *)
LEMMA HoldsMore ==
  ASSUME NEW fs, NEW gs, NEW ex, NEW len, NEW pages,
         \A i \in 2 .. Len(fs) - 1 : fs[i].name \in ex => \E j \in 2 .. Len(gs) - 1 : gs[j] = fs[i],
         Holds(fs, ex, len, pages)
  PROVE  Holds(gs, ex, len, pages)
  <1> SUFFICES ASSUME NEW n \in ex
               PROVE  \E j \in 2 .. Len(gs) - 1 : /\ gs[j].name = n /\ gs[j].length >= len[n]
                                                  /\ pages[n] \subseteq PagesOf(gs[j])
    BY Zenon DEF Holds
  <1>1. PICK i \in 2 .. Len(fs) - 1 :
          fs[i].name = n /\ fs[i].length >= len[n] /\ pages[n] \subseteq PagesOf(fs[i])
    BY Zenon DEF Holds
  <1>2. PICK j \in 2 .. Len(gs) - 1 : gs[j] = fs[i]
    BY <1>1, Zenon
  <1> QED BY <1>1, <1>2, Zenon

(* A list goes on holding less. *)
LEMMA HoldsLess ==
  ASSUME NEW fs \in Seq(FileEntry), NEW ex \in SUBSET Names, NEW ex2, NEW pages, NEW pages2,
         NEW len \in [Names -> Nat], NEW len2 \in [Names -> Nat],
         ex2 \subseteq ex,
         \A n \in ex2 : len2[n] <= len[n] /\ pages2[n] \subseteq pages[n],
         Holds(fs, ex, len, pages)
  PROVE  Holds(fs, ex2, len2, pages2)
  <1>1. ASSUME NEW n \in ex2, NEW i \in 2 .. Len(fs) - 1, fs[i].length >= len[n]
        PROVE  fs[i].length >= len2[n]
    <2>1. i \in 1 .. Len(fs)
      OBVIOUS
    <2>2. fs[i] \in FileEntry
      BY <2>1
    <2>3. fs[i].length \in Nat /\ len[n] \in Nat /\ len2[n] \in Nat
      BY <2>2 DEF FileEntry
    <2>4. len2[n] <= len[n] /\ len[n] <= fs[i].length
      BY <1>1, <2>3
    <2>5. len2[n] <= fs[i].length
      BY <2>3, <2>4, Chain, Zenon
    <2> QED BY <2>3, <2>5
  <1> SUFFICES ASSUME NEW n \in ex2
               PROVE  \E j \in 2 .. Len(fs) - 1 : /\ fs[j].name = n /\ fs[j].length >= len2[n]
                                                  /\ pages2[n] \subseteq PagesOf(fs[j])
    BY Zenon DEF Holds
  <1>2. PICK i \in 2 .. Len(fs) - 1 :
          fs[i].name = n /\ fs[i].length >= len[n] /\ pages[n] \subseteq PagesOf(fs[i])
    BY Zenon DEF Holds
  <1>3. pages2[n] \subseteq PagesOf(fs[i])
    BY <1>2, Zenon
  <1>4. fs[i].length >= len2[n]
    BY <1>1, <1>2, Zenon
  <1> QED BY <1>2, <1>3, <1>4, Zenon

(* The files of ex that are in list gs are in list fs, in their places. *)
FoundIn(gs, fs, ex) ==
  \A j \in DOMAIN gs : gs[j].name \in ex =>
    \E i \in DOMAIN fs : /\ fs[i].name = gs[j].name /\ fs[i].page_idx = gs[j].page_idx
                         /\ fs[i].capacity = gs[j].capacity

LEMMA AgreesStep ==
  ASSUME NEW fs, NEW gs, NEW gs2, NEW ex, NEW ex2, ex2 \subseteq ex, Agrees(fs, gs, ex),
         FoundIn(gs2, gs, ex2)
  PROVE  Agrees(fs, gs2, ex2)
  <1> SUFFICES ASSUME NEW n \in ex2, NEW i \in DOMAIN fs, NEW j \in DOMAIN gs2,
                      fs[i].name = n, gs2[j].name = n
               PROVE  fs[i].page_idx = gs2[j].page_idx /\ fs[i].capacity = gs2[j].capacity
    BY DEF Agrees
  <1>1. PICK k \in DOMAIN gs : /\ gs[k].name = gs2[j].name /\ gs[k].page_idx = gs2[j].page_idx
                               /\ gs[k].capacity = gs2[j].capacity
    BY Zenon DEF FoundIn
  <1>2. fs[i].page_idx = gs[k].page_idx /\ fs[i].capacity = gs[k].capacity
    <2>1. n \in ex /\ gs[k].name = n
      BY <1>1, Zenon
    <2>2. \A m \in ex : \A a \in DOMAIN fs, c \in DOMAIN gs :
            fs[a].name = m /\ gs[c].name = m =>
              fs[a].page_idx = gs[c].page_idx /\ fs[a].capacity = gs[c].capacity
      BY Zenon DEF Agrees
    <2> QED BY <2>1, <2>2, Zenon
  <1> QED BY <1>1, <1>2, Zenon

(* A name that is in the list is there in one place. *)
LEMMA Places ==
  ASSUME Sound(files)
  PROVE  /\ \A i \in DOMAIN files : IndexOf(files[i].name) = i
         /\ \A n \in Names : find_file(n) <=> \E i \in DOMAIN files : files[i].name = n
         /\ \A n \in Names : find_file(n) =>
              /\ IndexOf(n) \in 2 .. Len(files) - 1 /\ IndexOf(n) \in DOMAIN files
              /\ files[IndexOf(n)].name = n /\ TheFile(n) = files[IndexOf(n)]
              /\ TheFile(n) \in FileEntry
  <1>1. /\ DOMAIN files = 1 .. Len(files) /\ Len(files) \in Nat
        /\ \A i \in 1 .. Len(files) : files[i] \in FileEntry
        /\ \A i \in 1 .. Len(files) : files[i].name \in Names <=> i \in 2 .. Len(files) - 1
        /\ \A i, j \in 1 .. Len(files) : files[i].name = files[j].name => i = j
    BY SoundFacts
  <1>2. \A i \in DOMAIN files : IndexOf(files[i].name) = i
    BY <1>1 DEF IndexOf
  <1>3. \A n \in Names : find_file(n) <=> \E i \in DOMAIN files : files[i].name = n
    BY <1>1 DEF find_file
  <1>4. ASSUME NEW n \in Names, find_file(n)
        PROVE  /\ IndexOf(n) \in 2 .. Len(files) - 1 /\ IndexOf(n) \in DOMAIN files
               /\ files[IndexOf(n)].name = n /\ TheFile(n) = files[IndexOf(n)]
               /\ TheFile(n) \in FileEntry
    <2>1. PICK i \in DOMAIN files : files[i].name = n
      BY <1>3, <1>4
    <2>2. IndexOf(n) = i
      BY <1>2, <2>1
    <2> QED BY <1>1, <2>1, <2>2 DEF TheFile
  <1> QED BY <1>2, <1>3, <1>4

(* A step on the mounted file system that leaves the tables alone. *)
LEMMA MountedStep ==
  ASSUME SpifsInv, spifs_mounted, UNCHANGED <<toc, handle, formatted>>,
         SpifsTypeOK', OwnData', Sound(files'), Holds(files', exists', saved', stored'),
         \A fs \in Seq(FileEntry) :
           Holds(fs, exists, saved, stored) /\ Agrees(fs, files, exists) =>
             Holds(fs, exists', saved', stored') /\ Agrees(fs, files', exists'),
         OpOnFiles', CookiesAlive'
  PROVE  SpifsInv'
  <1>1. /\ toc' = toc /\ spifs_mounted' = spifs_mounted /\ generation' = generation
        /\ toc_position' = toc_position /\ formatted' = formatted
    BY DEF handle
  <1>2. Newest' = Newest
    BY <1>1 DEF Newest
  <1>3. Mounted /\ SpifsTypeOK /\ TablesSound /\ (formatted => toc[Newest].generation # CORRUPT_TOC)
    BY DEF SpifsInv
  <1>4. TablesSound'
    BY <1>1, <1>3 DEF TablesSound
  <1>5. toc_position \in TocNames /\ Newest \in TocNames
        /\ \A t \in TocNames : toc[t].files \in Seq(FileEntry)
    BY <1>3 DEF SpifsTypeOK, Newest, TocNames
  <1>6. \A t \in {toc_position, Newest} :
          Holds(toc[t].files, exists', saved', stored') /\ Agrees(toc[t].files, files', exists')
    BY <1>3, <1>5 DEF Mounted, Keeps
  <1>7. Mounted'
    BY <1>1, <1>2, <1>3, <1>6 DEF Mounted, Keeps
  <1> QED BY <1>1, <1>2, <1>3, <1>4, <1>7 DEF SpifsInv
-----------------------------------------------------------------------------
(* A step of any kind leaves the file system as it should be. *)

LEMMA Least ==
  ASSUME NEW T \in SUBSET Nat, T # {}
  PROVE  \E i \in T : \A j \in T : i <= j
  <1>1. PICK i \in T : \A j \in T : ~(<<j, i>> \in OpToRel(<, Nat))
    BY WFMin, NatLessThanWellFounded
  <1>2. ASSUME NEW j \in T PROVE i <= j
    <2>1. i \in Nat /\ j \in Nat
      OBVIOUS
    <2>2. ~(j < i)
      BY <1>1, <2>1 DEF OpToRel
    <2> QED BY <2>1, <2>2
  <1> QED BY <1>2

LEMMA IdleType == Idle \in OpRecord
  BY Tables DEF Idle, Kinds, Stages, OpRecord

(* What is known while the file system is mounted. *)
LEMMA WhenMounted ==
  ASSUME SpifsInv, spifs_mounted
  PROVE  /\ SpifsTypeOK /\ TablesSound /\ OwnData /\ Sound(files)
         /\ Holds(files, exists, saved, stored)
         /\ OpOnFiles /\ CookiesAlive
         /\ files \in Seq(FileEntry) /\ DOMAIN files = 1 .. Len(files)
         /\ Len(files) \in Nat /\ Len(files) >= 2
  BY DEF SpifsInv, Mounted, Keeps, Sound

(* A file that has to be there is in the list in memory, with its pages.   *)
LEMMA Existing ==
  ASSUME Sound(files), Holds(files, exists, saved, stored), NEW n \in exists, exists \in SUBSET Names
  PROVE  /\ find_file(n)
         /\ stored[n] \subseteq PagesOf(files[IndexOf(n)])
         /\ files[IndexOf(n)].length >= saved[n]
  <1>1. PICK i \in 2 .. Len(files) - 1 : /\ files[i].name = n /\ files[i].length >= saved[n]
                                        /\ stored[n] \subseteq PagesOf(files[i])
    BY Zenon DEF Holds
  <1>2. DOMAIN files = 1 .. Len(files) /\ Len(files) \in Nat
    BY SoundFacts
  <1>3. i \in DOMAIN files
    BY <1>2
  <1>4. IndexOf(n) = i
    BY <1>1, <1>3, Places
  <1> QED BY <1>1, <1>4 DEF find_file

(* spifs_opendir, spifs_readdir and spifs_closedir. *)
LEMMA DirectoryStep ==
  ASSUME SpifsInv, NEW d \in Dirs, spifs_opendir(d) \/ spifs_readdir(d) \/ spifs_closedir(d)
  PROVE  SpifsInv'
  <1>1. spifs_mounted /\ op = Idle /\ UNCHANGED <<device, handle, files, op, history>>
    BY DEF spifs_opendir, spifs_readdir, spifs_closedir, Enter
  <1>2. /\ SpifsTypeOK /\ OwnData /\ Sound(files) /\ Holds(files, exists, saved, stored)
        /\ CookiesAlive /\ DOMAIN files = 1 .. Len(files) /\ Len(files) \in Nat /\ Len(files) >= 2
    BY <1>1, WhenMounted
  <1>3. /\ \A i \in 1 .. Len(files) : files[i] \in FileEntry
        /\ \A i \in DOMAIN files : IndexOf(files[i].name) = i
        /\ files[1].name = FRONT_TOC /\ files[Len(files)].name = BACK_TOC
    BY <1>2, SoundFacts, Places, Tables DEF Sound
  <1>4. PICK c : /\ cookies' = [cookies EXCEPT ![d] = c]
                 /\ c = Closed \/ \E i \in DOMAIN files : files[i].name = c
    <2>1. CASE spifs_opendir(d)
      <3>1. 1 \in DOMAIN files /\ 2 \in DOMAIN files
        BY <1>2
      <3>2. NextName(FRONT_TOC) = files[2].name
        BY <1>3, <3>1 DEF NextName
      <3> QED BY <2>1, <3>1, <3>2 DEF spifs_opendir
    <2>2. CASE spifs_readdir(d)
      <3>1. cookies[d] # Closed /\ cookies[d] # BACK_TOC
        BY <2>2 DEF spifs_readdir
      <3>2. PICK i \in DOMAIN files : files[i].name = cookies[d]
        BY <1>2, <3>1 DEF CookiesAlive
      <3>3. i + 1 \in DOMAIN files
        BY <1>2, <1>3, <3>1, <3>2
      <3>4. NextName(cookies[d]) = files[i + 1].name
        BY <1>3, <3>2 DEF NextName
      <3> QED BY <2>2, <3>3, <3>4 DEF spifs_readdir
    <2>3. CASE spifs_closedir(d)
      BY <2>3 DEF spifs_closedir
    <2> QED BY <2>1, <2>2, <2>3
  <1>5. /\ toc' = toc /\ page' = page /\ spifs_mounted' = spifs_mounted
        /\ generation' = generation /\ toc_position' = toc_position /\ files' = files /\ op' = op
        /\ exists' = exists /\ stored' = stored /\ saved' = saved /\ formatted' = formatted
    BY <1>1 DEF device, handle, history
  <1>6. c \in Names \cup TocNames \cup {Closed}
    BY <1>2, <1>3, <1>4 DEF FileEntry
  <1>7. /\ cookies' \in [Dirs -> Names \cup TocNames \cup {Closed}]
        /\ \A b \in Dirs : cookies'[b] = IF b = d THEN c ELSE cookies[b]
    BY <1>2, <1>4, <1>6 DEF SpifsTypeOK
  <1>8. SpifsTypeOK'
    BY <1>2, <1>5, <1>7 DEF SpifsTypeOK
  <1>9. OwnData'
    BY <1>2, <1>5 DEF OwnData
  <1>10. CookiesAlive'
    BY <1>2, <1>4, <1>5, <1>7 DEF CookiesAlive
  <1>11. OpOnFiles'
    BY <1>1, <1>5 DEF OpOnFiles, Idle
  <1>12. UNCHANGED <<toc, handle, formatted>>
    BY <1>5 DEF handle
  <1> QED BY <1>1, <1>2, <1>5, <1>8, <1>9, <1>10, <1>11, <1>12, MountedStep

(* The run that find_open_run finds lies between two files. *)
LEMMA OpenRun ==
  ASSUME Sound(files), NEW cap \in Nat, find_open_run(cap) # NO_OPEN_RUNS
  PROVE  \E i \in 1 .. Len(files) - 1 :
           End(files[i]) = find_open_run(cap) /\ find_open_run(cap) + cap <= files[i + 1].page_idx
  <1> DEFINE gaps == {i \in 1 .. Len(files) - 1 :
                        files[i + 1].page_idx - (files[i].page_idx + files[i].capacity) >= cap}
             g == CHOOSE i \in gaps : \A j \in gaps : i <= j
  <1>1. Len(files) \in Nat /\ \A i \in 1 .. Len(files) : files[i].page_idx \in Nat /\ files[i].capacity \in Nat
    BY SoundFacts
  <1>2. gaps # {} /\ find_open_run(cap) = files[g].page_idx + files[g].capacity
    BY DEF find_open_run
  <1>3. gaps \in SUBSET Nat
    BY <1>1
  <1>4. \E i \in gaps : \A j \in gaps : i <= j
    <2> HIDE DEF gaps
    <2> QED BY <1>2, <1>3, Least
  <1>5. g \in gaps
    <2> HIDE DEF gaps
    <2> QED BY <1>4
  <1>6. /\ g \in 1 .. Len(files) - 1
        /\ files[g + 1].page_idx - (files[g].page_idx + files[g].capacity) >= cap
    BY <1>5
  <1> HIDE DEF g
  <1>7. g \in 1 .. Len(files) /\ g + 1 \in 1 .. Len(files)
    BY <1>1, <1>6
  <1>8. /\ files[g + 1].page_idx \in Nat /\ files[g].page_idx \in Nat /\ files[g].capacity \in Nat
    BY <1>1, <1>7
  <1>9. find_open_run(cap) = End(files[g])
    BY <1>2 DEF End
  <1>10. files[g].page_idx + files[g].capacity + cap <= files[g + 1].page_idx
    <2> DEFINE a == files[g + 1].page_idx  b == files[g].page_idx  c == files[g].capacity
    <2>1. a \in Nat /\ b \in Nat /\ c \in Nat /\ a - (b + c) >= cap
      BY <1>6, <1>8
    <2> HIDE DEF a, b, c
    <2>2. b + c + cap <= a
      BY <2>1
    <2> QED BY <2>2 DEF a, b, c
  <1> QED BY <1>2, <1>6, <1>9, <1>10

LEMMA CreateStep ==
  ASSUME SpifsInv, NEW n \in Names, NEW len \in Lengths, spifs_create(n, len)
  PROVE  SpifsInv'
  <1> DEFINE cap == IF len = 0 THEN 1 ELSE len
             run == find_open_run(cap)
             f == Entry(n, run, cap, len)
  <1>1. /\ spifs_mounted /\ ~find_file(n) /\ run # NO_OPEN_RUNS
        /\ op' = [kind |-> "create", at |-> "erase", file |-> f, left |-> {}]
        /\ UNCHANGED <<device, handle, files, cookies, history>>
    BY DEF spifs_create, Begin, Enter
  <1>2. len \in Nat /\ cap \in Nat /\ cap >= 1
    BY SpifsAssumption
  <1>3. /\ SpifsTypeOK /\ OwnData /\ Sound(files) /\ Holds(files, exists, saved, stored)
        /\ CookiesAlive /\ DOMAIN files = 1 .. Len(files) /\ Len(files) \in Nat
    BY <1>1, WhenMounted
  <1> HIDE DEF cap, run
  <1>4. PICK i \in 1 .. Len(files) - 1 : End(files[i]) = run /\ run + cap <= files[i + 1].page_idx
    BY <1>1, <1>2, <1>3, OpenRun DEF run
  <1>5. run \in Nat
    <2>1. i \in 1 .. Len(files)
      BY <1>3
    <2>2. files[i].page_idx \in Nat /\ files[i].capacity \in Nat
      BY <1>3, <2>1, SoundFacts
    <2> QED BY <1>4, <2>2 DEF End
  <1>6. f \in FileEntry /\ f.name = n /\ f.page_idx = run /\ f.capacity = cap
    BY <1>2, <1>5 DEF Entry, FileEntry
  <1> HIDE DEF f
  <1>7. InGap(f, files)
    <2>1. \A j \in DOMAIN files : files[j].name # n
      BY <1>1, <1>3, Places
    <2>2. End(f) <= files[i + 1].page_idx
      BY <1>4, <1>6 DEF End
    <2> QED BY <1>2, <1>4, <1>6, <2>1, <2>2 DEF InGap
  <1>8. /\ toc' = toc /\ page' = page /\ spifs_mounted' = spifs_mounted
        /\ generation' = generation /\ toc_position' = toc_position /\ files' = files
        /\ cookies' = cookies
        /\ exists' = exists /\ stored' = stored /\ saved' = saved /\ formatted' = formatted
    BY <1>1 DEF device, handle, history
  <1>9. SpifsTypeOK'
    <2>1. op' \in OpRecord
      BY <1>1, <1>6 DEF Kinds, Stages, OpRecord
    <2> QED BY <1>3, <1>8, <2>1 DEF SpifsTypeOK
  <1>10. OpOnFiles'
    <2>1. op'.at = "erase" /\ op'.kind = "create" /\ op'.file = f
      BY <1>1
    <2> QED BY <1>7, <1>8, <2>1 DEF OpOnFiles
  <1>11. OwnData' /\ CookiesAlive'
    BY <1>3, <1>8 DEF OwnData, CookiesAlive
  <1>12. UNCHANGED <<toc, handle, formatted>>
    BY <1>8 DEF handle
  <1> QED BY <1>1, <1>3, <1>8, <1>9, <1>10, <1>11, <1>12, MountedStep

(* The pages of a gap are those of no file. *)
LEMMA GapIsFree ==
  ASSUME NEW fs, Sound(fs), NEW f \in FileEntry, InGap(f, fs), NEW i \in 1 .. Len(fs)
  PROVE  PagesOf(f) \cap PagesOf(fs[i]) = {}
  <1>1. /\ Len(fs) \in Nat
        /\ \A j \in 1 .. Len(fs) : fs[j].page_idx \in Nat /\ fs[j].capacity \in Nat
    BY SoundFacts
  <1>2. \A a, b \in 1 .. Len(fs) : a < b => End(fs[a]) <= fs[b].page_idx
    BY DEF Sound
  <1>3. f.page_idx \in Nat /\ f.capacity \in Nat
    BY DEF FileEntry
  <1>4. PICK g \in 1 .. Len(fs) - 1 : End(fs[g]) = f.page_idx /\ End(f) <= fs[g + 1].page_idx
    BY DEF InGap
  <1>5. g \in 1 .. Len(fs) /\ g + 1 \in 1 .. Len(fs)
    BY <1>1
  <1>6. /\ fs[i].page_idx \in Nat /\ fs[i].capacity \in Nat
        /\ fs[g].page_idx \in Nat /\ fs[g].capacity \in Nat
        /\ fs[g + 1].page_idx \in Nat /\ fs[g + 1].capacity \in Nat
    BY <1>1, <1>5
  <1>8. /\ End(fs[i]) \in Nat /\ End(fs[g]) \in Nat /\ End(fs[g + 1]) \in Nat /\ End(f) \in Nat
        /\ fs[g].page_idx <= End(fs[g]) /\ fs[g + 1].page_idx <= End(fs[g + 1])
    BY <1>3, <1>6, EndOf
  <1>7. End(fs[i]) <= f.page_idx \/ End(f) <= fs[i].page_idx
    <2>1. CASE i = g
      BY <2>1, <1>4, <1>6 DEF End
    <2>2. CASE i < g
      <3>1. End(fs[i]) <= fs[g].page_idx
        BY <2>2, <1>2, <1>5
      <3>2. End(fs[i]) <= End(fs[g])
        BY <3>1, <1>6, <1>8, Chain, Zenon
      <3> QED BY <3>2, <1>4
    <2>3. CASE i = g + 1
      BY <2>3, <1>4
    <2>4. CASE i > g + 1
      <3>1. End(fs[g + 1]) <= fs[i].page_idx
        BY <2>4, <1>2, <1>5
      <3>2. fs[g + 1].page_idx <= fs[i].page_idx
        BY <3>1, <1>6, <1>8, Chain, Zenon
      <3>3. End(f) <= fs[i].page_idx
        BY <3>2, <1>4, <1>6, <1>8, Chain, Zenon
      <3> QED BY <3>3
    <2> QED BY <1>1, <1>5, <2>1, <2>2, <2>3, <2>4
  <1> QED BY <1>3, <1>6, <1>7, PagesApart

(* spifs_add_ascending of a file that lies in a gap. *)
LEMMA AddsInOrder ==
  ASSUME Sound(files), NEW f \in FileEntry, InGap(f, files), NEW gs, gs = spifs_add_ascending(f)
  PROVE  /\ Sound(gs)
         /\ \E j \in 2 .. Len(gs) - 1 : gs[j] = f
         /\ \A i \in 2 .. Len(files) - 1 : \E j \in 2 .. Len(gs) - 1 : gs[j] = files[i]
         /\ \A i \in DOMAIN files : \E j \in DOMAIN gs : gs[j] = files[i]
         /\ \A j \in DOMAIN gs : gs[j] = f \/ \E i \in DOMAIN files : gs[j] = files[i]
  <1> DEFINE behind == {i \in DOMAIN files : files[i].page_idx > f.page_idx}
             k == CHOOSE i \in behind : \A j \in behind : i <= j
  <1>1. /\ Len(files) \in Nat /\ DOMAIN files = 1 .. Len(files)
        /\ \A j \in 1 .. Len(files) : files[j].page_idx \in Nat /\ files[j].capacity \in Nat
    BY SoundFacts
  <1>2. f.page_idx \in Nat /\ f.capacity \in Nat /\ f.capacity >= 1
    BY DEF FileEntry, InGap
  <1>3. behind # {}
    <2>1. PICK g \in 1 .. Len(files) - 1 : End(f) <= files[g + 1].page_idx
      BY DEF InGap
    <2>2. g + 1 \in DOMAIN files /\ files[g + 1].page_idx \in Nat
      BY <1>1
    <2>3. files[g + 1].page_idx > f.page_idx
      BY <1>2, <2>1, <2>2 DEF End
    <2> QED BY <2>2, <2>3
  <1>4. behind \in SUBSET Nat
    BY <1>1
  <1>5. k \in behind /\ \A j \in behind : k <= j
    <2>1. \E i \in behind : \A j \in behind : i <= j
      <3> HIDE DEF behind
      <3> QED BY <1>3, <1>4, Least
    <2> HIDE DEF behind
    <2> QED BY <2>1
  <1>6. gs = InsertAt(files, k, f)
    BY <1>3 DEF spifs_add_ascending
  <1>7. FirstBehind(k, f, files)
    <2> HIDE DEF k
    <2> QED BY <1>5 DEF FirstBehind
  <1> HIDE DEF k, behind
  <1> QED BY <1>6, <1>7, SoundWith

(* create_erases: the list has the new file, or nothing but erased pages   *)
(* of the gap is left of it.                                               *)
LEMMA EraseStep ==
  ASSUME SpifsInv, create_erases
  PROVE  SpifsInv'
  <1>1. op.at = "erase"
    BY DEF create_erases
  <1>2. spifs_mounted
    BY <1>1 DEF SpifsInv, NotMounted, Idle
  <1>3. /\ SpifsTypeOK /\ OwnData /\ Sound(files) /\ Holds(files, exists, saved, stored)
        /\ CookiesAlive /\ OpOnFiles /\ DOMAIN files = 1 .. Len(files) /\ Len(files) \in Nat
    BY <1>2, WhenMounted
  <1>4. op.kind = "create" /\ InGap(op.file, files) /\ op.file \in FileEntry
    BY <1>1, <1>3 DEF OpOnFiles, Idle, SpifsTypeOK, OpRecord
  <1>5. PICK S \in SUBSET PagesOf(op.file) :
          page' = [p \in DOMAIN page |-> IF p \in S THEN "erased" ELSE page[p]]
    BY DEF create_erases
  <1>6. /\ toc' = toc /\ spifs_mounted' = spifs_mounted
        /\ generation' = generation /\ toc_position' = toc_position
        /\ cookies' = cookies
        /\ exists' = exists /\ stored' = stored /\ saved' = saved /\ formatted' = formatted
    BY DEF create_erases, handle, history
  <1>7. exists \in SUBSET Names /\ stored \in [Names -> SUBSET Nat] /\ saved \in [Names -> Nat]
        /\ DOMAIN page = 0 .. page_count - 1
    BY <1>3 DEF SpifsTypeOK
  <1>8. OwnData'
    <2>1. ASSUME NEW n \in exists, NEW p \in stored[n] PROVE p \in DOMAIN page' /\ page'[p] = n
      <3>1. p \in DOMAIN page /\ page[p] = n
        BY <1>3, <2>1 DEF OwnData
      <3>2. p \in PagesOf(files[IndexOf(n)]) /\ find_file(n)
        BY <1>3, <1>7, <2>1, Existing
      <3>3. IndexOf(n) \in 1 .. Len(files)
        BY <1>3, <1>7, <3>2, Places
      <3>4. p \notin PagesOf(op.file)
        BY <1>3, <1>4, <3>2, <3>3, GapIsFree
      <3> QED BY <1>5, <3>1, <3>4
    <2> QED BY <2>1, <1>3, <1>6 DEF OwnData
  <1>9. page' \in [0 .. page_count - 1 -> Names \cup {"erased"}]
    BY <1>3, <1>5 DEF SpifsTypeOK
  <1>10. UNCHANGED <<toc, handle, formatted>>
    BY <1>6 DEF handle
  <1>11. CASE files' = spifs_add_ascending(op.file) /\ op' = [op EXCEPT !.at = "commit"]
    <2>1. /\ Sound(files')
          /\ \E j \in 2 .. Len(files') - 1 : files'[j] = op.file
          /\ \A i \in 2 .. Len(files) - 1 : \E j \in 2 .. Len(files') - 1 : files'[j] = files[i]
          /\ \A i \in DOMAIN files : \E j \in DOMAIN files' : files'[j] = files[i]
          /\ \A j \in DOMAIN files' : files'[j] = op.file \/ \E i \in DOMAIN files : files'[j] = files[i]
      BY <1>3, <1>4, <1>11, AddsInOrder
    <2>2. op'.at = "commit" /\ op'.kind = "create" /\ op'.file = op.file
          /\ op' \in OpRecord
      BY <1>3, <1>4, <1>11 DEF SpifsTypeOK, Stages, OpRecord
    <2>3. op.file.name \notin exists /\ \A d \in Dirs : cookies[d] # op.file.name
      <3>1. op.file.name \in Names /\ \A i \in DOMAIN files : files[i].name # op.file.name
        BY <1>4 DEF InGap
      <3>2. ~find_file(op.file.name)
        BY <1>3, <3>1, Places
      <3>3. op.file.name \notin exists
        BY <1>3, <1>7, <3>2, Existing
      <3> QED BY <1>3, <3>1, <3>3, Tables DEF CookiesAlive
    <2>4. SpifsTypeOK'
      BY <1>3, <1>6, <1>9, <2>1, <2>2 DEF SpifsTypeOK, Sound
    <2>5. Holds(files', exists', saved', stored')
      <3>1. Holds(files', exists, saved, stored)
        BY <1>3, <2>1, HoldsMore, Zenon
      <3> QED BY <1>6, <3>1
    <2>6. OpOnFiles'
      BY <1>6, <2>1, <2>2, <2>3 DEF OpOnFiles
    <2>7. CookiesAlive'
      BY <1>3, <1>6, <2>1 DEF CookiesAlive
    <2>8. ASSUME NEW fs \in Seq(FileEntry), Holds(fs, exists, saved, stored), Agrees(fs, files, exists)
          PROVE  Holds(fs, exists', saved', stored') /\ Agrees(fs, files', exists')
      <3>1. FoundIn(files', files, exists)
        BY <2>1, <2>3, Zenon DEF FoundIn
      <3>2. exists \subseteq exists /\ Agrees(fs, files, exists)
        BY <2>8, Zenon
      <3>3. Agrees(fs, files', exists)
        BY <3>1, <3>2, AgreesStep, Zenon
      <3> QED BY <1>6, <2>8, <3>3
    <2> QED BY <1>2, <1>8, <1>10, <2>1, <2>4, <2>5, <2>6, <2>7, <2>8, MountedStep
  <1>12. CASE op' = Idle /\ files' = files
    <2>1. SpifsTypeOK'
      BY <1>3, <1>6, <1>9, <1>12, IdleType DEF SpifsTypeOK
    <2>2. OpOnFiles' /\ CookiesAlive'
      BY <1>3, <1>6, <1>12 DEF OpOnFiles, CookiesAlive, Idle
    <2> QED BY <1>2, <1>3, <1>6, <1>8, <1>10, <1>12, <2>1, <2>2, MountedStep
  <1> QED BY <1>11, <1>12 DEF create_erases

(* An operation that goes on to spifs_commit_toc with nothing in memory    *)
(* that the commit could undo.                                             *)
LEMMA Commits ==
  ASSUME NEW k \in {"remove", "truncate"}, NEW f \in FileEntry,
         op' = [kind |-> k, at |-> "commit", file |-> f, left |-> {}]
  PROVE  /\ OpOnFiles'
         /\ op' \in OpRecord
  BY DEF OpOnFiles, Kinds, Stages, OpRecord

LEMMA RemoveStep ==
  ASSUME SpifsInv, NEW n \in Names, spifs_remove(n)
  PROVE  SpifsInv'
  <1> DEFINE k == IndexOf(n)
  <1>1. /\ spifs_mounted /\ find_file(n)
        /\ cookies' = [d \in Dirs |-> IF cookies[d] = n THEN NextName(n) ELSE cookies[d]]
        /\ files' = RemoveAt(files, k)
        /\ op' = [kind |-> "remove", at |-> "commit", file |-> TheFile(n), left |-> {}]
        /\ exists' = exists \ {n}
        /\ stored' = [stored EXCEPT ![n] = {}]
        /\ saved' = [saved EXCEPT ![n] = 0]
        /\ UNCHANGED <<device, handle, formatted>>
    BY DEF spifs_remove, Begin, Enter, OtherFiles
  <1>2. /\ SpifsTypeOK /\ OwnData /\ Sound(files) /\ Holds(files, exists, saved, stored)
        /\ CookiesAlive /\ DOMAIN files = 1 .. Len(files) /\ Len(files) \in Nat
    BY <1>1, WhenMounted
  <1>3. k \in 2 .. Len(files) - 1 /\ k \in DOMAIN files /\ files[k].name = n /\ TheFile(n) \in FileEntry
    BY <1>1, <1>2, Places
  <1>4. /\ \A i \in DOMAIN files : files[i].name = n => i = k
        /\ \A i \in DOMAIN files : files[i] \in FileEntry
    BY <1>2, <1>3, SoundFacts
  <1> HIDE DEF k
  <1>5. /\ Sound(files')
        /\ \A i \in 2 .. Len(files) - 1 : i # k => \E j \in 2 .. Len(files') - 1 : files'[j] = files[i]
        /\ \A i \in DOMAIN files : i # k => \E j \in DOMAIN files' : files'[j] = files[i]
        /\ \A j \in DOMAIN files' : \E i \in DOMAIN files : i # k /\ files'[j] = files[i]
    <2>1. Sound(files) /\ k \in 2 .. Len(files) - 1 /\ files' = RemoveAt(files, k)
      BY <1>1, <1>2, <1>3, Zenon
    <2>2. Without(files', files, k)
      BY <2>1, SoundWithout, Zenon
    <2> QED BY <2>2, Zenon DEF Without
  <1>6. /\ toc' = toc /\ page' = page /\ spifs_mounted' = spifs_mounted
        /\ generation' = generation /\ toc_position' = toc_position /\ formatted' = formatted
    BY <1>1 DEF device, handle
  <1>7. /\ exists \in SUBSET Names /\ exists' \in SUBSET Names /\ exists' \subseteq exists
        /\ saved \in [Names -> Nat] /\ saved' \in [Names -> Nat]
        /\ stored' \in [Names -> SUBSET Nat]
        /\ \A m \in exists' : saved'[m] <= saved[m] /\ stored'[m] \subseteq stored[m]
        /\ \A m \in exists' : m # n /\ stored'[m] = stored[m]
        /\ stored'[n] = {} /\ \A m \in Names : m # n => stored'[m] = stored[m]
    <2>1. exists \in SUBSET Names /\ saved \in [Names -> Nat] /\ stored \in [Names -> SUBSET Nat]
      BY <1>2 DEF SpifsTypeOK
    <2>2. /\ \A m \in Names : m # n => saved'[m] = saved[m] /\ stored'[m] = stored[m]
          /\ saved' \in [Names -> Nat] /\ stored' \in [Names -> SUBSET Nat] /\ stored'[n] = {}
      BY <1>1, <2>1
    <2>3. \A m \in Names : saved[m] <= saved[m]
      BY <2>1
    <2> QED BY <1>1, <2>1, <2>2, <2>3
  <1>8. ASSUME NEW fs \in Seq(FileEntry), Holds(fs, exists, saved, stored)
        PROVE  Holds(fs, exists', saved', stored')
    BY <1>7, <1>8, HoldsLess
  <1>9. Holds(files', exists', saved', stored')
    <2>1. Holds(files, exists', saved', stored')
      BY <1>2, <1>8 DEF Sound
    <2>2. \A i \in 2 .. Len(files) - 1 : files[i].name \in exists' =>
            \E j \in 2 .. Len(files') - 1 : files'[j] = files[i]
      BY <1>3, <1>5, <1>7, Zenon
    <2> QED BY <2>1, <2>2, HoldsMore, Zenon
  <1>10. ASSUME NEW fs \in Seq(FileEntry), Agrees(fs, files, exists)
         PROVE  Agrees(fs, files', exists')
    <2>1. FoundIn(files', files, exists')
      BY <1>5, Zenon DEF FoundIn
    <2> QED BY <1>7, <1>10, <2>1, AgreesStep, Zenon
  <1>11. NextName(n) \in Names \cup TocNames /\ NextName(n) # n
         /\ \E i \in DOMAIN files : i # k /\ files[i].name = NextName(n)
    <2>1. k + 1 \in DOMAIN files /\ k + 1 # k /\ NextName(n) = files[k + 1].name
      BY <1>2, <1>3 DEF NextName, k
    <2> QED BY <1>4, <2>1 DEF FileEntry
  <1>12. cookies' \in [Dirs -> Names \cup TocNames \cup {Closed}]
    BY <1>1, <1>2, <1>11 DEF SpifsTypeOK
  <1>13. SpifsTypeOK' /\ OpOnFiles'
    <2>1. /\ OpOnFiles'
          /\ op' \in OpRecord
      BY <1>1, <1>3, Commits
    <2> QED BY <1>2, <1>5, <1>6, <1>7, <1>12, <2>1 DEF SpifsTypeOK, Sound
  <1>14. CookiesAlive'
    <2> SUFFICES ASSUME NEW d \in Dirs, cookies'[d] # Closed
                 PROVE  \E j \in DOMAIN files' : files'[j].name = cookies'[d]
      BY DEF CookiesAlive
    <2>1. PICK i \in DOMAIN files : i # k /\ files[i].name = cookies'[d]
      <3>1. CASE cookies[d] = n
        BY <3>1, <1>1, <1>11
      <3>2. CASE cookies[d] # n
        BY <3>2, <1>1, <1>2, <1>3 DEF CookiesAlive
      <3> QED BY <3>1, <3>2
    <2> QED BY <1>5, <2>1
  <1>15. OwnData'
    <2>1. \A m \in exists' : \A p \in stored'[m] : p \in DOMAIN page' /\ page'[p] = m
      BY <1>2, <1>6, <1>7 DEF OwnData
    <2>2. \A m \in Names \ exists' : stored'[m] = {}
      BY <1>1, <1>2, <1>7 DEF OwnData
    <2> QED BY <2>1, <2>2 DEF OwnData
  <1>16. UNCHANGED <<toc, handle, formatted>>
    BY <1>6 DEF handle
  <1> QED BY <1>1, <1>5, <1>8, <1>9, <1>10, <1>13, <1>14, <1>15, <1>16, MountedStep

(* Where only the length of a file in the list has changed. *)
LEMMA LengthChanged ==
  ASSUME SpifsInv, spifs_mounted, NEW n \in Names, NEW len \in Nat, files' = SetLength(n, len),
         exists' = exists, stored' = stored, saved' \in [Names -> Nat],
         \A m \in exists : saved'[m] <= saved[m],
         n \in exists => len >= saved'[n]
  PROVE  /\ Sound(files')
         /\ DOMAIN files' = DOMAIN files /\ Len(files') = Len(files)
         /\ \A i \in DOMAIN files : /\ files'[i].name = files[i].name
                                    /\ files'[i].page_idx = files[i].page_idx
                                    /\ files'[i].capacity = files[i].capacity
         /\ Holds(files', exists', saved', stored')
         /\ \A fs \in Seq(FileEntry) :
              Holds(fs, exists, saved, stored) /\ Agrees(fs, files, exists) =>
                Holds(fs, exists', saved', stored') /\ Agrees(fs, files', exists')
  <1>1. /\ SpifsTypeOK /\ Sound(files) /\ Holds(files, exists, saved, stored)
        /\ DOMAIN files = 1 .. Len(files) /\ Len(files) \in Nat /\ files \in Seq(FileEntry)
    BY WhenMounted
  <1>2. /\ Sound(files')
        /\ DOMAIN files' = DOMAIN files /\ Len(files') = Len(files)
        /\ \A i \in DOMAIN files :
             /\ files'[i].name = files[i].name /\ files'[i].page_idx = files[i].page_idx
             /\ files'[i].capacity = files[i].capacity
             /\ files'[i].length = IF files[i].name = n THEN len ELSE files[i].length
    <2>1. files' = [i \in DOMAIN files |->
                      IF files[i].name = n THEN [files[i] EXCEPT !.length = len] ELSE files[i]]
      BY Zenon DEF SetLength
    <2>2. Sound(files) /\ n \in Names /\ len \in Nat
      BY <1>1, Zenon
    <2>3. Relengthed(files', files, n, len)
      BY <2>1, <2>2, SoundLengths, Zenon
    <2> QED BY <2>3, Zenon DEF Relengthed
  <1>3. exists \in SUBSET Names /\ saved \in [Names -> Nat]
    BY <1>1 DEF SpifsTypeOK
  <1>4. ASSUME NEW fs \in Seq(FileEntry), Holds(fs, exists, saved, stored)
        PROVE  Holds(fs, exists, saved', stored)
    <2>1. \A m \in exists : saved'[m] <= saved[m] /\ stored[m] \subseteq stored[m]
      OBVIOUS
    <2> QED BY <1>3, <1>4, <2>1, HoldsLess
  <1>5. Holds(files', exists, saved', stored)
    <2> SUFFICES ASSUME NEW m \in exists
                 PROVE  \E j \in 2 .. Len(files') - 1 :
                          /\ files'[j].name = m /\ files'[j].length >= saved'[m]
                          /\ stored[m] \subseteq PagesOf(files'[j])
      BY Zenon DEF Holds
    <2>1. Holds(files, exists, saved', stored)
      BY <1>1, <1>4
    <2>2. PICK i \in 2 .. Len(files) - 1 : /\ files[i].name = m /\ files[i].length >= saved'[m]
                                          /\ stored[m] \subseteq PagesOf(files[i])
      BY <2>1, Zenon DEF Holds
    <2>3. i \in DOMAIN files /\ i \in 2 .. Len(files') - 1
      BY <1>1, <1>2
    <2>4. files'[i].name = m /\ PagesOf(files'[i]) = PagesOf(files[i])
      BY <1>2, <2>2, <2>3 DEF PagesOf
    <2>5. files'[i].length >= saved'[m]
      BY <1>2, <2>2, <2>3
    <2> QED BY <2>2, <2>3, <2>4, <2>5
  <1>6. ASSUME NEW fs \in Seq(FileEntry), Agrees(fs, files, exists)
        PROVE  Agrees(fs, files', exists)
    <2>1. FoundIn(files', files, exists)
      BY <1>2, Zenon DEF FoundIn
    <2>2. exists \subseteq exists
      OBVIOUS
    <2> QED BY <1>6, <2>1, <2>2, AgreesStep, Zenon
  <1> QED BY <1>2, <1>4, <1>5, <1>6

LEMMA TruncateStep ==
  ASSUME SpifsInv, NEW n \in Names, NEW len \in Lengths, spifs_truncate(n, len)
  PROVE  SpifsInv'
  <1>1. /\ spifs_mounted /\ find_file(n) /\ len <= TheFile(n).length
        /\ files' = SetLength(n, len)
        /\ op' = [kind |-> "truncate", at |-> "commit", file |-> TheFile(n), left |-> {}]
        /\ saved' = [saved EXCEPT ![n] = IF len < @ THEN len ELSE @]
        /\ UNCHANGED <<device, handle, cookies, exists, stored, formatted>>
    BY DEF spifs_truncate, Begin, Enter
  <1>2. /\ SpifsTypeOK /\ OwnData /\ Sound(files) /\ CookiesAlive
    BY <1>1, WhenMounted
  <1>3. len \in Nat
    BY SpifsAssumption
  <1>4. saved' \in [Names -> Nat] /\ \A m \in Names : saved'[m] <= saved[m]
        /\ len >= saved'[n]
    <2>1. saved \in [Names -> Nat]
      BY <1>2 DEF SpifsTypeOK
    <2> QED BY <1>1, <1>3, <2>1
  <1>5. /\ toc' = toc /\ page' = page /\ spifs_mounted' = spifs_mounted
        /\ generation' = generation /\ toc_position' = toc_position /\ cookies' = cookies
        /\ exists' = exists /\ stored' = stored /\ formatted' = formatted
    BY <1>1 DEF device, handle
  <1>6. \A m \in exists : saved'[m] <= saved[m]
    BY <1>2, <1>4 DEF SpifsTypeOK
  <1>7. /\ Sound(files')
        /\ DOMAIN files' = DOMAIN files
        /\ \A i \in DOMAIN files : files'[i].name = files[i].name
        /\ Holds(files', exists', saved', stored')
        /\ \A fs \in Seq(FileEntry) :
              Holds(fs, exists, saved, stored) /\ Agrees(fs, files, exists) =>
                Holds(fs, exists', saved', stored') /\ Agrees(fs, files', exists')
    BY <1>1, <1>3, <1>4, <1>5, <1>6, LengthChanged
  <1>8. TheFile(n) \in FileEntry
    BY <1>1, <1>2, Places
  <1>9. /\ OpOnFiles'
        /\ op' \in OpRecord
    BY <1>1, <1>8, Commits
  <1>10. SpifsTypeOK'
    BY <1>2, <1>4, <1>5, <1>7, <1>9 DEF SpifsTypeOK, Sound
  <1>11. OwnData' /\ CookiesAlive'
    BY <1>2, <1>5, <1>7 DEF OwnData, CookiesAlive
  <1>12. UNCHANGED <<toc, handle, formatted>>
    BY <1>5 DEF handle
  <1> QED BY <1>1, <1>7, <1>9, <1>10, <1>11, <1>12, MountedStep

(* spifs_write: the pages that are to be written are pages of the file.    *)
LEMMA WriteStep ==
  ASSUME SpifsInv, NEW n \in Names, NEW a \in 1 .. page_count, NEW b \in 1 .. page_count, a <= b,
         spifs_write(n, a, b)
  PROVE  SpifsInv'
  <1> DEFINE k == IndexOf(n)
             f == files[k]
             grows == b > f.length
             part == f.page_idx + a - 1 .. f.page_idx + b - 1
  <1>1. /\ spifs_mounted /\ find_file(n)
    BY DEF spifs_write, Begin, Enter
  <1>2. /\ SpifsTypeOK /\ OwnData /\ Sound(files) /\ Holds(files, exists, saved, stored)
        /\ CookiesAlive /\ DOMAIN files = 1 .. Len(files) /\ Len(files) \in Nat
    BY <1>1, WhenMounted
  <1>3. /\ k \in 2 .. Len(files) - 1 /\ k \in DOMAIN files
        /\ f.name = n /\ TheFile(n) = f /\ f \in FileEntry
    BY <1>1, <1>2, Places
  <1>4. /\ b <= f.capacity
        /\ files' = IF grows THEN SetLength(n, b) ELSE files
        /\ op' = [kind |-> IF grows THEN "grow" ELSE "write", at |-> "page", file |-> f, left |-> part]
        /\ UNCHANGED <<device, handle, cookies, history>>
    BY <1>3, Zenon DEF spifs_write
  <1>5. a \in Nat /\ b \in Nat /\ a >= 1
    BY Tables
  <1>6. f.page_idx \in Nat /\ f.capacity \in Nat /\ f.length \in Nat
    BY <1>3 DEF FileEntry
  <1>7. part \in SUBSET Nat /\ part # {} /\ part \subseteq PagesOf(f)
    <2> HIDE DEF f, grows
    <2>1. f.page_idx + b - 1 \in part
      BY <1>5, <1>6
    <2>2. part \subseteq PagesOf(f)
      BY <1>4, <1>5, <1>6 DEF PagesOf
    <2> QED BY <1>5, <1>6, <2>1, <2>2
  <1>8. /\ toc' = toc /\ page' = page /\ spifs_mounted' = spifs_mounted
        /\ generation' = generation /\ toc_position' = toc_position /\ cookies' = cookies
        /\ exists' = exists /\ stored' = stored /\ saved' = saved /\ formatted' = formatted
    BY <1>4 DEF device, handle, history
  <1>9. exists \in SUBSET Names /\ saved \in [Names -> Nat]
    BY <1>2 DEF SpifsTypeOK
  <1>10. /\ Sound(files') /\ DOMAIN files' = DOMAIN files /\ Len(files') = Len(files)
         /\ \A i \in DOMAIN files : /\ files'[i].name = files[i].name
                                    /\ files'[i].page_idx = files[i].page_idx
                                    /\ files'[i].capacity = files[i].capacity
         /\ Holds(files', exists', saved', stored')
         /\ \A fs \in Seq(FileEntry) :
              Holds(fs, exists, saved, stored) /\ Agrees(fs, files, exists) =>
                Holds(fs, exists', saved', stored') /\ Agrees(fs, files', exists')
    <2>1. CASE grows
      <3>1. n \in exists => f.length >= saved[n]
        BY <1>2, <1>9, Existing
      <3>2. n \in exists => b >= saved'[n]
        BY <2>1, <3>1, <1>5, <1>6, <1>8, <1>9
      <3>3. saved' \in [Names -> Nat] /\ \A m \in exists : saved'[m] <= saved[m]
        BY <1>8, <1>9
      <3>4. files' = SetLength(n, b)
        BY <1>4, <2>1
      <3> HIDE DEF f, k, grows, part
      <3> QED BY <1>1, <1>5, <1>8, <3>2, <3>3, <3>4, LengthChanged
    <2>2. CASE ~grows
      <3>1. files' = files
        BY <1>4, <2>2
      <3> HIDE DEF f, k, grows, part
      <3> QED BY <1>2, <1>8, <3>1
    <2> QED BY <2>1, <2>2
  <1> HIDE DEF grows, part
  <1>11. /\ op'.at = "page" /\ op'.kind \in {"write", "grow"} /\ op'.left = part /\ op'.file.name = n
         /\ op' \in OpRecord
    <2> HIDE DEF f
    <2> QED BY <1>3, <1>4, <1>7 DEF Kinds, Stages, OpRecord
  <1>12. OpOnFiles'
    <2>1. files'[k].name = n /\ PagesOf(files'[k]) = PagesOf(f) /\ k \in 2 .. Len(files') - 1
      BY <1>3, <1>10 DEF PagesOf
    <2> HIDE DEF f, k
    <2> QED BY <1>7, <1>11, <2>1 DEF OpOnFiles
  <1>13. SpifsTypeOK'
    BY <1>2, <1>8, <1>10, <1>11 DEF SpifsTypeOK, Sound
  <1>14. OwnData' /\ CookiesAlive'
    BY <1>2, <1>8, <1>10 DEF OwnData, CookiesAlive
  <1>15. UNCHANGED <<toc, handle, formatted>>
    BY <1>8 DEF handle
  <1> QED BY <1>1, <1>10, <1>12, <1>13, <1>14, <1>15, MountedStep

(* Another page of a file lies in it in every list that has it in its      *)
(* place.                                                                  *)
LEMMA HoldsPage ==
  ASSUME NEW fs \in Seq(FileEntry), NEW gs, NEW ex, NEW len, NEW pages, NEW pages2,
         Holds(fs, ex, len, pages), Agrees(fs, gs, ex),
         NEW n, NEW p, NEW i \in DOMAIN gs, gs[i].name = n, p \in PagesOf(gs[i]),
         \A m \in ex : m # n => pages2[m] \subseteq pages[m],
         n \in ex => pages2[n] \subseteq pages[n] \cup {p}
  PROVE  Holds(fs, ex, len, pages2)
  <1> SUFFICES ASSUME NEW m \in ex
               PROVE  \E j \in 2 .. Len(fs) - 1 : /\ fs[j].name = m /\ fs[j].length >= len[m]
                                                  /\ pages2[m] \subseteq PagesOf(fs[j])
    BY Zenon DEF Holds
  <1>1. PICK j \in 2 .. Len(fs) - 1 :
          fs[j].name = m /\ fs[j].length >= len[m] /\ pages[m] \subseteq PagesOf(fs[j])
    BY Zenon DEF Holds
  <1>2. CASE m # n
    <2>1. pages2[m] \subseteq PagesOf(fs[j])
      BY <1>1, <1>2, Zenon
    <2> QED BY <1>1, <2>1, Zenon
  <1>3. CASE m = n
    <2>1. j \in DOMAIN fs
      OBVIOUS
    <2>2. fs[j].page_idx = gs[i].page_idx /\ fs[j].capacity = gs[i].capacity
      BY <1>1, <1>3, <2>1, Zenon DEF Agrees
    <2>3. p \in PagesOf(fs[j])
      BY <2>2, Zenon DEF PagesOf
    <2>4. pages2[m] \subseteq PagesOf(fs[j])
      BY <1>1, <1>3, <2>3, Zenon
    <2> QED BY <1>1, <2>4, Zenon
  <1> QED BY <1>2, <1>3

LEMMA AgreesItself ==
  ASSUME NEW fs, Sound(fs), NEW ex
  PROVE  Agrees(fs, fs, ex)
  BY SoundFacts DEF Agrees

(* Page p of file n, the i-th of the list, is about to be written. *)
AtPage(p, n, i) ==
  /\ p \in op.left /\ p \in Nat /\ p \in DOMAIN page /\ n \in Names
  /\ i \in DOMAIN files /\ files[i].name = n /\ p \in PagesOf(files[i])
  /\ op.left \subseteq PagesOf(files[i])
  /\ \A j \in 1 .. Len(files) : i # j => PagesOf(files[i]) \cap PagesOf(files[j]) = {}

LEMMA PageFacts ==
  ASSUME SpifsInv, op.at \in {"page", "rewrite"}
  PROVE  /\ spifs_mounted /\ op \in OpRecord
         /\ op.kind \in {"write", "grow"} /\ op.left # {}
         /\ op.at = "rewrite" => NextPage \notin stored[op.file.name]
         /\ exists \in SUBSET Names /\ stored \in [Names -> SUBSET Nat]
         /\ page \in [0 .. page_count - 1 -> Names \cup {"erased"}]
         /\ \E i \in 2 .. Len(files) - 1 : AtPage(NextPage, op.file.name, i)
  <1>1. spifs_mounted
    BY DEF SpifsInv, NotMounted, Idle
  <1>2. /\ SpifsTypeOK /\ Sound(files) /\ OpOnFiles
        /\ DOMAIN files = 1 .. Len(files) /\ Len(files) \in Nat
    BY <1>1, WhenMounted
  <1>3. /\ op.kind \in {"write", "grow"} /\ op.left # {} /\ op.left \in SUBSET Nat
        /\ op \in OpRecord /\ (op.at = "rewrite" => NextPage \notin stored[op.file.name])
    BY <1>2 DEF OpOnFiles, Idle, SpifsTypeOK, OpRecord
  <1>4. PICK i \in 2 .. Len(files) - 1 :
          files[i].name = op.file.name /\ op.left \subseteq PagesOf(files[i])
    BY <1>2 DEF OpOnFiles, Idle
  <1>5. NextPage \in op.left
    <2>1. \E q \in op.left : \A r \in op.left : q <= r
      BY <1>3, Least
    <2> QED BY <2>1 DEF NextPage
  <1>6. /\ i \in DOMAIN files /\ op.file.name \in Names /\ NextPage \in PagesOf(files[i])
        /\ PagesOf(files[i]) \subseteq 0 .. page_count - 1
        /\ \A j \in 1 .. Len(files) : i # j => PagesOf(files[i]) \cap PagesOf(files[j]) = {}
    <2>1. i \in 1 .. Len(files) /\ i \in DOMAIN files
      BY <1>2
    <2> QED BY <1>2, <1>4, <1>5, <2>1, SoundFacts
  <1>7. /\ exists \in SUBSET Names /\ stored \in [Names -> SUBSET Nat]
        /\ page \in [0 .. page_count - 1 -> Names \cup {"erased"}]
    BY <1>2 DEF SpifsTypeOK
  <1>8. NextPage \in DOMAIN page /\ NextPage \in Nat
    BY <1>3, <1>5, <1>6, <1>7
  <1>9. AtPage(NextPage, op.file.name, i)
    BY <1>4, <1>5, <1>6, <1>8 DEF AtPage
  <1> QED BY <1>1, <1>3, <1>7, <1>9

(* Page p of file n is erased or written: it holds the data of the file,   *)
(* or is counted no more among those that were stored.                     *)
LEMMA PageStep ==
  ASSUME SpifsInv, spifs_mounted, NEW p, NEW n, NEW i \in 2 .. Len(files) - 1, AtPage(p, n, i),
         UNCHANGED <<toc, handle, files, cookies, exists, saved, formatted>>,
         stored' \in [Names -> SUBSET Nat],
         \A m \in Names : m # n => stored'[m] = stored[m],
         n \in exists => stored'[n] \subseteq stored[n] \cup {p},
         n \notin exists => stored'[n] \subseteq stored[n],
         page' \in [0 .. page_count - 1 -> Names \cup {"erased"}],
         \A q \in DOMAIN page : q # p => page'[q] = page[q],
         p \in stored'[n] /\ n \in exists => page'[p] = n,
         op' \in OpRecord, OpOnFiles'
  PROVE  SpifsInv'
  <1>1. /\ SpifsTypeOK /\ OwnData /\ Sound(files) /\ Holds(files, exists, saved, stored)
        /\ CookiesAlive /\ DOMAIN files = 1 .. Len(files) /\ Len(files) \in Nat
        /\ files \in Seq(FileEntry)
    BY WhenMounted
  <1>2. /\ i \in DOMAIN files /\ n \in Names /\ p \in PagesOf(files[i]) /\ files[i].name = n
        /\ p \in DOMAIN page
        /\ \A j \in 1 .. Len(files) : i # j => PagesOf(files[i]) \cap PagesOf(files[j]) = {}
    BY DEF AtPage
  <1>3. exists \in SUBSET Names /\ DOMAIN page = 0 .. page_count - 1
    BY <1>1 DEF SpifsTypeOK
  <1>4. /\ toc' = toc /\ spifs_mounted' = spifs_mounted
        /\ generation' = generation /\ toc_position' = toc_position /\ cookies' = cookies
        /\ files' = files /\ exists' = exists /\ saved' = saved /\ formatted' = formatted
    BY DEF handle
  <1>5. OwnData'
    <2>1. ASSUME NEW m \in exists, NEW q \in stored'[m]
          PROVE  q \in DOMAIN page' /\ page'[q] = m
      <3>0. DOMAIN page' = DOMAIN page /\ m \in Names
        BY <1>3
      <3>1. CASE m = n /\ q = p
        BY <2>1, <3>0, <3>1, <1>2
      <3>2. CASE m = n /\ q # p
        <4>1. q \in stored[n]
          BY <2>1, <3>2
        <4> QED BY <2>1, <3>0, <3>2, <4>1, <1>1 DEF OwnData
      <3>3. CASE m # n
        <4>1. q \in stored[m]
          BY <2>1, <3>0, <3>3
        <4>2. q \in DOMAIN page /\ page[q] = m
          BY <2>1, <4>1, <1>1 DEF OwnData
        <4>3. find_file(m) /\ q \in PagesOf(files[IndexOf(m)])
          BY <2>1, <4>1, <1>1, <1>3, Existing
        <4>4. IndexOf(m) \in 1 .. Len(files) /\ IndexOf(m) # i
          <5>1. IndexOf(m) \in DOMAIN files /\ files[IndexOf(m)].name = m
            BY <1>1, <3>0, <4>3, Places
          <5> QED BY <1>1, <1>2, <3>3, <5>1
        <4>5. q # p
          BY <1>2, <4>3, <4>4
        <4> QED BY <3>0, <4>2, <4>5
      <3> QED BY <3>1, <3>2, <3>3
    <2>2. \A m \in Names \ exists : stored'[m] = {}
      BY <1>1, <1>2 DEF OwnData
    <2> QED BY <2>1, <2>2, <1>4 DEF OwnData
  <1>6. ASSUME NEW fs \in Seq(FileEntry), Holds(fs, exists, saved, stored), Agrees(fs, files, exists)
        PROVE  Holds(fs, exists, saved, stored')
    <2>1. \A m \in exists : m # n => stored'[m] \subseteq stored[m]
      BY <1>3
    <2>2. n \in exists => stored'[n] \subseteq stored[n] \cup {p}
      OBVIOUS
    <2> QED BY <1>2, <1>6, <2>1, <2>2, HoldsPage
  <1>7. Holds(files, exists, saved, stored')
    BY <1>1, <1>6, AgreesItself
  <1>8. SpifsTypeOK'
    BY <1>1, <1>4 DEF SpifsTypeOK, OpRecord
  <1>9. CookiesAlive' /\ UNCHANGED <<toc, handle, formatted>>
    BY <1>1, <1>4 DEF CookiesAlive, handle
  <1>10. /\ Sound(files') /\ Holds(files', exists', saved', stored')
         /\ \A fs \in Seq(FileEntry) :
              Holds(fs, exists, saved, stored) /\ Agrees(fs, files, exists) =>
                Holds(fs, exists', saved', stored') /\ Agrees(fs, files', exists')
    BY <1>1, <1>4, <1>6, <1>7
  <1> QED BY <1>5, <1>8, <1>9, <1>10, MountedStep

(* erase_page: from here on the page is not counted as stored. *)
LEMMA ErasePageStep ==
  ASSUME SpifsInv, erase_page
  PROVE  SpifsInv'
  <1>1. PICK p, n : p = NextPage /\ n = op.file.name
    OBVIOUS
  <1>2. /\ op.at = "page"
        /\ \/ op' = Idle /\ page' = page /\ stored' = stored
           \/ /\ page' \in {page, [page EXCEPT ![p] = "erased"]}
              /\ stored' = [stored EXCEPT ![n] = @ \ {p}]
              /\ op' \in {Idle, [op EXCEPT !.at = "rewrite"]}
        /\ UNCHANGED <<toc, handle, files, cookies, exists, saved, formatted>>
    BY <1>1 DEF erase_page
  <1>3. /\ spifs_mounted /\ op \in OpRecord
        /\ op.kind \in {"write", "grow"} /\ op.left # {}
        /\ exists \in SUBSET Names /\ stored \in [Names -> SUBSET Nat]
        /\ page \in [0 .. page_count - 1 -> Names \cup {"erased"}]
        /\ \E i \in 2 .. Len(files) - 1 : AtPage(p, n, i)
    BY <1>1, <1>2, PageFacts
  <1>4. PICK i \in 2 .. Len(files) - 1 : AtPage(p, n, i)
    BY <1>3
  <1>5. /\ p \in Nat /\ p \in DOMAIN page /\ n \in Names /\ files[i].name = n
        /\ op.left \subseteq PagesOf(files[i])
    BY <1>4 DEF AtPage
  <1>6. CASE op' = Idle /\ page' = page /\ stored' = stored
    <2>1. OpOnFiles' /\ op' \in OpRecord
      BY <1>6, IdleType DEF OpOnFiles, Idle
    <2>2. p \in stored[n] /\ n \in exists => page[p] = n
      BY DEF SpifsInv, OwnData
    <2> QED BY <1>2, <1>3, <1>4, <1>5, <1>6, <2>1, <2>2, PageStep
  <1>7. CASE /\ page' \in {page, [page EXCEPT ![p] = "erased"]}
             /\ stored' = [stored EXCEPT ![n] = @ \ {p}]
             /\ op' \in {Idle, [op EXCEPT !.at = "rewrite"]}
    <2>1. /\ stored' \in [Names -> SUBSET Nat]
          /\ \A m \in Names : m # n => stored'[m] = stored[m]
          /\ stored'[n] \subseteq stored[n] /\ p \notin stored'[n]
          /\ page' \in [0 .. page_count - 1 -> Names \cup {"erased"}]
          /\ \A q \in DOMAIN page : q # p => page'[q] = page[q]
      BY <1>3, <1>5, <1>7
    <2>2. OpOnFiles' /\ op' \in OpRecord
      <3>1. CASE op' = Idle
        BY <3>1, IdleType DEF OpOnFiles, Idle
      <3>2. CASE op' = [op EXCEPT !.at = "rewrite"]
        <4>1. /\ op' \in OpRecord /\ op'.at = "rewrite" /\ op'.kind = op.kind
              /\ op'.left = op.left /\ op'.file = op.file
          BY <1>3, <3>2 DEF OpRecord, Stages
        <4>2. NextPage' = p
          BY <1>1, <4>1 DEF NextPage
        <4>3. NextPage' \notin stored'[op'.file.name]
          BY <1>1, <2>1, <4>1, <4>2
        <4>4. files' = files
          BY <1>2
        <4>5. \E j \in 2 .. Len(files') - 1 :
                files'[j].name = op'.file.name /\ op'.left \subseteq PagesOf(files'[j])
          BY <1>1, <1>5, <4>1, <4>4
        <4> QED BY <1>3, <4>1, <4>3, <4>5 DEF OpOnFiles
      <3> QED BY <1>7, <3>1, <3>2
    <2> QED BY <1>2, <1>3, <1>4, <2>1, <2>2, PageStep
  <1> QED BY <1>2, <1>6, <1>7

(* write_page: a page that is not written is not counted as stored. *)
LEMMA WritePageStep ==
  ASSUME SpifsInv, write_page
  PROVE  SpifsInv'
  <1>1. PICK p, n, left : p = NextPage /\ n = op.file.name /\ left = op.left \ {p}
    OBVIOUS
  <1>2. /\ op.at = "rewrite"
        /\ \/ /\ page' = [page EXCEPT ![p] = n]
              /\ stored' = [stored EXCEPT ![n] = IF n \in exists THEN @ \cup {p} ELSE @]
              /\ op' = IF left # {} THEN [op EXCEPT !.left = left, !.at = "page"]
                       ELSE IF op.kind = "grow" THEN [op EXCEPT !.left = {}, !.at = "commit"] ELSE Idle
           \/ /\ page' \in {page, [page EXCEPT ![p] = "erased"], [page EXCEPT ![p] = n]}
              /\ op' = Idle
              /\ stored' = stored
        /\ UNCHANGED <<toc, handle, files, cookies, exists, saved, formatted>>
    BY <1>1 DEF write_page
  <1>3. /\ spifs_mounted /\ op \in OpRecord
        /\ op.kind \in {"write", "grow"} /\ op.left # {} /\ p \notin stored[n]
        /\ exists \in SUBSET Names /\ stored \in [Names -> SUBSET Nat]
        /\ page \in [0 .. page_count - 1 -> Names \cup {"erased"}]
        /\ \E i \in 2 .. Len(files) - 1 : AtPage(p, n, i)
    BY <1>1, <1>2, PageFacts
  <1>4. PICK i \in 2 .. Len(files) - 1 : AtPage(p, n, i)
    BY <1>3
  <1>5. /\ p \in Nat /\ p \in DOMAIN page /\ n \in Names /\ files[i].name = n
        /\ op.left \subseteq PagesOf(files[i])
    BY <1>4 DEF AtPage
  <1>6. /\ stored' \in [Names -> SUBSET Nat]
        /\ \A m \in Names : m # n => stored'[m] = stored[m]
        /\ n \in exists => stored'[n] \subseteq stored[n] \cup {p}
        /\ n \notin exists => stored'[n] \subseteq stored[n]
        /\ page' \in [0 .. page_count - 1 -> Names \cup {"erased"}]
        /\ \A q \in DOMAIN page : q # p => page'[q] = page[q]
        /\ p \in stored'[n] /\ n \in exists => page'[p] = n
    <2>1. CASE /\ page' = [page EXCEPT ![p] = n]
               /\ stored' = [stored EXCEPT ![n] = IF n \in exists THEN @ \cup {p} ELSE @]
      BY <2>1, <1>3, <1>5
    <2>2. CASE /\ page' \in {page, [page EXCEPT ![p] = "erased"], [page EXCEPT ![p] = n]}
               /\ stored' = stored
      BY <2>2, <1>3, <1>5
    <2> QED BY <1>2, <2>1, <2>2
  <1>7. OpOnFiles' /\ op' \in OpRecord
    <2>1. CASE op' = Idle
      BY <2>1, IdleType DEF OpOnFiles, Idle
    <2>2. CASE left # {} /\ op' = [op EXCEPT !.left = left, !.at = "page"]
      <3>1. /\ op' \in OpRecord /\ op'.at = "page" /\ op'.kind = op.kind
            /\ op'.left = left /\ op'.file = op.file
        BY <1>1, <1>3, <2>2 DEF OpRecord, Stages
      <3>2. left \subseteq PagesOf(files[i])
        BY <1>1, <1>5
      <3>3. files' = files
        BY <1>2
      <3>4. \E j \in 2 .. Len(files') - 1 :
              files'[j].name = op'.file.name /\ op'.left \subseteq PagesOf(files'[j])
        BY <1>1, <1>5, <3>1, <3>2, <3>3
      <3> QED BY <1>3, <2>2, <3>1, <3>4 DEF OpOnFiles
    <2>3. CASE op.kind = "grow" /\ op' = [op EXCEPT !.left = {}, !.at = "commit"]
      <3>1. op' \in OpRecord /\ op'.at = "commit" /\ op'.kind = "grow"
        BY <1>3, <2>3 DEF OpRecord, Stages
      <3> QED BY <3>1 DEF OpOnFiles
    <2> QED BY <1>2, <2>1, <2>2, <2>3
  <1> QED BY <1>2, <1>3, <1>4, <1>6, <1>7, PageStep
-----------------------------------------------------------------------------
(* The table of contents is written. *)

(* Of the two tables one is in use and the other is written. *)
LEMMA TwoTables ==
  ASSUME toc_position \in TocNames
  PROVE  /\ Target \in TocNames /\ Target # toc_position
         /\ TocNames = {Target, toc_position}
         /\ Newest \in TocNames
  BY Tables DEF Target, TocNames, Newest

(* Where a commit may stand while the file system is mounted. *)
LEMMA CommitKinds ==
  ASSUME SpifsInv, spifs_mounted, op.at \in {"commit", "writing"}
  PROVE  /\ op.kind \in {"create", "remove", "grow", "truncate"}
         /\ op.kind = "create" =>
              /\ \E i \in 2 .. Len(files) - 1 : files[i] = op.file
              /\ op.file.name \notin exists
              /\ \A d \in Dirs : cookies[d] # op.file.name
  <1>1. OpOnFiles
    BY WhenMounted
  <1> QED BY <1>1 DEF OpOnFiles, Idle

(* What a commit that fails leaves in memory: a file that was being        *)
(* created is none that has to be there, and no directory stands at it.    *)
LEMMA FailureInMemory ==
  ASSUME SpifsInv, spifs_mounted, op.at \in {"commit", "writing"}, commit_fails
  PROVE  /\ op' = Idle /\ UNCHANGED <<page, handle, cookies, history>>
         /\ Sound(files') /\ Holds(files', exists, saved, stored)
         /\ FoundIn(files', files, exists)
         /\ CookiesAlive'
  <1>1. /\ op' = Idle /\ UNCHANGED <<page, handle, cookies, history>>
        /\ files' = CASE op.kind = "create" -> OtherFiles(op.file.name)
                      [] op.kind \in {"format", "format_again"} -> <<>>
                      [] OTHER -> files
    BY DEF commit_fails
  <1>2. /\ SpifsTypeOK /\ Sound(files) /\ Holds(files, exists, saved, stored)
        /\ CookiesAlive /\ DOMAIN files = 1 .. Len(files) /\ Len(files) \in Nat
    BY WhenMounted
  <1>3. op.kind \in {"create", "remove", "grow", "truncate"}
    BY CommitKinds
  <1>4. CASE op.kind = "create"
    <2>1. PICK k \in 2 .. Len(files) - 1 : files[k] = op.file
      BY <1>4, CommitKinds
    <2>2. op.file.name \notin exists /\ \A d \in Dirs : cookies[d] # op.file.name
      BY <1>4, CommitKinds
    <2>3. k \in DOMAIN files /\ IndexOf(op.file.name) = k
      <3>1. k \in DOMAIN files
        BY <1>2
      <3> QED BY <1>2, <2>1, <3>1, Places
    <2>4. files' = RemoveAt(files, k)
      BY <1>1, <1>4, <2>3 DEF OtherFiles
    <2>5. Without(files', files, k)
      BY <1>2, <2>1, <2>4, SoundWithout, Zenon
    <2>6. /\ Sound(files')
          /\ \A i \in 2 .. Len(files) - 1 : i # k => \E j \in 2 .. Len(files') - 1 : files'[j] = files[i]
          /\ \A i \in DOMAIN files : i # k => \E j \in DOMAIN files' : files'[j] = files[i]
          /\ \A j \in DOMAIN files' : \E i \in DOMAIN files : i # k /\ files'[j] = files[i]
      BY <2>5, Zenon DEF Without
    <2>7. Holds(files', exists, saved, stored)
      <3>1. \A i \in 2 .. Len(files) - 1 : files[i].name \in exists =>
              \E j \in 2 .. Len(files') - 1 : files'[j] = files[i]
        BY <2>1, <2>2, <2>6, Zenon
      <3> QED BY <1>2, <3>1, HoldsMore, Zenon
    <2>8. FoundIn(files', files, exists)
      BY <2>6, Zenon DEF FoundIn
    <2>9. CookiesAlive'
      <3>1. cookies' = cookies
        BY <1>1
      <3>2. ASSUME NEW d \in Dirs, cookies[d] # Closed
            PROVE  \E j \in DOMAIN files' : files'[j].name = cookies[d]
        <4>1. PICK i \in DOMAIN files : files[i].name = cookies[d]
          BY <1>2, <3>2 DEF CookiesAlive
        <4>2. i # k
          BY <2>1, <2>2, <4>1
        <4>3. PICK j \in DOMAIN files' : files'[j] = files[i]
          BY <2>6, <4>2, Zenon
        <4> QED BY <4>1, <4>3
      <3> QED BY <3>1, <3>2 DEF CookiesAlive
    <2> QED BY <1>1, <2>6, <2>7, <2>8, <2>9
  <1>5. CASE op.kind # "create"
    <2>1. files' = files /\ cookies' = cookies
      BY <1>1, <1>3, <1>5
    <2>2. FoundIn(files, files, exists)
      BY Zenon DEF FoundIn
    <2> QED BY <1>1, <1>2, <2>1, <2>2 DEF CookiesAlive
  <1> QED BY <1>4, <1>5

(* A commit that fails before anything was written. *)
LEMMA FailsUnwritten ==
  ASSUME SpifsInv, op.at \in {"commit", "writing"}, commit_fails, toc' = toc
  PROVE  SpifsInv'
  <1>1. SpifsTypeOK /\ OwnData
    BY DEF SpifsInv
  <1>2. CASE spifs_mounted
    <2>1. /\ op' = Idle /\ UNCHANGED <<page, handle, cookies, history>>
          /\ Sound(files') /\ Holds(files', exists, saved, stored)
          /\ FoundIn(files', files, exists)
          /\ CookiesAlive'
      BY <1>2, FailureInMemory
    <2>2. /\ page' = page /\ spifs_mounted' = spifs_mounted
          /\ generation' = generation /\ toc_position' = toc_position /\ cookies' = cookies
          /\ exists' = exists /\ stored' = stored /\ saved' = saved /\ formatted' = formatted
      BY <2>1 DEF handle, history
    <2>3. SpifsTypeOK'
      BY <1>1, <2>1, <2>2, IdleType DEF SpifsTypeOK, Sound
    <2>4. OwnData' /\ OpOnFiles' /\ UNCHANGED <<toc, handle, formatted>>
      BY <1>1, <2>1, <2>2 DEF OwnData, OpOnFiles, Idle, handle
    <2>5. ASSUME NEW fs \in Seq(FileEntry), Holds(fs, exists, saved, stored), Agrees(fs, files, exists)
          PROVE  Holds(fs, exists', saved', stored') /\ Agrees(fs, files', exists')
      <3>1. exists \subseteq exists
        OBVIOUS
      <3>2. Agrees(fs, files', exists)
        BY <2>1, <2>5, <3>1, AgreesStep, Zenon
      <3> QED BY <2>2, <2>5, <3>2
    <2> QED BY <1>2, <2>1, <2>2, <2>3, <2>4, <2>5, MountedStep
  <1>3. CASE ~spifs_mounted
    <2>1. op.kind \in {"format", "format_again"} /\ NotMounted
      BY <1>3 DEF SpifsInv, NotMounted, Idle
    <2>2. /\ page' = page /\ spifs_mounted' = spifs_mounted /\ op' = Idle /\ files' = <<>>
          /\ generation' = generation /\ toc_position' = toc_position /\ cookies' = cookies
          /\ exists' = exists /\ stored' = stored /\ saved' = saved /\ formatted' = formatted
      BY <2>1 DEF commit_fails, handle, history
    <2>3. SpifsTypeOK'
      BY <1>1, <2>2, IdleType DEF SpifsTypeOK
    <2>4. OwnData' /\ TablesSound' /\ Newest' = Newest
          /\ (formatted => toc[Newest].generation # CORRUPT_TOC)
      BY <2>2 DEF SpifsInv, OwnData, TablesSound, Newest
    <2>5. NotMounted'
      BY <2>1, <2>2, <2>4 DEF NotMounted, Keeps
    <2> QED BY <1>3, <2>2, <2>3, <2>4, <2>5 DEF SpifsInv
  <1> QED BY <1>2, <1>3

(* commit_writes: the table that is in use is what a mount takes now. *)
LEMMA CommitWritesStep ==
  ASSUME SpifsInv, commit_writes
  PROVE  SpifsInv'
  <1>1. op.at = "commit"
    BY DEF commit_writes
  <1>2. CASE UNCHANGED toc /\ commit_fails
    BY <1>1, <1>2, FailsUnwritten
  <1>3. CASE /\ toc' = [toc EXCEPT ![Target] = TornToc]
             /\ op' = [op EXCEPT !.at = "writing"]
             /\ UNCHANGED <<page, handle, files, cookies, history>>
    <2>1. SpifsTypeOK /\ OwnData /\ TablesSound
      BY DEF SpifsInv
    <2>2. toc_position \in TocNames /\ toc \in [TocNames -> [generation : Nat, files : Seq(FileEntry)]]
      BY <2>1 DEF SpifsTypeOK
    <2>3. /\ Target \in TocNames /\ Target # toc_position /\ TocNames = {Target, toc_position}
          /\ Newest \in TocNames
      BY <2>2, TwoTables
    <2>4. /\ page' = page /\ spifs_mounted' = spifs_mounted /\ files' = files
          /\ generation' = generation /\ toc_position' = toc_position /\ cookies' = cookies
          /\ exists' = exists /\ stored' = stored /\ saved' = saved /\ formatted' = formatted
      BY <1>3 DEF handle, history
    <2>5. /\ toc'[Target] = TornToc /\ toc'[toc_position] = toc[toc_position]
          /\ toc' \in [TocNames -> [generation : Nat, files : Seq(FileEntry)]]
      <3>1. TornToc \in [generation : Nat, files : Seq(FileEntry)]
        BY DEF TornToc, CORRUPT_TOC
      <3> QED BY <1>3, <2>2, <2>3, <3>1
    <2>6. /\ op' \in OpRecord
          /\ op'.at = "writing" /\ op'.kind = op.kind /\ op'.file = op.file
      BY <1>3, <2>1 DEF SpifsTypeOK, Stages, OpRecord
    <2>7. SpifsTypeOK' /\ OwnData'
      BY <2>1, <2>4, <2>5, <2>6 DEF SpifsTypeOK, OwnData
    <2>8. TablesSound'
      BY <2>1, <2>3, <2>5 DEF TablesSound
    <2>9. CASE spifs_mounted
      <3>1. Mounted
        BY <2>9 DEF SpifsInv
      <3>2. toc[toc_position].generation = generation /\ generation > 0 /\ generation \in Nat
        BY <2>1, <3>1 DEF Mounted, SpifsTypeOK
      <3>3. Newest' = toc_position
        <4>1. toc'[Target].generation = 0 /\ toc'[toc_position].generation = generation
          BY <2>5, <3>2 DEF TornToc, CORRUPT_TOC
        <4>2. CASE toc_position = FRONT_TOC
          BY <3>2, <4>1, <4>2 DEF Newest, Target
        <4>3. CASE toc_position = BACK_TOC
          BY <3>2, <4>1, <4>3, Tables DEF Newest, Target
        <4> QED BY <2>2, <4>2, <4>3 DEF TocNames
      <3>4. OpOnFiles'
        <4>1. op.kind \in {"create", "remove", "grow", "truncate"}
          BY <1>1, <2>9, CommitKinds
        <4>2. CASE op.kind = "create"
          <5>1. /\ \E i \in 2 .. Len(files) - 1 : files[i] = op.file
                /\ op.file.name \notin exists
                /\ \A d \in Dirs : cookies[d] # op.file.name
            BY <1>1, <2>9, <4>2, CommitKinds
          <5> QED BY <2>4, <2>6, <4>2, <5>1 DEF OpOnFiles
        <4>3. CASE op.kind # "create"
          BY <2>6, <4>1, <4>3 DEF OpOnFiles
        <4> QED BY <4>2, <4>3
      <3>5. Mounted'
        BY <2>4, <2>5, <3>1, <3>3, <3>4 DEF Mounted, Keeps, CookiesAlive
      <3>6. toc'[Newest'].generation # CORRUPT_TOC
        BY <2>5, <3>2, <3>3 DEF CORRUPT_TOC
      <3> QED BY <2>4, <2>7, <2>8, <2>9, <3>5, <3>6 DEF SpifsInv
    <2>10. CASE ~spifs_mounted
      <3>1. NotMounted /\ op # Idle
        BY <1>1, <2>10 DEF SpifsInv, Idle
      <3>2. /\ op.kind = "format" => toc_position = FRONT_TOC /\ generation = 1
            /\ op.kind = "format_again" =>
                 toc_position = BACK_TOC /\ generation = 2 /\ toc[BACK_TOC].generation = 2
            /\ op.kind \in {"format", "format_again"}
            /\ files = TocFiles /\ exists = {} /\ ~formatted
        BY <3>1 DEF NotMounted
      <3>3. NotMounted'
        <4>1. Keeps(toc[Newest].files)'
          BY <2>4, <3>2 DEF Keeps, Holds
        <4>2. op.kind = "format_again" => toc'[BACK_TOC].generation = 2
          BY <2>5, <3>2
        <4> QED BY <2>4, <2>6, <3>1, <3>2, <4>1, <4>2 DEF NotMounted
      <3> QED BY <2>4, <2>7, <2>8, <2>10, <3>2, <3>3 DEF SpifsInv
    <2> QED BY <2>9, <2>10
  <1> QED BY <1>2, <1>3 DEF commit_writes

(* What the table that has been written does to the next mount. *)
LEMMA NewestIsNew ==
  ASSUME SpifsTypeOK, toc' = [toc EXCEPT ![Target] = NewToc]
  PROVE  /\ toc'[Target] = NewToc /\ toc'[toc_position] = toc[toc_position]
         /\ toc' \in [TocNames -> [generation : Nat, files : Seq(FileEntry)]]
         /\ NewToc.generation = generation + 1 /\ NewToc.files = files
         /\ generation \in Nat
         /\ toc[toc_position].generation = generation => Newest' = Target
  <1>1. /\ toc_position \in TocNames /\ toc \in [TocNames -> [generation : Nat, files : Seq(FileEntry)]]
        /\ generation \in Nat /\ files \in Seq(FileEntry)
    BY DEF SpifsTypeOK
  <1>2. Target \in TocNames /\ Target # toc_position
    BY <1>1, TwoTables
  <1>3. /\ NewToc \in [generation : Nat, files : Seq(FileEntry)]
        /\ NewToc.generation = generation + 1 /\ NewToc.files = files
    BY <1>1 DEF NewToc
  <1>4. /\ toc'[Target] = NewToc /\ toc'[toc_position] = toc[toc_position]
        /\ toc' \in [TocNames -> [generation : Nat, files : Seq(FileEntry)]]
    BY <1>1, <1>2, <1>3
  <1>5. ASSUME toc[toc_position].generation = generation PROVE Newest' = Target
    <2>1. toc'[Target].generation = generation + 1 /\ toc'[toc_position].generation = generation
      BY <1>3, <1>4, <1>5
    <2>2. CASE toc_position = FRONT_TOC
      BY <1>1, <2>1, <2>2 DEF Newest, Target
    <2>3. CASE toc_position = BACK_TOC
      BY <1>1, <2>1, <2>3, Tables DEF Newest, Target
    <2> QED BY <1>1, <2>2, <2>3 DEF TocNames
  <1> QED BY <1>1, <1>3, <1>4, <1>5

LEMMA TablesWithNew ==
  ASSUME SpifsTypeOK, TablesSound, Sound(files), toc' = [toc EXCEPT ![Target] = NewToc]
  PROVE  TablesSound'
  <1>1. /\ toc'[Target] = NewToc /\ toc'[toc_position] = toc[toc_position]
        /\ NewToc.generation = generation + 1 /\ NewToc.files = files /\ generation \in Nat
    BY NewestIsNew
  <1>2. TocNames = {Target, toc_position}
    BY TwoTables DEF SpifsTypeOK
  <1>3. toc'[Target].generation > 0 /\ Sound(toc'[Target].files)
    BY <1>1
  <1>4. toc'[toc_position] = TornToc
        \/ (toc'[toc_position].generation > 0 /\ Sound(toc'[toc_position].files))
    BY <1>1, <1>2 DEF TablesSound
  <1> QED BY <1>2, <1>3, <1>4 DEF TablesSound

(* commit_ends: what is in memory is on the device. *)
LEMMA CommitEndsStep ==
  ASSUME SpifsInv, commit_ends
  PROVE  SpifsInv'
  <1>1. /\ op.at = "writing"
        /\ toc' = [toc EXCEPT ![Target] = NewToc]
        /\ generation' = generation + 1
        /\ toc_position' = Target
        /\ op' = IF op.kind = "format" THEN [op EXCEPT !.kind = "format_again", !.at = "commit"] ELSE Idle
        /\ files' = IF op.kind = "format_again" THEN <<>> ELSE files
        /\ exists' = IF op.kind = "create" THEN exists \cup {op.file.name} ELSE exists
        /\ saved' = [n \in Names |-> IF find_file(n) THEN TheFile(n).length ELSE saved[n]]
        /\ formatted' = (formatted \/ op.kind = "format_again")
        /\ page' = page /\ spifs_mounted' = spifs_mounted /\ cookies' = cookies /\ stored' = stored
    BY DEF commit_ends
  <1>2. SpifsTypeOK /\ OwnData /\ TablesSound
    BY DEF SpifsInv
  <1>3. /\ toc'[Target] = NewToc /\ toc'[toc_position] = toc[toc_position]
        /\ toc' \in [TocNames -> [generation : Nat, files : Seq(FileEntry)]]
        /\ NewToc.generation = generation + 1 /\ NewToc.files = files
        /\ generation \in Nat
        /\ toc[toc_position].generation = generation => Newest' = Target
    BY <1>1, <1>2, NewestIsNew
  <1>4. Target \in TocNames
    BY <1>2, TwoTables DEF SpifsTypeOK
  <1>5. CASE spifs_mounted
    <2>1. Mounted
      BY <1>5 DEF SpifsInv
    <2>2. /\ Sound(files) /\ Holds(files, exists, saved, stored) /\ CookiesAlive
          /\ DOMAIN files = 1 .. Len(files) /\ Len(files) \in Nat
      BY <1>5, WhenMounted
    <2>3. op.kind \in {"create", "remove", "grow", "truncate"}
      BY <1>1, <1>5, CommitKinds
    <2>4. op' = Idle /\ files' = files /\ formatted' = formatted /\ Newest' = Target
      BY <1>1, <1>2, <1>3, <2>1, <2>3 DEF Mounted, SpifsTypeOK
    <2>5. /\ exists' \in SUBSET Names
          /\ \A n \in exists' : find_file(n) /\ stored[n] \subseteq PagesOf(files[IndexOf(n)])
          /\ \A n \in exists' : n \notin exists => stored[n] = {}
          /\ exists \subseteq exists'
      <3>1. exists \in SUBSET Names
        BY <1>2 DEF SpifsTypeOK
      <3>2. \A n \in exists : find_file(n) /\ stored[n] \subseteq PagesOf(files[IndexOf(n)])
        BY <2>2, <3>1, Existing
      <3>3. CASE op.kind = "create"
        <4>1. PICK i \in 2 .. Len(files) - 1 : files[i] = op.file
          BY <1>1, <1>5, <3>3, CommitKinds
        <4>2. i \in DOMAIN files /\ files[i].name \in Names
          <5>1. i \in 1 .. Len(files)
            BY <2>2
          <5> QED BY <2>2, <5>1, SoundFacts
        <4>3. find_file(op.file.name)
          BY <2>2, <4>1, <4>2, Places
        <4>4. op.file.name \in Names /\ op.file.name \notin exists
          BY <1>1, <1>5, <3>3, <4>1, <4>2, CommitKinds
        <4>5. stored[op.file.name] = {}
          BY <1>2, <4>4 DEF OwnData
        <4> QED BY <1>1, <3>1, <3>2, <3>3, <4>3, <4>4, <4>5
      <3>4. CASE op.kind # "create"
        BY <1>1, <3>1, <3>2, <3>4
      <3> QED BY <3>3, <3>4
    <2>6. /\ saved' \in [Names -> Nat]
          /\ \A n \in exists' : saved'[n] = files[IndexOf(n)].length
      <3>1. \A n \in Names : find_file(n) =>
              TheFile(n) = files[IndexOf(n)] /\ TheFile(n).length \in Nat
        BY <2>2, Places DEF FileEntry
      <3>2. saved \in [Names -> Nat]
        BY <1>2 DEF SpifsTypeOK
      <3>3. saved' \in [Names -> Nat]
        BY <1>1, <3>1, <3>2
      <3>4. ASSUME NEW n \in exists' PROVE saved'[n] = files[IndexOf(n)].length
        BY <1>1, <2>5, <3>1
      <3> QED BY <3>3, <3>4
    <2>7. Holds(files, exists', saved', stored)
      <3> SUFFICES ASSUME NEW n \in exists'
                   PROVE  \E i \in 2 .. Len(files) - 1 :
                            /\ files[i].name = n /\ files[i].length >= saved'[n]
                            /\ stored[n] \subseteq PagesOf(files[i])
        BY Zenon DEF Holds
      <3>1. IndexOf(n) \in 2 .. Len(files) - 1 /\ files[IndexOf(n)].name = n /\ n \in Names
        BY <2>2, <2>5, Places
      <3>2. files[IndexOf(n)].length >= saved'[n]
        BY <2>6, <3>1
      <3> QED BY <2>5, <3>1, <3>2
    <2>8. SpifsTypeOK'
      BY <1>1, <1>2, <1>3, <1>4, <2>4, <2>5, <2>6, IdleType DEF SpifsTypeOK
    <2>9. OwnData'
      BY <1>1, <1>2, <2>5 DEF OwnData
    <2>10. TablesSound'
      BY <1>1, <1>2, <2>2, TablesWithNew
    <2>11. Mounted'
      <3>1. Keeps(files)' /\ Keeps(toc[Newest].files)' /\ Keeps(toc[toc_position].files)'
        BY <1>1, <1>3, <2>4, <2>7 DEF Keeps
      <3>2. Agrees(files, files, exists')
        BY <2>2, AgreesItself
      <3>3. /\ Sound(files') /\ generation' > 0 /\ toc'[toc_position'].generation = generation'
            /\ toc'[toc_position'].files = files' /\ toc'[Newest'].files = files'
        BY <1>1, <1>3, <2>2, <2>4
      <3>4. OpOnFiles' /\ CookiesAlive'
        BY <1>1, <2>2, <2>4 DEF OpOnFiles, CookiesAlive, Idle
      <3> QED BY <2>4, <3>1, <3>2, <3>3, <3>4 DEF Mounted
    <2>12. toc'[Newest'].generation # CORRUPT_TOC
      BY <1>3, <2>4 DEF CORRUPT_TOC
    <2> QED BY <1>1, <1>5, <2>8, <2>9, <2>10, <2>11, <2>12 DEF SpifsInv
  <1>6. CASE ~spifs_mounted
    <2>1. NotMounted /\ op # Idle
      BY <1>1, <1>6 DEF SpifsInv, Idle
    <2>2. /\ op.kind = "format" => toc_position = FRONT_TOC /\ generation = 1
          /\ op.kind = "format_again" =>
               toc_position = BACK_TOC /\ generation = 2 /\ toc[BACK_TOC].generation = 2
          /\ op.kind \in {"format", "format_again"}
          /\ files = TocFiles /\ exists = {} /\ ~formatted
          /\ \A d \in Dirs : cookies[d] = Closed
      BY <2>1 DEF NotMounted
    <2>3. exists' = {}
      BY <1>1, <2>2
    <2>4. saved' \in [Names -> Nat]
      <3>1. \A n \in Names : ~find_file(n)
        BY <2>2, Tables DEF find_file
      <3> QED BY <1>1, <1>2, <3>1 DEF SpifsTypeOK
    <2>5. OwnData'
      BY <1>1, <1>2, <2>2, <2>3 DEF OwnData
    <2>6. TablesSound'
      <3>1. Sound(files)
        BY <2>2, SoundTables
      <3> QED BY <1>1, <1>2, <3>1, TablesWithNew
    <2>7. Keeps(toc[Newest].files)'
      BY <2>3 DEF Keeps, Holds
    <2>8. CASE op.kind = "format"
      <3>1. /\ op' \in OpRecord
            /\ op'.kind = "format_again" /\ op'.at = "commit"
        BY <1>1, <1>2, <2>8 DEF SpifsTypeOK, Kinds, Stages, OpRecord
      <3>2. files' = files /\ formatted' = FALSE
        BY <1>1, <2>2, <2>8
      <3>3. toc_position' = BACK_TOC /\ generation' = 2 /\ toc'[BACK_TOC].generation = 2
        BY <1>1, <1>3, <2>2, <2>8 DEF Target
      <3>4. SpifsTypeOK'
        BY <1>1, <1>2, <1>3, <1>4, <2>3, <2>4, <3>1, <3>2 DEF SpifsTypeOK
      <3>5. NotMounted'
        BY <1>1, <2>2, <2>3, <2>7, <3>1, <3>2, <3>3 DEF NotMounted
      <3> QED BY <1>1, <1>6, <2>5, <2>6, <3>2, <3>4, <3>5 DEF SpifsInv
    <2>9. CASE op.kind = "format_again"
      <3>1. op' = Idle /\ files' = <<>> /\ formatted' = TRUE
        BY <1>1, <2>9
      <3>2. SpifsTypeOK'
        BY <1>1, <1>2, <1>3, <1>4, <2>3, <2>4, <3>1, IdleType DEF SpifsTypeOK
      <3>3. NotMounted'
        BY <1>1, <2>2, <2>7, <3>1 DEF NotMounted
      <3>4. toc'[Newest'].generation # CORRUPT_TOC
        BY <1>3, <2>2, <2>9 DEF CORRUPT_TOC
      <3> QED BY <1>1, <1>6, <2>5, <2>6, <3>2, <3>3, <3>4 DEF SpifsInv
    <2> QED BY <2>2, <2>8, <2>9
  <1> QED BY <1>5, <1>6

(* commit_ends_badly: when the last page was written, the next mount takes *)
(* the new table although the old one is still in use.                     *)
LEMMA CommitEndsBadlyStep ==
  ASSUME SpifsInv, commit_ends_badly
  PROVE  SpifsInv'
  <1>1. op.at = "writing" /\ commit_fails
    BY DEF commit_ends_badly
  <1>2. CASE toc' = toc
    BY <1>1, <1>2, FailsUnwritten
  <1>3. CASE toc' = [toc EXCEPT ![Target] = NewToc]
    <2>1. SpifsTypeOK /\ OwnData /\ TablesSound
      BY DEF SpifsInv
    <2>2. /\ toc'[Target] = NewToc /\ toc'[toc_position] = toc[toc_position]
          /\ toc' \in [TocNames -> [generation : Nat, files : Seq(FileEntry)]]
          /\ NewToc.generation = generation + 1 /\ NewToc.files = files
          /\ generation \in Nat
          /\ toc[toc_position].generation = generation => Newest' = Target
      BY <1>3, <2>1, NewestIsNew
    <2>3. /\ page' = page /\ spifs_mounted' = spifs_mounted /\ op' = Idle
          /\ generation' = generation /\ toc_position' = toc_position /\ cookies' = cookies
          /\ exists' = exists /\ stored' = stored /\ saved' = saved /\ formatted' = formatted
      BY <1>1 DEF commit_fails, handle, history
    <2>4. OwnData'
      BY <2>1, <2>3 DEF OwnData
    <2>5. CASE spifs_mounted
      <3>1. Mounted
        BY <2>5 DEF SpifsInv
      <3>2. /\ Sound(files') /\ Holds(files', exists, saved, stored)
            /\ FoundIn(files', files, exists) /\ CookiesAlive'
        BY <1>1, <2>5, FailureInMemory
      <3>3. Sound(files) /\ Holds(files, exists, saved, stored)
        BY <2>5, WhenMounted
      <3>4. Newest' = Target /\ generation > 0 /\ toc[toc_position].generation = generation
        BY <2>2, <3>1 DEF Mounted
      <3>5. exists \subseteq exists
        OBVIOUS
      <3>6. Agrees(files, files', exists)
        <4>1. Agrees(files, files, exists)
          BY <3>3, AgreesItself
        <4> QED BY <3>2, <3>5, <4>1, AgreesStep, Zenon
      <3>7. Agrees(toc[toc_position].files, files', exists)
            /\ Holds(toc[toc_position].files, exists, saved, stored)
        <4>1. Agrees(toc[toc_position].files, files, exists)
              /\ Holds(toc[toc_position].files, exists, saved, stored)
          BY <3>1 DEF Mounted, Keeps
        <4>2. Agrees(toc[toc_position].files, files', exists)
          BY <3>2, <3>5, <4>1, AgreesStep, Zenon
        <4> QED BY <4>1, <4>2
      <3>8. OpOnFiles'
        BY <2>3 DEF OpOnFiles, Idle
      <3>9. Mounted'
        <4>1. Keeps(files)' /\ Keeps(toc[Newest].files)' /\ Keeps(toc[toc_position].files)'
          BY <2>2, <2>3, <3>2, <3>3, <3>4, <3>7 DEF Keeps
        <4>2. /\ Agrees(toc'[Newest'].files, files', exists')
              /\ Agrees(toc'[toc_position'].files, files', exists')
          BY <2>2, <2>3, <3>4, <3>6, <3>7
        <4>3. generation' > 0 /\ toc'[toc_position'].generation = generation'
          BY <2>2, <2>3, <3>4
        <4> QED BY <3>2, <3>8, <4>1, <4>2, <4>3 DEF Mounted
      <3>10. SpifsTypeOK'
        BY <2>1, <2>2, <2>3, <3>2, IdleType DEF SpifsTypeOK, Sound
      <3>11. TablesSound'
        BY <1>3, <2>1, <3>3, TablesWithNew
      <3>12. toc'[Newest'].generation # CORRUPT_TOC
        BY <2>2, <3>4 DEF CORRUPT_TOC
      <3> QED BY <2>3, <2>4, <2>5, <3>9, <3>10, <3>11, <3>12 DEF SpifsInv
    <2>6. CASE ~spifs_mounted
      <3>1. NotMounted /\ op # Idle
        BY <1>1, <2>6 DEF SpifsInv, Idle
      <3>2. /\ op.kind \in {"format", "format_again"}
            /\ files = TocFiles /\ exists = {} /\ ~formatted
            /\ \A d \in Dirs : cookies[d] = Closed
        BY <3>1 DEF NotMounted
      <3>3. files' = <<>>
        BY <1>1, <3>2 DEF commit_fails
      <3>4. SpifsTypeOK'
        BY <2>1, <2>2, <2>3, <3>3, IdleType DEF SpifsTypeOK
      <3>5. TablesSound'
        <4>1. Sound(files)
          BY <3>2, SoundTables
        <4> QED BY <1>3, <2>1, <4>1, TablesWithNew
      <3>6. NotMounted'
        <4>1. Keeps(toc[Newest].files)'
          BY <2>3, <3>2 DEF Keeps, Holds
        <4> QED BY <2>3, <3>2, <4>1 DEF NotMounted
      <3> QED BY <2>3, <2>4, <2>6, <3>2, <3>4, <3>5, <3>6 DEF SpifsInv
    <2> QED BY <2>5, <2>6
  <1> QED BY <1>2, <1>3 DEF commit_ends_badly
-----------------------------------------------------------------------------
(* Format, mount, and what a power failure leaves. *)

LEMMA FormatStep ==
  ASSUME SpifsInv, spifs_format
  PROVE  SpifsInv'
  <1>1. /\ ~spifs_mounted /\ op = Idle
        /\ op' = [kind |-> "format", at |-> "commit", file |-> TocFiles[1], left |-> {}]
        /\ generation' = 1 /\ toc_position' = FRONT_TOC /\ files' = TocFiles
        /\ exists' = {} /\ stored' = [n \in Names |-> {}] /\ saved' = [n \in Names |-> 0]
        /\ formatted' = FALSE
        /\ toc' = toc /\ page' = page /\ spifs_mounted' = spifs_mounted /\ cookies' = cookies
    BY DEF spifs_format, device
  <1>2. SpifsTypeOK /\ OwnData /\ TablesSound /\ NotMounted
    BY <1>1 DEF SpifsInv
  <1>3. /\ op' \in OpRecord
        /\ op'.kind = "format" /\ op'.at = "commit"
    BY <1>1, Tables DEF Kinds, Stages, OpRecord
  <1>4. SpifsTypeOK'
    <2>1. stored' \in [Names -> SUBSET Nat] /\ saved' \in [Names -> Nat] /\ files' \in Seq(FileEntry)
      BY <1>1, Tables
    <2> QED BY <1>1, <1>2, <1>3, <2>1 DEF SpifsTypeOK, TocNames
  <1>5. OwnData' /\ TablesSound'
    BY <1>1, <1>2 DEF OwnData, TablesSound
  <1>6. NotMounted'
    <2>1. Keeps(toc[Newest].files)'
      BY <1>1 DEF Keeps, Holds
    <2> QED BY <1>1, <1>2, <1>3, <2>1 DEF NotMounted
  <1> QED BY <1>1, <1>4, <1>5, <1>6 DEF SpifsInv

(* The files that both tables have in the same place are in either, as     *)
(* RollBack counts them.                                                   *)
LEMMA OlderTable ==
  ASSUME SpifsInv, ~spifs_mounted, NEW t \in TocNames, RollBack(t),
         Sound(toc[t].files), Sound(toc[Newest].files)
  PROVE  /\ exists' \in SUBSET exists /\ saved' \in [Names -> Nat]
         /\ stored' \in [Names -> SUBSET Nat] /\ \A n \in Names : stored'[n] \subseteq stored[n]
         /\ \A n \in Names \ exists' : stored'[n] = {}
         /\ Holds(toc[t].files, exists', saved', stored')
         /\ Holds(toc[Newest].files, exists', saved', stored')
         /\ Agrees(toc[Newest].files, toc[t].files, exists')
  <1>1. PICK F, G, E : F = toc[t].files /\ G = toc[Newest].files /\ E = exists'
    OBVIOUS
  <1>2. /\ E = {n \in exists : \E i \in DOMAIN F, j \in DOMAIN G :
                  /\ F[i].name = n /\ G[j].name = n
                  /\ F[i].page_idx = G[j].page_idx /\ F[i].capacity = G[j].capacity}
        /\ stored' = [n \in Names |-> IF n \in E THEN stored[n] ELSE {}]
        /\ saved' = [n \in Names |->
             IF \E i \in DOMAIN F : F[i].name = n /\ F[i].length >= saved[n] THEN saved[n] ELSE 0]
    BY <1>1, Zenon DEF RollBack, InBoth
  <1>3. /\ exists \in SUBSET Names /\ saved \in [Names -> Nat] /\ stored \in [Names -> SUBSET Nat]
        /\ Holds(G, exists, saved, stored)
    BY <1>1 DEF SpifsInv, SpifsTypeOK, NotMounted, Keeps
  <1>4. /\ Sound(F) /\ F \in Seq(FileEntry) /\ DOMAIN F = 1 .. Len(F) /\ Len(F) \in Nat
        /\ \A i \in 1 .. Len(F) : F[i] \in FileEntry
        /\ \A i \in 1 .. Len(F) : F[i].name \in Names <=> i \in 2 .. Len(F) - 1
        /\ \A i, j \in 1 .. Len(F) : F[i].name = F[j].name => i = j
    <2>1. Sound(F)
      BY <1>1
    <2>2. F \in Seq(FileEntry)
      BY <2>1 DEF Sound
    <2> QED BY <2>1, <2>2, SoundFacts
  <1>5. /\ Sound(G) /\ G \in Seq(FileEntry) /\ DOMAIN G = 1 .. Len(G) /\ Len(G) \in Nat
        /\ \A i \in 1 .. Len(G) : G[i].length \in Nat
        /\ \A i, j \in 1 .. Len(G) : G[i].name = G[j].name => i = j
    <2>1. Sound(G)
      BY <1>1
    <2>2. G \in Seq(FileEntry)
      BY <2>1 DEF Sound
    <2> QED BY <2>1, <2>2, SoundFacts
  <1>6. E \in SUBSET exists /\ E \in SUBSET Names
    BY <1>2, <1>3
  <1>7. /\ stored' \in [Names -> SUBSET Nat]
        /\ \A n \in Names : stored'[n] = IF n \in E THEN stored[n] ELSE {}
    BY <1>2, <1>3
  <1>8. /\ saved' \in [Names -> Nat] /\ \A n \in Names : saved'[n] \in {saved[n], 0}
        /\ \A n \in Names : saved'[n] <= saved[n]
    BY <1>2, <1>3
  <1>9. Holds(G, E, saved', stored')
    <2> SUFFICES ASSUME NEW n \in E
                 PROVE  \E j \in 2 .. Len(G) - 1 : /\ G[j].name = n /\ G[j].length >= saved'[n]
                                                   /\ stored'[n] \subseteq PagesOf(G[j])
      BY Zenon DEF Holds
    <2>1. n \in exists /\ n \in Names
      BY <1>6
    <2>2. PICK j \in 2 .. Len(G) - 1 : /\ G[j].name = n /\ G[j].length >= saved[n]
                                       /\ stored[n] \subseteq PagesOf(G[j])
      BY <1>3, <2>1, Zenon DEF Holds
    <2>3. G[j].length \in Nat
      BY <1>5
    <2>4. G[j].length >= saved'[n]
      BY <1>8, <2>1, <2>2, <2>3
    <2>5. stored'[n] \subseteq PagesOf(G[j])
      BY <1>7, <2>1, <2>2
    <2> QED BY <2>2, <2>4, <2>5, Zenon
  <1>10. Agrees(G, F, E)
    <2> SUFFICES ASSUME NEW n \in E, NEW j \in DOMAIN G, NEW i \in DOMAIN F,
                        G[j].name = n, F[i].name = n
                 PROVE  G[j].page_idx = F[i].page_idx /\ G[j].capacity = F[i].capacity
      BY Zenon DEF Agrees
    <2>1. PICK a \in DOMAIN F, c \in DOMAIN G :
            /\ F[a].name = n /\ G[c].name = n
            /\ F[a].page_idx = G[c].page_idx /\ F[a].capacity = G[c].capacity
      BY <1>2
    <2>2. a = i /\ c = j
      BY <1>4, <1>5, <2>1
    <2> QED BY <2>1, <2>2
  <1>11. Holds(F, E, saved', stored')
    <2> SUFFICES ASSUME NEW n \in E
                 PROVE  \E i \in 2 .. Len(F) - 1 : /\ F[i].name = n /\ F[i].length >= saved'[n]
                                                   /\ stored'[n] \subseteq PagesOf(F[i])
      BY Zenon DEF Holds
    <2>1. PICK i \in DOMAIN F, j \in DOMAIN G :
            /\ F[i].name = n /\ G[j].name = n
            /\ F[i].page_idx = G[j].page_idx /\ F[i].capacity = G[j].capacity
      BY <1>2
    <2>2. i \in 2 .. Len(F) - 1 /\ F[i].length \in Nat
      BY <1>4, <1>6, <2>1 DEF FileEntry
    <2>3. F[i].length >= saved'[n]
      <3>1. CASE saved'[n] = 0
        BY <2>2, <3>1
      <3>2. CASE saved'[n] # 0
        <4>1. PICK a \in DOMAIN F : F[a].name = n /\ F[a].length >= saved[n]
          BY <1>2, <1>6, <3>2
        <4>2. a = i
          BY <1>4, <2>1, <4>1
        <4> QED BY <1>6, <1>8, <3>2, <4>1, <4>2
      <3> QED BY <3>1, <3>2
    <2>4. PICK k \in 2 .. Len(G) - 1 : G[k].name = n /\ stored[n] \subseteq PagesOf(G[k])
      BY <1>3, <1>6 DEF Holds
    <2>5. k = j
      BY <1>5, <2>1, <2>4
    <2>6. stored'[n] \subseteq PagesOf(F[i])
      BY <1>6, <1>7, <2>1, <2>4, <2>5 DEF PagesOf
    <2> QED BY <2>1, <2>2, <2>3, <2>6
  <1>12. \A n \in Names : stored'[n] \subseteq stored[n] /\ (n \notin E => stored'[n] = {})
    BY <1>7
  <1> QED BY <1>1, <1>6, <1>7, <1>8, <1>9, <1>10, <1>11, <1>12

LEMMA MountStep ==
  ASSUME SpifsInv, NEW t \in TocNames, spifs_mount(t)
  PROVE  SpifsInv'
  <1>1. /\ ~spifs_mounted /\ op = Idle
        /\ toc[t].generation # CORRUPT_TOC
        /\ spifs_mounted' = TRUE /\ toc_position' = t
        /\ generation' = toc[t].generation /\ files' = toc[t].files
        /\ toc' = toc /\ page' = page /\ cookies' = cookies /\ op' = op
        /\ formatted' = formatted
    BY DEF spifs_mount, device, history, RollBack
  <1>2. SpifsTypeOK /\ OwnData /\ TablesSound /\ NotMounted
    BY <1>1 DEF SpifsInv
  <1>3. Newest' = Newest /\ Newest \in TocNames
    BY <1>1 DEF Newest, TocNames
  <1>4. \A u \in TocNames : toc[u].generation \in Nat /\ toc[u].files \in Seq(FileEntry)
    BY <1>2 DEF SpifsTypeOK
  <1>5. toc[t].generation > 0 /\ Sound(toc[t].files)
    BY <1>1, <1>2 DEF TablesSound, TornToc, CORRUPT_TOC
  <1>6. toc[Newest].generation # CORRUPT_TOC /\ Sound(toc[Newest].files)
    <2>1. toc[Newest].generation >= toc[t].generation
      BY <1>4 DEF Newest, TocNames
    <2>2. toc[Newest].generation > 0
      BY <1>3, <1>4, <1>5, <2>1
    <2> QED BY <1>2, <1>3, <2>2 DEF TablesSound, TornToc, CORRUPT_TOC
  <1>7. /\ exists' \in SUBSET exists /\ saved' \in [Names -> Nat]
        /\ stored' \in [Names -> SUBSET Nat] /\ \A n \in Names : stored'[n] \subseteq stored[n]
        /\ \A n \in Names \ exists' : stored'[n] = {}
        /\ Holds(toc[t].files, exists', saved', stored')
        /\ Holds(toc[Newest].files, exists', saved', stored')
        /\ Agrees(toc[Newest].files, toc[t].files, exists')
    <2>1. CASE t = Newest
      <3>1. exists' = exists /\ stored' = stored /\ saved' = saved
        BY <2>1 DEF spifs_mount, history
      <3>2. Holds(toc[Newest].files, exists, saved, stored)
        BY <1>2 DEF NotMounted, Keeps
      <3>3. Agrees(toc[Newest].files, toc[Newest].files, exists)
        BY <1>6, AgreesItself
      <3>4. /\ saved \in [Names -> Nat] /\ stored \in [Names -> SUBSET Nat]
            /\ \A n \in Names \ exists : stored[n] = {}
        BY <1>2 DEF SpifsTypeOK, OwnData
      <3> QED BY <2>1, <3>1, <3>2, <3>3, <3>4
    <2>2. CASE t # Newest
      <3>1. RollBack(t)
        BY <2>2 DEF spifs_mount
      <3> QED BY <1>1, <1>5, <1>6, <3>1, OlderTable
    <2> QED BY <2>1, <2>2
  <1>8. SpifsTypeOK'
    <2>1. exists' \in SUBSET Names
      BY <1>2, <1>7 DEF SpifsTypeOK
    <2> QED BY <1>1, <1>2, <1>4, <1>7, <2>1 DEF SpifsTypeOK
  <1>9. OwnData' /\ TablesSound'
    <2>1. ASSUME NEW n \in exists', NEW p \in stored'[n]
          PROVE  p \in DOMAIN page /\ page[p] = n
      <3>1. n \in exists /\ n \in Names
        BY <1>2, <1>7 DEF SpifsTypeOK
      <3>2. p \in stored[n]
        BY <1>7, <3>1
      <3> QED BY <1>2, <3>1, <3>2 DEF OwnData
    <2> QED BY <1>1, <1>2, <1>7, <2>1 DEF OwnData, TablesSound
  <1>10. Mounted'
    <2>1. Keeps(files)' /\ Keeps(toc[Newest].files)' /\ Keeps(toc[toc_position].files)'
      BY <1>1, <1>3, <1>7 DEF Keeps
    <2>2. Agrees(toc[t].files, toc[t].files, exists')
      BY <1>5, AgreesItself
    <2>3. /\ Agrees(toc'[Newest'].files, files', exists')
          /\ Agrees(toc'[toc_position'].files, files', exists')
      BY <1>1, <1>3, <1>7, <2>2
    <2>4. Sound(files') /\ generation' > 0 /\ toc'[toc_position'].generation = generation'
      BY <1>1, <1>5
    <2>5. OpOnFiles' /\ CookiesAlive'
      BY <1>1, <1>2 DEF OpOnFiles, CookiesAlive, NotMounted, Idle
    <2> QED BY <2>1, <2>3, <2>4, <2>5 DEF Mounted
  <1>11. toc'[Newest'].generation # CORRUPT_TOC
    BY <1>1, <1>3, <1>6
  <1> QED BY <1>1, <1>8, <1>9, <1>10, <1>11 DEF SpifsInv

(* Whatever was under way, what the next mount takes keeps every file. *)
LEMMA ForgetStep ==
  ASSUME SpifsInv, Forget
  PROVE  SpifsInv'
  <1>1. /\ spifs_mounted' = FALSE /\ generation' = 0 /\ toc_position' = FRONT_TOC /\ files' = <<>>
        /\ cookies' = [d \in Dirs |-> Closed] /\ op' = Idle
        /\ toc' = toc /\ page' = page
        /\ exists' = exists /\ stored' = stored /\ saved' = saved /\ formatted' = formatted
    BY DEF Forget, device, history
  <1>2. /\ SpifsTypeOK /\ OwnData /\ TablesSound
        /\ formatted => toc[Newest].generation # CORRUPT_TOC
    BY DEF SpifsInv
  <1>3. Holds(toc[Newest].files, exists, saved, stored)
    BY DEF SpifsInv, Mounted, NotMounted, Keeps
  <1>4. Newest' = Newest
    BY <1>1 DEF Newest
  <1>5. SpifsTypeOK'
    <2>1. cookies' \in [Dirs -> Names \cup TocNames \cup {Closed}]
      BY <1>1
    <2>2. FRONT_TOC \in TocNames /\ 0 \in Nat /\ <<>> \in Seq(FileEntry)
      BY DEF TocNames
    <2> QED BY <1>1, <1>2, <2>1, <2>2, IdleType DEF SpifsTypeOK
  <1>6. OwnData' /\ TablesSound'
    BY <1>1, <1>2 DEF OwnData, TablesSound
  <1>7. NotMounted'
    BY <1>1, <1>3, <1>4 DEF NotMounted, Keeps
  <1> QED BY <1>1, <1>2, <1>4, <1>5, <1>6, <1>7 DEF SpifsInv

LEMMA FormattedDevice == SpifsInit => SpifsInv
  <1> SUFFICES ASSUME SpifsInit PROVE SpifsInv
    OBVIOUS
  <1>1. /\ toc = [t \in TocNames |->
                    [generation |-> IF t = FRONT_TOC THEN 3 ELSE 2, files |-> TocFiles]]
        /\ page = [p \in 0 .. page_count - 1 |-> "erased"]
        /\ spifs_mounted = FALSE /\ generation = 0 /\ toc_position = FRONT_TOC /\ files = <<>>
        /\ cookies = [d \in Dirs |-> Closed] /\ op = Idle
        /\ exists = {} /\ stored = [n \in Names |-> {}] /\ saved = [n \in Names |-> 0]
        /\ formatted = TRUE
    BY DEF SpifsInit, TocNames
  <1>2. /\ toc \in [TocNames -> [generation : Nat, files : Seq(FileEntry)]]
        /\ \A t \in TocNames : toc[t].generation > 0 /\ toc[t].files = TocFiles
    BY <1>1, Tables
  <1>3. SpifsTypeOK
    <2>1. FRONT_TOC \in TocNames /\ <<>> \in Seq(FileEntry)
      BY DEF TocNames
    <2>2. /\ page \in [0 .. page_count - 1 -> Names \cup {"erased"}]
          /\ cookies \in [Dirs -> Names \cup TocNames \cup {Closed}]
          /\ stored \in [Names -> SUBSET Nat] /\ saved \in [Names -> Nat]
      BY <1>1
    <2> QED BY <1>1, <1>2, <2>1, <2>2, IdleType DEF SpifsTypeOK
  <1>4. TablesSound
    BY <1>2, SoundTables DEF TablesSound
  <1>5. OwnData /\ NotMounted
    BY <1>1 DEF OwnData, NotMounted, Keeps, Holds
  <1>6. toc[Newest].generation # CORRUPT_TOC
    BY <1>2 DEF Newest, TocNames, CORRUPT_TOC
  <1> QED BY <1>1, <1>3, <1>4, <1>5, <1>6 DEF SpifsInv

LEMMA SpifsStutters ==
  ASSUME SpifsInv, UNCHANGED spifsvars
  PROVE  SpifsInv'
  BY DEF SpifsInv, spifsvars, SpifsTypeOK, TablesSound, OwnData, Mounted, NotMounted, Keeps, Newest,
         OpOnFiles, NextPage, CookiesAlive

LEMMA SpifsStep == SpifsInv /\ [SpifsNext]_spifsvars => SpifsInv'
  <1> SUFFICES ASSUME SpifsInv, [SpifsNext]_spifsvars PROVE SpifsInv'
    OBVIOUS
  <1>1. CASE UNCHANGED spifsvars
    BY <1>1, SpifsStutters
  <1>2. CASE spifs_format \/ \E t \in {FRONT_TOC, BACK_TOC} : spifs_mount(t)
    BY <1>2, FormatStep, MountStep DEF TocNames
  <1>3. CASE spifs_unmount \/ power_fails
    BY <1>3, ForgetStep DEF spifs_unmount, power_fails
  <1>4. CASE commit_writes \/ commit_ends \/ commit_ends_badly
    BY <1>4, CommitWritesStep, CommitEndsStep, CommitEndsBadlyStep
  <1>5. CASE create_erases \/ erase_page \/ write_page
    BY <1>5, EraseStep, ErasePageStep, WritePageStep
  <1>6. ASSUME NEW n \in Names, spifs_remove(n) PROVE SpifsInv'
    BY <1>6, RemoveStep
  <1>7. ASSUME NEW n \in Names, NEW len \in Lengths, spifs_create(n, len) \/ spifs_truncate(n, len)
        PROVE  SpifsInv'
    BY <1>7, CreateStep, TruncateStep
  <1>8. ASSUME NEW n \in Names, NEW a \in 1 .. page_count, NEW b \in 1 .. page_count, a <= b,
               spifs_write(n, a, b)
        PROVE  SpifsInv'
    BY <1>8, WriteStep
  <1>9. ASSUME NEW d \in Dirs, spifs_opendir(d) \/ spifs_readdir(d) \/ spifs_closedir(d)
        PROVE  SpifsInv'
    BY <1>9, DirectoryStep
  <1> QED BY <1>1, <1>2, <1>3, <1>4, <1>5, <1>6, <1>7, <1>8, <1>9, Zenon DEF SpifsNext

(* Between any two steps of any operations of spifs.c, the erasure and the *)
(* write of a page included, whichever calls have failed and however often *)
(* the power has, the table in use and the one the next mount takes are    *)
(* sound and have every file that has to be there, in the place where the  *)
(* list in memory has it.  A mount that cannot read the newer table leaves *)
(* the files that both have.                                               *)
THEOREM SpifsInvariant == SpifsSpec => []SpifsInv
  BY FormattedDevice, SpifsStep, PTL DEF SpifsSpec

LEMMA MountFindsAll == SpifsInv => CrashKeepsFiles
  <1> SUFFICES ASSUME SpifsInv PROVE CrashKeepsFiles
    OBVIOUS
  <1> DEFINE fs == toc[Newest].files
  <1>1. TablesSound /\ OwnData
    BY DEF SpifsInv
  <1>2. Holds(fs, exists, saved, stored)
    BY DEF SpifsInv, Mounted, NotMounted, Keeps
  <1>3. Newest \in TocNames
    BY DEF Newest, TocNames
  <1>4. consistency_check(fs)
    <2>1. CASE toc[Newest] = TornToc
      BY <2>1 DEF TornToc, consistency_check
    <2>2. CASE Sound(fs)
      BY <2>2, SoundFacts
    <2> QED BY <1>1, <1>3, <2>1, <2>2 DEF TablesSound
  <1>5. ASSUME NEW n \in exists
        PROVE  \E i \in DOMAIN fs :
                 /\ fs[i].name = n
                 /\ fs[i].length >= saved[n]
                 /\ \A p \in stored[n] : p \in PagesOf(fs[i]) /\ page[p] = n
    <2>1. PICK i \in 2 .. Len(fs) - 1 :
            fs[i].name = n /\ fs[i].length >= saved[n] /\ stored[n] \subseteq PagesOf(fs[i])
      BY <1>2, Zenon DEF Holds
    <2>2. fs \in Seq(FileEntry)
      BY <1>3 DEF SpifsInv, SpifsTypeOK
    <2>3. i \in DOMAIN fs
      BY <2>2
    <2>4. \A p \in stored[n] : p \in PagesOf(fs[i]) /\ page[p] = n
      BY <1>1, <2>1 DEF OwnData
    <2> QED BY <2>1, <2>3, <2>4
  <1>6. formatted => toc[Newest].generation # CORRUPT_TOC
    BY DEF SpifsInv
  <1> QED BY <1>4, <1>5, <1>6, Zenon DEF CrashKeepsFiles

(* For any device, files and lengths: whenever the power fails, and        *)
(* whichever erasures, writes and commits of spifs.c have failed before,   *)
(* the next mount that can read the newer table finds every file whose     *)
(* creation was reported and whose removal was not asked for, not shorter  *)
(* than it was saved, and with its data in every page that was written and *)
(* that spifs_write_page has not begun to erase and write again.  Once a   *)
(* mount had to take the older table, this is so of what both tables have. *)
THEOREM SpifsKeepsFiles == SpifsSpec => []CrashKeepsFiles
  BY SpifsInvariant, MountFindsAll, PTL

LEMMA CookiesStand == SpifsInv => CookiesAlive
  BY DEF SpifsInv, Mounted, NotMounted, CookiesAlive

(* For any number of directories being read: however spifs_remove,         *)
(* spifs_create and their failures change the list, next_file of a         *)
(* dircookie is a node of it.                                              *)
THEOREM SpifsCookies == SpifsSpec => []CookiesAlive
  BY SpifsInvariant, CookiesStand, PTL

-----------------------------------------------------------------------------
(* The PSAR reader. *)

(* The contents list has all entries at their places. *)
ListRead ==
  /\ DOMAIN list = DOMAIN Entries
  /\ \A k \in DOMAIN Entries : list[k] = [of |-> k, file_offset |-> DataAt(k)]

(* The table has been found, copied and looked up. *)
TableRead ==
  /\ \E k \in DOMAIN Entries : Entries[k].name = TableName
  /\ \A i \in DOMAIN TheLines : \E k \in DOMAIN Entries : Entries[k].name = TheLines[i].name
  /\ table_copy.of = FirstNamed(TableName)
  /\ Len(table_list) = Len(TheLines)
  /\ table_list = [i \in DOMAIN TheLines |-> EntryOf(i)]

IsFile(i) == Entries[EntryOf(i)].is_file
LinesHanded == {handed[n].line : n \in DOMAIN handed}

(* Those to hand over before line pos, the directories or the files. *)
DirectoriesBefore(p) == {i \in DOMAIN TheLines : ~IsFile(i) /\ i < p}
FilesBefore(p) == {i \in DOMAIN TheLines : ~IsFile(i) \/ i < p}

(* What was handed over is the beginning of what the container says. *)
HandedInOrder ==
  \A n \in DOMAIN handed :
    /\ handed[n].line \in DOMAIN TheLines
    /\ handed[n] = Promised(handed[n].line)
    /\ {handed[m].line : m \in 1 .. n - 1} = {i \in DOMAIN TheLines : ComesBefore(i, handed[n].line)}

HandedOver == {Promised(i) : i \in DOMAIN TheLines}

PsarInv ==
  /\ container \in Containers
  /\ fp \in Nat
  /\ pos \in Nat \ {0}
  /\ handed \in Seq(HandedOver)
  /\ handed # <<>> => container.firmware = "6.61"
  /\ HandedInOrder
  /\ psar_pc \in {"closed", "header", "metadata", "entries", "table", "self_test", "open"} =>
       handed = <<>>
  /\ psar_pc \in {"closed", "header", "metadata"} => list = <<>> /\ pos = 1
  /\ psar_pc = "header" => fp \in {0, Start}
  /\ psar_pc = "metadata" => fp = Start + 1
  /\ psar_pc = "entries" =>
       /\ pos <= Len(Entries) + 1
       /\ pos <= Len(Entries) => fp = DataAt(pos) - 1
       /\ DOMAIN list = 1 .. pos - 1
       /\ \A k \in 1 .. pos - 1 : list[k] = [of |-> k, file_offset |-> DataAt(k)]
  /\ psar_pc \in {"table", "self_test", "open", "directories", "files", "done"} =>
       ListRead /\ container.firmware = "6.61"
  /\ psar_pc \in {"self_test", "open", "directories", "files", "done"} => TableRead
  /\ psar_pc = "directories" => pos <= Len(TheLines) + 1 /\ LinesHanded = DirectoriesBefore(pos)
  /\ psar_pc = "files" => pos <= Len(TheLines) + 1 /\ LinesHanded = FilesBefore(pos)
  /\ psar_pc = "done" => LinesHanded = DOMAIN TheLines

LEMMA OfContainer ==
  ASSUME container \in Containers
  PROVE  /\ Entries \in Seq(PsarEntry) /\ LaidOut(Entries)
         /\ DOMAIN Entries = 1 .. Len(Entries) /\ Len(Entries) \in Nat
         /\ \A k \in DOMAIN Entries : Entries[k] \in PsarEntry /\ DataAt(k) \in Nat
         /\ Start \in Nat /\ SkippedUnits \in Nat /\ WorkBuffer \in Nat
  <1>1. Entries \in Seq(PsarEntry) /\ LaidOut(Entries)
    BY PsarAssumption DEF Entries
  <1>2. Start \in Nat /\ SkippedUnits \in Nat /\ WorkBuffer \in Nat
    BY PsarAssumption DEF Start
  <1>3. DOMAIN Entries = 1 .. Len(Entries) /\ Len(Entries) \in Nat
    BY <1>1
  <1>4. \A k \in DOMAIN Entries : Entries[k] \in PsarEntry
    BY <1>1, <1>3
  <1>5. \A k \in DOMAIN Entries : Entries[k].at \in Nat
    BY <1>4 DEF PsarEntry
  <1> QED BY <1>1, <1>2, <1>3, <1>4, <1>5 DEF DataAt

(* Entries do not overlap. *)
LEMMA Apart ==
  ASSUME container \in Containers, NEW j \in DOMAIN Entries, NEW k \in DOMAIN Entries, j < k
  PROVE  DataAt(j) + Entries[j].size < DataAt(k)
  <1> DEFINE Overlaps(m, n) == m < n /\ ~(Entries[m].at + Entries[m].size < Entries[n].at)
             T == {n \in DOMAIN Entries : \E m \in DOMAIN Entries : Overlaps(m, n)}
  <1>1. /\ DOMAIN Entries = 1 .. Len(Entries) /\ Len(Entries) \in Nat
        /\ \A n \in DOMAIN Entries : Entries[n].at \in Nat /\ Entries[n].size \in Nat
        /\ Start \in Nat /\ SkippedUnits \in Nat
    BY OfContainer DEF PsarEntry
  <1>2. T = {}
    <2> SUFFICES ASSUME T # {} PROVE FALSE
      OBVIOUS
    <2>1. T \in SUBSET Nat
      BY <1>1
    <2>2. PICK n \in T : \A i \in T : n <= i
      BY <2>1, Least
    <2>3. PICK m \in DOMAIN Entries : Overlaps(m, n)
      OBVIOUS
    <2>4. n \in 2 .. Len(Entries) /\ m \in 1 .. n - 1
      <3>1. n \in 1 .. Len(Entries) /\ m \in 1 .. Len(Entries) /\ m < n
        BY <1>1, <2>3
      <3>2. Len(Entries) \in Nat
        BY <1>1
      <3> HIDE DEF T, Overlaps
      <3> QED BY ONLY <3>1, <3>2
    <2> DEFINE l == n - 1
    <2>5. l \in DOMAIN Entries /\ l < n /\ ~(n <= l)
      <3>1. n \in Int /\ n >= 2 /\ n <= Len(Entries)
        BY <2>4, OfContainer
      <3>2. l \in 1 .. Len(Entries) /\ l < n /\ ~(n <= l)
        BY <3>1
      <3> QED BY <3>2, OfContainer
    <2>6. Entries[n].at = Entries[l].at + Entries[l].size + 1
      <3>1. n \in DOMAIN Entries /\ n # 1
        BY <1>1, <2>4
      <3>2. LaidOut(Entries)
        BY OfContainer
      <3> QED BY <3>1, <3>2 DEF LaidOut
    <2>7. CASE m = l
      BY <1>1, <2>3, <2>5, <2>6, <2>7
    <2>8. CASE m # l
      <3>1. ~Overlaps(m, l)
        BY <2>2, <2>3, <2>5
      <3>2. m < l
        BY <2>4, <2>8
      <3>3. Entries[m].at + Entries[m].size < Entries[l].at
        BY <3>1, <3>2
      <3>4. /\ Entries[m].at \in Nat /\ Entries[m].size \in Nat /\ Entries[l].at \in Nat
            /\ Entries[l].size \in Nat
        BY <1>1, <2>3, <2>5
      <3> QED BY <2>3, <2>6, <3>3, <3>4
    <2> QED BY <2>7, <2>8
  <1>3. Entries[j].at + Entries[j].size < Entries[k].at
    BY <1>2
  <1> QED BY <1>1, <1>3 DEF DataAt

(* The header of an entry is what is read before its data. *)
LEMMA HeaderRead ==
  ASSUME container \in Containers, NEW k \in DOMAIN Entries
  PROVE  BlockAt(DataAt(k) - 1) = [form |-> "header", of |-> k]
  <1>1. \A i \in DOMAIN Entries : DataAt(i) \in Nat /\ Entries[i].size \in Nat
    BY OfContainer DEF PsarEntry
  <1>2. \A i, j \in DOMAIN Entries : i # j => DataAt(i) # DataAt(j)
    <2> TAKE i, j \in DOMAIN Entries
    <2>1. i \in Nat /\ j \in Nat
      BY OfContainer
    <2> QED BY <1>1, <2>1, Apart
  <1>3. DataAt(k) - 1 # Start + 1
    <2>1. Entries[k].at \in Nat /\ Start \in Nat /\ SkippedUnits \in Nat
      BY OfContainer DEF PsarEntry
    <2> QED BY <2>1 DEF DataAt
  <1>4. \A i \in DOMAIN Entries : DataAt(k) - 1 = DataAt(i) - 1 <=> i = k
    BY <1>1, <1>2
  <1>5. (CHOOSE i \in DOMAIN Entries : DataAt(k) - 1 = DataAt(i) - 1) = k
    BY <1>4
  <1> QED BY <1>3, <1>4, <1>5 DEF BlockAt

(* Data that is read where an entry's begins is that of the entry. *)
LEMMA DataRead ==
  ASSUME container \in Containers, NEW k \in DOMAIN Entries, BlockAt(DataAt(k)).form = "compressed"
  PROVE  BlockAt(DataAt(k)).of = k
  <1>1. \A i \in DOMAIN Entries : DataAt(i) \in Nat /\ Entries[i].size \in Nat
    BY OfContainer DEF PsarEntry
  <1>2. \A i, j \in DOMAIN Entries : i # j => DataAt(i) # DataAt(j)
    <2> TAKE i, j \in DOMAIN Entries
    <2>1. i \in Nat /\ j \in Nat
      BY OfContainer
    <2> QED BY <1>1, <2>1, Apart
  <1>3. (CHOOSE i \in DOMAIN Entries : DataAt(k) = DataAt(i)) = k
    BY <1>2
  <1>4. BlockAt(DataAt(k)) = [form |-> "compressed", of |-> CHOOSE i \in DOMAIN Entries : DataAt(k) = DataAt(i)]
    BY DEF BlockAt, Scratch
  <1> QED BY <1>3, <1>4

(* The first of a set of indices. *)
LEMMA FirstOf ==
  ASSUME NEW S \in SUBSET Nat, S # {}
  PROVE  First(S) \in S
  <1>1. \E i \in S : \A j \in S : i <= j
    BY Least
  <1> QED BY <1>1 DEF First

LEMMA FoundEntry ==
  ASSUME container \in Containers, NEW name, \E k \in DOMAIN Entries : Entries[k].name = name
  PROVE  FirstNamed(name) \in DOMAIN Entries
  <1> DEFINE S == {k \in DOMAIN Entries : Entries[k].name = name}
  <1>1. S \in SUBSET Nat /\ S # {}
    BY OfContainer
  <1>2. First(S) \in S
    BY <1>1, FirstOf
  <1> QED BY <1>2 DEF FirstNamed

(* Looking up in the contents list is looking up in the container. *)
LEMMA LooksUp ==
  ASSUME ListRead, NEW name
  PROVE  /\ Named(name) = {k \in DOMAIN Entries : Entries[k].name = name}
         /\ lookup_entry_by_name(name) = FirstNamed(name)
  <1>1. Named(name) = {k \in DOMAIN Entries : Entries[k].name = name}
    BY DEF ListRead, Named
  <1> QED BY <1>1 DEF lookup_entry_by_name, FirstNamed

(* read_file_by_entry delivers the entry. *)
LEMMA ReadsEntry ==
  ASSUME container \in Containers, ListRead, NEW k \in DOMAIN Entries, read_file_by_entry(k)
  PROVE  Entries[k].is_file /\ wb1'.of = k /\ fp' \in Nat
  <1>1. list[k] = [of |-> k, file_offset |-> DataAt(k)]
    BY DEF ListRead
  <1>2. wb1' = BlockAt(DataAt(k)) /\ BlockAt(DataAt(k)).form = "compressed"
    BY <1>1 DEF read_file_by_entry
  <1>3. fp' = DataAt(k) + Entries[k].size
    BY <1>1 DEF read_file_by_entry
  <1>4. DataAt(k) \in Nat /\ Entries[k].size \in Nat
    BY OfContainer DEF PsarEntry
  <1> QED BY <1>1, <1>2, <1>3, <1>4, DataRead DEF read_file_by_entry, is_entry_a_file

(* What the container says does not change. *)
LEMMA SameContainer ==
  ASSUME container' = container
  PROVE  /\ Entries' = Entries /\ Start' = Start /\ TheLines' = TheLines
         /\ \A k : DataAt(k)' = DataAt(k)
         /\ \A i : EntryOf(i)' = EntryOf(i) /\ IsFile(i)' = IsFile(i) /\ Promised(i)' = Promised(i)
         /\ \A i, j : ComesBefore(i, j)' = ComesBefore(i, j)
         /\ \A name : FirstNamed(name)' = FirstNamed(name)
         /\ \A p : DirectoriesBefore(p)' = DirectoriesBefore(p) /\ FilesBefore(p)' = FilesBefore(p)
         /\ HandedOver' = HandedOver
  <1>1. Entries' = Entries /\ Start' = Start
    BY DEF Entries, Start
  <1>2. \A name : FirstNamed(name)' = FirstNamed(name)
    BY <1>1 DEF FirstNamed, First
  <1>3. TheLines' = TheLines
    BY <1>1, <1>2 DEF TheLines
  <1>4. \A i : EntryOf(i)' = EntryOf(i)
    BY <1>2, <1>3 DEF EntryOf
  <1>5. \A i : IsFile(i)' = IsFile(i)
    BY <1>1, <1>4 DEF IsFile
  <1>6. \A i : Promised(i)' = Promised(i)
    BY <1>1, <1>3, <1>4 DEF Promised, Scratch
  <1>7. \A i, j : ComesBefore(i, j)' = ComesBefore(i, j)
    BY <1>1, <1>4 DEF ComesBefore
  <1>8. \A k : DataAt(k)' = DataAt(k)
    BY <1>1 DEF DataAt
  <1>9. \A p : DirectoriesBefore(p)' = DirectoriesBefore(p) /\ FilesBefore(p)' = FilesBefore(p)
    BY <1>3, <1>5 DEF DirectoriesBefore, FilesBefore
  <1>10. HandedOver' = HandedOver
    BY <1>3, <1>6 DEF HandedOver
  <1> QED BY <1>1, <1>2, <1>3, <1>4, <1>5, <1>6, <1>7, <1>8, <1>9, <1>10

(* Nothing is handed over. *)
LEMMA HandedUnchanged ==
  ASSUME container' = container, handed' = handed, handed \in Seq(HandedOver), HandedInOrder
  PROVE  (handed \in Seq(HandedOver))' /\ HandedInOrder' /\ LinesHanded' = LinesHanded
  BY SameContainer DEF HandedInOrder, LinesHanded

(* Line p is handed over, after those that come before it. *)
LEMMA HandsOver ==
  ASSUME container' = container, handed \in Seq(HandedOver), HandedInOrder,
         NEW p \in DOMAIN TheLines,
         LinesHanded = {i \in DOMAIN TheLines : ComesBefore(i, p)},
         handed' = Append(handed, Promised(p))
  PROVE  (handed \in Seq(HandedOver))' /\ HandedInOrder' /\ LinesHanded' = LinesHanded \cup {p}
  <1>0. Promised(p) \in HandedOver
    BY DEF HandedOver
  <1>1. /\ handed' \in Seq(HandedOver)
        /\ DOMAIN handed = 1 .. Len(handed) /\ Len(handed) \in Nat
        /\ DOMAIN handed' = 1 .. Len(handed) + 1
        /\ \A n \in DOMAIN handed : handed'[n] = handed[n]
        /\ handed'[Len(handed) + 1] = Promised(p)
    BY <1>0
  <1>2. Promised(p).line = p
    BY DEF Promised
  <1>3. LinesHanded' = LinesHanded \cup {p}
    BY <1>1, <1>2 DEF LinesHanded
  <1>4. ASSUME NEW n \in DOMAIN handed'
        PROVE  /\ handed'[n].line \in DOMAIN TheLines
               /\ handed'[n] = Promised(handed'[n].line)
               /\ {handed'[m].line : m \in 1 .. n - 1} =
                    {i \in DOMAIN TheLines : ComesBefore(i, handed'[n].line)}
    <2>1. CASE n \in DOMAIN handed
      <3>1. \A m \in 1 .. n - 1 : handed'[m] = handed[m]
        BY <1>1, <2>1
      <3>2. handed'[n] = handed[n]
        BY <1>1, <2>1
      <3>3. {handed'[m].line : m \in 1 .. n - 1} = {handed[m].line : m \in 1 .. n - 1}
        BY <3>1
      <3> QED BY <2>1, <3>2, <3>3 DEF HandedInOrder
    <2>2. CASE n = Len(handed) + 1
      <3>1. handed'[n] = Promised(p) /\ handed'[n].line = p
        BY <1>1, <1>2, <2>2
      <3>2. 1 .. n - 1 = DOMAIN handed
        BY <1>1, <2>2
      <3>3. {handed'[m].line : m \in 1 .. n - 1} = LinesHanded
        BY <1>1, <3>2 DEF LinesHanded
      <3> QED BY <3>1, <3>3
    <2> QED BY <1>1, <2>1, <2>2
  <1>5. HandedInOrder'
    <2>1. /\ TheLines' = TheLines
          /\ \A i : Promised(i)' = Promised(i)
          /\ \A i, j : ComesBefore(i, j)' = ComesBefore(i, j)
      BY SameContainer
    <2> QED BY <1>4, <2>1 DEF HandedInOrder
  <1>6. HandedOver' = HandedOver
    BY SameContainer
  <1> QED BY <1>1, <1>3, <1>5, <1>6

(* What is known of the table, once it was read. *)
LEMMA OfTable ==
  ASSUME container \in Containers, ListRead, TableRead
  PROVE  /\ TheLines \in Seq([name : STRING, path : STRING])
         /\ DOMAIN TheLines = 1 .. Len(TheLines) /\ Len(TheLines) \in Nat
         /\ \A i \in DOMAIN TheLines :
              /\ EntryOf(i) \in DOMAIN Entries /\ EntryOf(i) \in Nat
              /\ table_list[i] = EntryOf(i)
              /\ is_entry_a_file(table_list[i]) = IsFile(i)
              /\ Path(i) = TheLines[i].path
              /\ IsFile(i) \in BOOLEAN
              /\ Promised(i) \in HandedOver
         /\ DOMAIN table_list = DOMAIN TheLines
  <1>1. FirstNamed(TableName) \in DOMAIN Entries
    BY FoundEntry DEF TableRead
  <1>2. TheLines \in Seq([name : STRING, path : STRING])
    BY <1>1, OfContainer DEF TheLines, PsarEntry
  <1>3. DOMAIN TheLines = 1 .. Len(TheLines) /\ Len(TheLines) \in Nat
    BY <1>2
  <1>4. ASSUME NEW i \in DOMAIN TheLines
        PROVE  /\ EntryOf(i) \in DOMAIN Entries /\ EntryOf(i) \in Nat
               /\ table_list[i] = EntryOf(i)
               /\ is_entry_a_file(table_list[i]) = IsFile(i)
               /\ Path(i) = TheLines[i].path
               /\ IsFile(i) \in BOOLEAN
               /\ Promised(i) \in HandedOver
    <2>1. EntryOf(i) \in DOMAIN Entries
      BY FoundEntry DEF TableRead, EntryOf
    <2>2. EntryOf(i) \in Nat
      BY <2>1, OfContainer
    <2>3. table_list[i] = EntryOf(i)
      BY DEF TableRead
    <2>4. is_entry_a_file(table_list[i]) = IsFile(i)
      BY <2>1, <2>3 DEF is_entry_a_file, IsFile, ListRead
    <2>5. Path(i) = TheLines[i].path
      BY DEF Path, Lines, TableRead, TheLines
    <2>6. IsFile(i) \in BOOLEAN
      BY <2>1, OfContainer DEF IsFile, PsarEntry
    <2>7. Promised(i) \in HandedOver
      BY DEF HandedOver
    <2> QED BY <2>1, <2>2, <2>3, <2>4, <2>5, <2>6, <2>7
  <1>5. DOMAIN table_list = DOMAIN TheLines
    BY DEF TableRead
  <1> QED BY <1>2, <1>3, <1>4, <1>5

(* The parts of the invariant that an action need not look at. *)
LEMMA PsarFrame ==
  ASSUME PsarInv, container' = container, handed' = handed
  PROVE  /\ container' \in Containers
         /\ (handed \in Seq(HandedOver))' /\ HandedInOrder' /\ LinesHanded' = LinesHanded
         /\ (handed # <<>> => container.firmware = "6.61")'
         /\ list' = list => (ListRead' <=> ListRead)
         /\ list' = list /\ table_copy' = table_copy /\ table_list' = table_list =>
              (TableRead' <=> TableRead)
  <1>1. (handed \in Seq(HandedOver))' /\ HandedInOrder' /\ LinesHanded' = LinesHanded
    BY HandedUnchanged DEF PsarInv
  <1>2. list' = list => (ListRead' <=> ListRead)
    BY SameContainer DEF ListRead
  <1>3. table_copy' = table_copy /\ table_list' = table_list => (TableRead' <=> TableRead)
    BY SameContainer DEF TableRead
  <1> QED BY <1>1, <1>2, <1>3 DEF PsarInv

LEMMA PsarOpens ==
  ASSUME PsarInv, psar_open \/ get_header \/ read_metadata
  PROVE  PsarInv'
  <1>1. container' = container /\ handed' = handed /\ list' = list /\ pos' = pos
    BY DEF psar_open, get_header, read_metadata, Step
  <1>2. /\ Entries' = Entries /\ Start' = Start /\ \A k : DataAt(k)' = DataAt(k)
        /\ Start \in Nat /\ SkippedUnits \in Nat /\ Len(Entries) \in Nat
        /\ 1 <= Len(Entries) => DataAt(1) = Start + 3 + SkippedUnits
    <2>1. container \in Containers
      BY DEF PsarInv
    <2>2. Start \in Nat /\ SkippedUnits \in Nat /\ Len(Entries) \in Nat
      BY <2>1, OfContainer
    <2>3. ASSUME 1 <= Len(Entries) PROVE DataAt(1) = Start + 3 + SkippedUnits
      <3>1. 1 \in DOMAIN Entries
        BY <2>1, <2>3, OfContainer
      <3>2. Entries[1].at = 0
        BY <2>1, <3>1, OfContainer DEF LaidOut
      <3> QED BY <2>2, <3>2 DEF DataAt
    <2> QED BY <1>1, <2>2, <2>3, SameContainer
  <1>3. psar_pc \in {"closed", "header", "metadata"} /\ psar_pc' \in {"header", "metadata", "entries"}
    BY DEF psar_open, get_header, read_metadata, Step
  <1>4. list = <<>> /\ pos = 1 /\ handed = <<>>
    BY <1>3 DEF PsarInv
  <1>5. fp' \in Nat /\ (psar_pc' = "header" => fp' \in {0, Start}) /\ (psar_pc' = "metadata" => fp' = Start + 1)
    BY <1>2 DEF psar_open, get_header, read_metadata, Step, PsarInv
  <1>6. psar_pc' = "entries" => fp' = Start + 2 + SkippedUnits
    BY <1>2 DEF psar_open, get_header, read_metadata, Step, PsarInv
  <1>7. psar_pc' = "entries" =>
          /\ pos' <= Len(Entries') + 1
          /\ pos' <= Len(Entries') => fp' = DataAt(pos)' - 1
          /\ DOMAIN list' = 1 .. pos' - 1
          /\ \A k \in 1 .. pos' - 1 : list'[k] = [of |-> k, file_offset |-> DataAt(k)']
    <2>1. DataAt(pos)' = DataAt(1)
      BY <1>1, <1>2, <1>4 DEF DataAt
    <2>2. DOMAIN list' = {} /\ pos' = 1
      BY <1>1, <1>4
    <2>3. 1 .. pos' - 1 = {}
      BY <2>2
    <2>4. pos' <= Len(Entries') => Start + 2 + SkippedUnits = DataAt(1) - 1
      BY <1>2, <2>2
    <2> QED BY <1>2, <1>6, <2>1, <2>2, <2>3, <2>4
  <1> QED BY <1>1, <1>2, <1>3, <1>4, <1>5, <1>7, PsarFrame DEF PsarInv

LEMMA PsarReadsEntry ==
  ASSUME PsarInv, read_entry
  PROVE  PsarInv'
  <1>1. /\ container' = container /\ handed' = handed /\ psar_pc = "entries" /\ psar_pc' = "entries"
        /\ pos' = pos + 1 /\ pos <= Len(Entries)
    BY DEF read_entry, Step
  <1>2. /\ container \in Containers /\ pos \in Nat \ {0} /\ handed = <<>>
        /\ fp = DataAt(pos) - 1 /\ DOMAIN list = 1 .. pos - 1
        /\ \A k \in 1 .. pos - 1 : list[k] = [of |-> k, file_offset |-> DataAt(k)]
    BY <1>1 DEF PsarInv
  <1>3. /\ DOMAIN Entries = 1 .. Len(Entries) /\ Len(Entries) \in Nat /\ pos \in DOMAIN Entries
        /\ \A k \in DOMAIN Entries : DataAt(k) \in Nat /\ Entries[k].size \in Nat
    BY <1>1, <1>2, OfContainer DEF PsarEntry
  <1>4. wb1'.of = pos
    <2>1. wb1' = BlockAt(DataAt(pos) - 1)
      BY <1>2 DEF read_entry
    <2>2. BlockAt(DataAt(pos) - 1) = [form |-> "header", of |-> pos]
      BY <1>2, <1>3, HeaderRead
    <2> QED BY <2>1, <2>2
  <1>5. fp' = DataAt(pos) + Entries[pos].size
    <2>1. fp' = fp + 1 + Entries[pos].size
      BY <1>4 DEF read_entry
    <2>2. DataAt(pos) \in Nat /\ Entries[pos].size \in Nat
      BY <1>3
    <2> QED BY <1>2, <2>1, <2>2
  <1>6. fp' \in Nat
    BY <1>3, <1>5
  <1>7. pos' <= Len(Entries) => fp' = DataAt(pos') - 1
    <2> SUFFICES ASSUME pos' <= Len(Entries) PROVE fp' = DataAt(pos') - 1
      OBVIOUS
    <2>1. pos' \in DOMAIN Entries /\ pos' # 1 /\ pos' - 1 = pos
      BY <1>1, <1>2, <1>3
    <2>2. Entries[pos'].at = Entries[pos].at + Entries[pos].size + 1
      BY <1>2, <2>1, OfContainer DEF LaidOut
    <2>3. Entries[pos].at \in Nat /\ Entries[pos].size \in Nat /\ Start \in Nat /\ SkippedUnits \in Nat
      BY <1>2, <1>3, OfContainer DEF PsarEntry
    <2> QED BY <1>5, <2>2, <2>3 DEF DataAt
  <1>8. list' = Append(list, [of |-> pos, file_offset |-> DataAt(pos)])
    <2>1. list' = Append(list, [of |-> wb1'.of, file_offset |-> fp + 1])
      BY DEF read_entry
    <2>2. fp + 1 = DataAt(pos)
      BY <1>2, <1>3
    <2> QED BY <1>4, <2>1, <2>2
  <1>9. DOMAIN list' = 1 .. pos' - 1 /\ \A k \in 1 .. pos' - 1 : list'[k] = [of |-> k, file_offset |-> DataAt(k)]
    <2>1. Len(list) = pos - 1
      BY <1>2, LenProperties
    <2> QED BY <1>1, <1>2, <1>8, <2>1
  <1> QED
    <2>1. Entries' = Entries /\ \A k : DataAt(k)' = DataAt(k)
      BY <1>1, SameContainer
    <2>2. DataAt(pos)' = DataAt(pos')
      BY <2>1, <1>1 DEF DataAt, Start
    <2>3. pos' <= Len(Entries') + 1 /\ pos' \in Nat \ {0}
      BY <1>1, <1>2, <1>3, <2>1
    <2> QED BY <1>1, <1>2, <1>6, <1>7, <1>9, <2>1, <2>2, <2>3, PsarFrame DEF PsarInv

LEMMA PsarBuildsTable ==
  ASSUME PsarInv, build_table_entry_list
  PROVE  PsarInv'
  <1>1. /\ container' = container /\ handed' = handed /\ list' = list
        /\ psar_pc = "table" /\ psar_pc' = "self_test" /\ pos' = 1
    BY DEF build_table_entry_list, Step
  <1>2. container \in Containers /\ ListRead /\ handed = <<>> /\ container.firmware = "6.61"
    BY <1>1 DEF PsarInv
  <1> DEFINE k == lookup_entry_by_name(TableName)
  <1>3. /\ k = FirstNamed(TableName)
        /\ \E e \in DOMAIN Entries : Entries[e].name = TableName
    BY <1>2, LooksUp DEF build_table_entry_list
  <1>4. k \in DOMAIN Entries
    BY <1>2, <1>3, FoundEntry
  <1>5. wb1'.of = k /\ fp' \in Nat
    BY <1>2, <1>4, ReadsEntry DEF build_table_entry_list
  <1>6. wb2'.of = k
    BY <1>5 DEF build_table_entry_list, Expanded
  <1>7. Lines(wb2)' = TheLines
    BY <1>1, <1>3, <1>6, SameContainer DEF Lines, TheLines
  <1>8. \A name : Named(name)' = Named(name) /\ lookup_entry_by_name(name)' = lookup_entry_by_name(name)
    BY <1>1, SameContainer DEF Named, lookup_entry_by_name, First
  <1>9. /\ \A i \in DOMAIN TheLines : \E e \in DOMAIN Entries : Entries[e].name = TheLines[i].name
        /\ table_list' = [i \in DOMAIN TheLines |-> EntryOf(i)]
    <2>1. /\ \A i \in DOMAIN TheLines : Named(TheLines[i].name) # {}
          /\ table_list' = [i \in DOMAIN TheLines |-> lookup_entry_by_name(TheLines[i].name)]
      BY <1>1, <1>7, <1>8, SameContainer DEF build_table_entry_list, Lines
    <2> QED BY <1>2, <2>1, LooksUp DEF EntryOf
  <1>10. table_copy'.of = FirstNamed(TableName)
    BY <1>3, <1>6 DEF build_table_entry_list
  <1>11. TheLines \in Seq([name : STRING, path : STRING])
    BY <1>2, <1>3, <1>4, OfContainer DEF TheLines, PsarEntry
  <1>12. Len(table_list') = Len(TheLines)
    BY <1>9, <1>11
  <1>13. TableRead'
    BY <1>1, <1>3, <1>9, <1>10, <1>12, SameContainer DEF TableRead
  <1> QED BY <1>1, <1>2, <1>5, <1>13, PsarFrame DEF PsarInv

LEMMA PsarTests ==
  ASSUME PsarInv, check_firmware \/ self_test_ipl_decryption \/ psar_fails
  PROVE  PsarInv'
  <1>1. /\ container' = container /\ handed' = handed /\ list' = list /\ pos' = pos
        /\ table_copy' = table_copy /\ table_list' = table_list
    BY DEF check_firmware, self_test_ipl_decryption, psar_fails, Step
  <1>2. CASE check_firmware
    <2>1. /\ psar_pc = "entries" /\ psar_pc' = "table" /\ pos > Len(Entries) /\ fp' = fp
          /\ container.firmware = "6.61"
      BY <1>2 DEF check_firmware, Step
    <2>2. container \in Containers /\ pos \in Nat /\ pos <= Len(Entries) + 1
      BY <2>1 DEF PsarInv
    <2>3. DOMAIN Entries = 1 .. Len(Entries) /\ pos - 1 = Len(Entries)
      BY <2>1, <2>2, OfContainer
    <2>4. ListRead
      BY <2>1, <2>3 DEF PsarInv, ListRead
    <2> QED BY <1>1, <2>1, <2>4, PsarFrame DEF PsarInv
  <1>3. CASE psar_fails
    BY <1>1, <1>3, PsarFrame DEF PsarInv, psar_fails
  <1>4. CASE self_test_ipl_decryption
    <2>1. psar_pc = "self_test" /\ psar_pc' = "open"
      BY <1>4 DEF self_test_ipl_decryption, Step
    <2>2. container \in Containers /\ ListRead /\ TableRead
      BY <2>1 DEF PsarInv
    <2>3. fp' \in Nat
      <3>1. CASE fp' = fp
        BY <3>1 DEF PsarInv
      <3>2. CASE IplLines # {} /\ read_file_by_entry(table_list[First(IplLines)])
        <4>1. IplLines \in SUBSET Nat
          BY <2>2, OfTable DEF IplLines
        <4>2. First(IplLines) \in IplLines
          BY <3>2, <4>1, FirstOf
        <4>3. table_list[First(IplLines)] \in DOMAIN Entries
          BY <2>2, <4>2, OfTable DEF IplLines
        <4> QED BY <2>2, <3>2, <4>3, ReadsEntry
      <3> QED BY <1>4, <3>1, <3>2 DEF self_test_ipl_decryption
    <2> QED BY <1>1, <2>1, <2>2, <2>3, PsarFrame DEF PsarInv
  <1> QED BY <1>2, <1>3, <1>4

LEMMA PsarBegins ==
  ASSUME PsarInv, begin_directories \/ begin_files \/ end_files
  PROVE  PsarInv'
  <1>1. /\ container' = container /\ handed' = handed /\ list' = list /\ fp' = fp
        /\ table_copy' = table_copy /\ table_list' = table_list
        /\ psar_pc \in {"open", "directories", "files"}
    BY DEF begin_directories, begin_files, end_files, Step
  <1>2. /\ container \in Containers /\ ListRead /\ TableRead /\ fp \in Nat
        /\ pos \in Nat \ {0} /\ container.firmware = "6.61"
    BY <1>1 DEF PsarInv
  <1>3. /\ DOMAIN TheLines = 1 .. Len(TheLines) /\ Len(TheLines) \in Nat
        /\ Len(table_list) = Len(TheLines)
    BY <1>2, OfTable DEF TableRead
  <1>4. TheLines' = TheLines /\ \A p : DirectoriesBefore(p)' = DirectoriesBefore(p) /\ FilesBefore(p)' = FilesBefore(p)
    BY <1>1, SameContainer
  <1>5. LinesHanded' = LinesHanded
    BY <1>1, PsarFrame
  <1>6. CASE begin_directories
    <2>1. psar_pc = "open" /\ psar_pc' = "directories" /\ pos' = 1
      BY <1>6 DEF begin_directories, Step
    <2>2. LinesHanded = {}
      BY <2>1 DEF PsarInv, LinesHanded
    <2>3. DirectoriesBefore(1) = {}
      BY <1>3 DEF DirectoriesBefore
    <2>4. DirectoriesBefore(pos)' = {}
      BY <1>4, <2>1, <2>3 DEF DirectoriesBefore
    <2>5. pos' <= Len(TheLines') + 1
      BY <1>3, <1>4, <2>1
    <2> QED BY <1>1, <1>2, <1>5, <2>1, <2>2, <2>4, <2>5, PsarFrame DEF PsarInv
  <1>7. CASE begin_files
    <2>1. psar_pc = "directories" /\ psar_pc' = "files" /\ pos' = 1 /\ pos > Len(table_list)
      BY <1>7 DEF begin_files, Step
    <2>2. LinesHanded = DirectoriesBefore(pos)
      BY <2>1 DEF PsarInv
    <2>3. DirectoriesBefore(pos) = FilesBefore(1)
      BY <1>2, <1>3, <2>1 DEF DirectoriesBefore, FilesBefore
    <2>4. FilesBefore(pos)' = FilesBefore(1)
      BY <1>1, <2>1, SameContainer DEF FilesBefore
    <2>5. pos' <= Len(TheLines') + 1
      BY <1>3, <1>4, <2>1
    <2> QED BY <1>1, <1>2, <1>5, <2>1, <2>2, <2>3, <2>4, <2>5, PsarFrame DEF PsarInv
  <1>8. CASE end_files
    <2>1. psar_pc = "files" /\ psar_pc' = "done" /\ pos' = pos /\ pos > Len(table_list)
      BY <1>8 DEF end_files, Step
    <2>2. LinesHanded = FilesBefore(pos)
      BY <2>1 DEF PsarInv
    <2>3. FilesBefore(pos) = DOMAIN TheLines
      BY <1>2, <1>3, <2>1 DEF FilesBefore
    <2> QED BY <1>1, <1>2, <1>4, <1>5, <2>1, <2>2, <2>3, PsarFrame DEF PsarInv
  <1> QED BY <1>6, <1>7, <1>8

LEMMA PsarReadsEachDirectory ==
  ASSUME PsarInv, psar_read_each_directory
  PROVE  PsarInv'
  <1>1. /\ container' = container /\ list' = list /\ fp' = fp /\ pos' = pos + 1
        /\ table_copy' = table_copy /\ table_list' = table_list
        /\ psar_pc = "directories" /\ psar_pc' = "directories" /\ pos <= Len(table_list)
    BY DEF psar_read_each_directory, Step
  <1>2. /\ container \in Containers /\ ListRead /\ TableRead /\ fp \in Nat
        /\ pos \in Nat \ {0} /\ container.firmware = "6.61"
        /\ handed \in Seq(HandedOver) /\ HandedInOrder /\ LinesHanded = DirectoriesBefore(pos)
    BY <1>1 DEF PsarInv
  <1>3. /\ DOMAIN TheLines = 1 .. Len(TheLines) /\ Len(TheLines) \in Nat
        /\ Len(table_list) = Len(TheLines)
    BY <1>2, OfTable DEF TableRead
  <1>4. pos \in DOMAIN TheLines /\ pos' \in Nat \ {0} /\ pos' <= Len(TheLines) + 1
    BY <1>1, <1>2, <1>3
  <1>5. /\ TheLines' = TheLines /\ DirectoriesBefore(pos)' = DirectoriesBefore(pos + 1)
        /\ ListRead' /\ TableRead'
    BY <1>1, <1>2, SameContainer DEF DirectoriesBefore, ListRead, TableRead
  <1>6. /\ is_entry_a_file(table_list[pos]) = IsFile(pos) /\ IsFile(pos) \in BOOLEAN
        /\ Path(pos) = TheLines[pos].path
    BY <1>2, <1>4, OfTable
  <1>7. CASE IsFile(pos)
    <2>1. handed' = handed
      BY <1>6, <1>7 DEF psar_read_each_directory
    <2>2. DirectoriesBefore(pos + 1) = DirectoriesBefore(pos)
      BY <1>2, <1>3, <1>7 DEF DirectoriesBefore
    <2> QED BY <1>1, <1>2, <1>4, <1>5, <2>1, <2>2, PsarFrame DEF PsarInv
  <1>8. CASE ~IsFile(pos)
    <2>1. Promised(pos) = [line |-> pos, path |-> Path(pos), data |-> Scratch]
      BY <1>6, <1>8 DEF Promised, IsFile
    <2>2. handed' = Append(handed, Promised(pos))
      BY <1>6, <1>8, <2>1 DEF psar_read_each_directory
    <2>3. DirectoriesBefore(pos) = {i \in DOMAIN TheLines : ComesBefore(i, pos)}
      <3>1. \A i \in DOMAIN TheLines : IsFile(i) \in BOOLEAN
        BY <1>2, OfTable
      <3>2. ASSUME NEW i \in DOMAIN TheLines
            PROVE  ComesBefore(i, pos) <=> ~IsFile(i) /\ i < pos
        <4>1. IsFile(pos) = FALSE /\ IsFile(i) \in BOOLEAN
          BY <1>4, <1>8, <3>1
        <4>2. ComesBefore(i, pos) = IF IsFile(i) = IsFile(pos) THEN i < pos ELSE IsFile(pos)
          BY DEF ComesBefore, IsFile
        <4> QED BY <4>1, <4>2
      <3> QED BY <3>2 DEF DirectoriesBefore
    <2>4. /\ (handed \in Seq(HandedOver))' /\ HandedInOrder'
          /\ LinesHanded' = DirectoriesBefore(pos) \cup {pos}
      BY <1>1, <1>2, <1>4, <2>2, <2>3, HandsOver
    <2>5. DirectoriesBefore(pos + 1) = DirectoriesBefore(pos) \cup {pos}
      BY <1>2, <1>3, <1>4, <1>8 DEF DirectoriesBefore
    <2> QED BY <1>1, <1>2, <1>4, <1>5, <2>4, <2>5 DEF PsarInv
  <1> QED BY <1>6, <1>7, <1>8

LEMMA PsarReadsEachFile ==
  ASSUME PsarInv, psar_read_each_file
  PROVE  PsarInv'
  <1>1. /\ container' = container /\ list' = list /\ pos' = pos + 1
        /\ table_copy' = table_copy /\ table_list' = table_list
        /\ psar_pc = "files" /\ psar_pc' = "files" /\ pos <= Len(table_list)
    BY DEF psar_read_each_file, Step
  <1>2. /\ container \in Containers /\ ListRead /\ TableRead /\ fp \in Nat
        /\ pos \in Nat \ {0} /\ container.firmware = "6.61"
        /\ handed \in Seq(HandedOver) /\ HandedInOrder /\ LinesHanded = FilesBefore(pos)
    BY <1>1 DEF PsarInv
  <1>3. /\ DOMAIN TheLines = 1 .. Len(TheLines) /\ Len(TheLines) \in Nat
        /\ Len(table_list) = Len(TheLines)
    BY <1>2, OfTable DEF TableRead
  <1>4. pos \in DOMAIN TheLines /\ pos' \in Nat \ {0} /\ pos' <= Len(TheLines) + 1
    BY <1>1, <1>2, <1>3
  <1>5. /\ TheLines' = TheLines /\ FilesBefore(pos)' = FilesBefore(pos + 1)
        /\ ListRead' /\ TableRead'
    BY <1>1, <1>2, SameContainer DEF FilesBefore, ListRead, TableRead
  <1>6. /\ is_entry_a_file(table_list[pos]) = IsFile(pos) /\ IsFile(pos) \in BOOLEAN
        /\ Path(pos) = TheLines[pos].path
        /\ table_list[pos] = EntryOf(pos) /\ EntryOf(pos) \in DOMAIN Entries
    BY <1>2, <1>4, OfTable
  <1>7. CASE ~IsFile(pos)
    <2>1. handed' = handed /\ fp' = fp
      BY <1>6, <1>7 DEF psar_read_each_file, read_file_by_entry
    <2>2. FilesBefore(pos + 1) = FilesBefore(pos)
      BY <1>2, <1>3, <1>7 DEF FilesBefore
    <2> QED BY <1>1, <1>2, <1>4, <1>5, <2>1, <2>2, PsarFrame DEF PsarInv
  <1>8. CASE IsFile(pos)
    <2>1. read_file_by_entry(EntryOf(pos))
      BY <1>6, <1>8 DEF psar_read_each_file
    <2>2. wb1'.of = EntryOf(pos) /\ fp' \in Nat
      BY <1>2, <1>6, <2>1, ReadsEntry
    <2>3. Promised(pos) = [line |-> pos, path |-> Path(pos),
                           data |-> Expanded(IplEncrypted /\ Path(pos) = "ipl")]
      BY <1>6, <1>8, <2>2 DEF Promised, IsFile, Expanded
    <2>4. handed' = Append(handed, Promised(pos))
      BY <1>6, <1>8, <2>3 DEF psar_read_each_file
    <2>5. FilesBefore(pos) = {i \in DOMAIN TheLines : ComesBefore(i, pos)}
      <3>1. \A i \in DOMAIN TheLines : IsFile(i) \in BOOLEAN
        BY <1>2, OfTable
      <3>2. ASSUME NEW i \in DOMAIN TheLines
            PROVE  ComesBefore(i, pos) <=> ~IsFile(i) \/ i < pos
        <4>1. IsFile(pos) = TRUE /\ IsFile(i) \in BOOLEAN
          BY <1>4, <1>8, <3>1
        <4>2. ComesBefore(i, pos) = IF IsFile(i) = IsFile(pos) THEN i < pos ELSE IsFile(pos)
          BY DEF ComesBefore, IsFile
        <4> QED BY <4>1, <4>2
      <3> QED BY <3>2 DEF FilesBefore
    <2>6. /\ (handed \in Seq(HandedOver))' /\ HandedInOrder'
          /\ LinesHanded' = FilesBefore(pos) \cup {pos}
      BY <1>1, <1>2, <1>4, <2>4, <2>5, HandsOver
    <2>7. FilesBefore(pos + 1) = FilesBefore(pos) \cup {pos}
      BY <1>2, <1>3, <1>4, <1>8 DEF FilesBefore
    <2> QED BY <1>1, <1>2, <1>4, <1>5, <2>2, <2>6, <2>7 DEF PsarInv
  <1> QED BY <1>6, <1>7, <1>8

LEMMA PsarStarts == PsarInit => PsarInv
  <1> SUFFICES ASSUME PsarInit PROVE PsarInv
    OBVIOUS
  <1>1. HandedInOrder /\ handed \in Seq(HandedOver)
    BY DEF PsarInit, HandedInOrder
  <1> QED BY <1>1 DEF PsarInit, PsarInv

LEMMA PsarStep ==
  ASSUME PsarInv, [PsarNext]_psarvars
  PROVE  PsarInv'
  <1>1. CASE UNCHANGED psarvars
    <2>1. /\ container' = container /\ psar_pc' = psar_pc /\ fp' = fp /\ list' = list /\ pos' = pos
          /\ table_copy' = table_copy /\ table_list' = table_list /\ handed' = handed
      BY <1>1 DEF psarvars
    <2>2. /\ Entries' = Entries /\ Start' = Start /\ TheLines' = TheLines
          /\ \A k : DataAt(k)' = DataAt(k)
          /\ DirectoriesBefore(pos)' = DirectoriesBefore(pos) /\ FilesBefore(pos)' = FilesBefore(pos)
          /\ DataAt(pos)' = DataAt(pos)
      BY <2>1, SameContainer DEF DirectoriesBefore, FilesBefore, DataAt
    <2> QED BY <2>1, <2>2, PsarFrame DEF PsarInv
  <1>2. CASE PsarNext
    BY <1>2, PsarOpens, PsarReadsEntry, PsarBuildsTable, PsarTests, PsarBegins,
       PsarReadsEachDirectory, PsarReadsEachFile DEF PsarNext
  <1> QED BY <1>1, <1>2

(* PSAR reader: what the callbacks are given is what the container says,   *)
(* in its order, whatever was read through the same file position and work *)
(* buffers in between (psar_read_each_directory, psar_read_each_file).     *)
THEOREM CallbacksGetTheirs == PsarSpec => []DeliversEntries
  <1>1. PsarInv => DeliversEntries
    BY DEF PsarInv, DeliversEntries, HandedInOrder, LinesHanded
  <1> QED BY <1>1, PsarStarts, PsarStep, PTL DEF PsarSpec

-----------------------------------------------------------------------------
(* norfs.  The state: types, the headers of the blocks, and what the       *)
(* inodes count.                                                           *)
NorObject == [key : Keys, version : 0 .. VersionModulus - 1, value : Values \cup {Deleted}]
Inode == [location : Nat \X Nat, reference_count : Nat]
Flash == [NorBlocks -> [header : {"bad", "free", "started", "finished"}, objs : Seq(NorObject)]]
Opening == norfs_pc \in {"collect", "erased", "finish"}

NorfsTypeOK ==
  /\ blocks \in Flash
  /\ fs_mounted \in BOOLEAN
  /\ write_block \in NorBlocks
  /\ write_offset \in Nat
  /\ inodes \in [Keys -> Inode]
  /\ norfs_pc \in {"idle", "space", "open", "collect", "erased", "finish", "write", "broken"}
  /\ caller = "put" => putting \in NorObject
  /\ norfs_pc \in {"space", "write"} => caller = "put"
  /\ caller \in {"none", "put", "after_put", "mount"}
  /\ next_obj \in Nat
  /\ acked \in [Keys -> Values \cup {Deleted}]

(* The file system is mounted or being mounted, and its memory is good. *)
Active == norfs_pc # "broken" /\ (fs_mounted \/ norfs_pc # "idle")

(* What the header of each block is. *)
BlockStates ==
  /\ \A b \in NorBlocks : blocks[b].header \in {"bad", "free"} => blocks[b].objs = <<>>
  /\ Active =>
       /\ block_free = {b \in NorBlocks : blocks[b].header = "free"}
       /\ num_free_blocks = Cardinality(block_free)
       /\ Opening => blocks[write_block].header = "started"
       /\ \A b \in NorBlocks :
            blocks[b].header \in {"started", "bad"} =>
              \/ Opening /\ b = write_block
              \/ norfs_pc = "erased" /\ b = garbage_block
       /\ norfs_pc \in {"idle", "space", "write"} => blocks[write_block].header = "finished"
       /\ norfs_pc = "collect" =>
            /\ blocks[garbage_block].header = "finished"
            /\ next_obj \in 1 .. Len(blocks[garbage_block].objs) + 1
       /\ norfs_pc = "finish" /\ next_obj = 0 => blocks[write_block].objs = <<>>
       /\ norfs_pc = "erased" => next_obj > 0 /\ blocks[garbage_block].header = "bad"
       /\ norfs_pc \in {"idle", "space", "write", "finish"} /\ write_offset = BLOCK_UNITS
            => blocks[garbage_block].header = "free"

(* The blocks whose objects the inodes stand for, and the copies of k that *)
(* are counted: collect_block has passed some.                             *)
Kept == Finished \cup (IF Opening THEN {write_block} ELSE {})
Passed(l) == norfs_pc = "collect" /\ l[1] = garbage_block /\ l[2] < next_obj
Live == {l \in ObjectsIn(Kept) : ~Passed(l)}
Held(k) == {l \in Live : ObjAt(l).key = k}

Exact ==
  /\ IsFiniteSet(Live)
  /\ \A k \in Keys : inodes[k].reference_count = Cardinality(Held(k))
  /\ \A k \in Keys : HasInode(k) => inodes[k].location \in Held(k)
(* While a file system is mounted every inode counts what is held of its   *)
(* object and is at one of these copies.                                   *)
InodesExact == Active => Exact

NorfsBase == NorfsTypeOK /\ BlockStates /\ InodesExact

(* A mount reads l before m; l is newer than m. *)
ReadBefore(l, m) == l[1] < m[1] \/ (l[1] = m[1] /\ l[2] < m[2])
Newer(l, m) == VERSION_GREATER_THAN(ObjAt(l).version, ObjAt(m).version)
(* Reading C in order, a mount ends at n. *)
Wins(n, C) ==
  /\ n \in C
  /\ \A l \in C : /\ ReadBefore(l, n) => Newer(n, l)
                  /\ ~Newer(l, n)

(* n wins among C and is what k should be. *)
AtBest(C, k, n) == Wins(n, C) /\ ObjAt(n).value = acked[k]

(* What a mount would find and what the inodes say of k. *)
FlashOK(k) == (Copies(k) = {} /\ acked[k] = Deleted) \/ \E n : AtBest(Copies(k), k, n)
MemoryOK(k) == IF HasInode(k) THEN AtBest(Held(k), k, inodes[k].location) ELSE acked[k] = Deleted

FlashKeeps == Exposed \/ \A k \in Keys \ overtaken : FlashOK(k)
MemoryKeeps == Active => \A k \in Keys \ overtaken : MemoryOK(k)

(* The versions of an object's copies on the flash are within half the     *)
(* range of version numbers, which VERSION_GREATER_THAN needs to order     *)
(* them.                                                                   *)
VersionsNear ==
  \A k \in Keys : \E low \in 0 .. VersionModulus - 1 :
    \A l \in ObjectsIn(NorBlocks) :
      ObjAt(l).key = k => (ObjAt(l).version - low) % VersionModulus < VersionModulus \div 2
-----------------------------------------------------------------------------
(* Loops: what a recursive function over 0 .. N computes. *)

(* What holds before a loop and is kept by each round holds after all. *)
LEMMA Rounds ==
  ASSUME NEW N \in Nat, NEW T \in SUBSET (0 .. N), 0 \in T, \A i \in 1 .. N : i - 1 \in T => i \in T
  PROVE  T = 0 .. N
  <1> DEFINE M == (0 .. N) \ T
  <1>1. SUFFICES ASSUME M # {} PROVE FALSE
    OBVIOUS
  <1>2. PICK i \in M : \A j \in M : i <= j
    <2>1. M \in SUBSET Nat
      OBVIOUS
    <2> QED BY <1>1, <2>1, Least
  <1>3. i \in 1 .. N
    OBVIOUS
  <1>4. i - 1 \in 0 .. N /\ ~(i <= i - 1)
    BY <1>3
  <1>5. i - 1 \in T
    BY <1>2, <1>4
  <1> QED BY <1>3, <1>5

(* h has the values of a loop that begins with a and makes N steps. *)
IsRun(h, N, S, a, step) ==
  h \in [0 .. N -> S] /\ h[0] = a /\ \A i \in 1 .. N : h[i] = step[<<h[i - 1], i>>]

(* A loop has a value at every round. *)
LEMMA Recursion ==
  ASSUME NEW N \in Nat, NEW S, NEW a \in S, NEW step \in [S \X (1 .. N) -> S]
  PROVE  \E h : IsRun(h, N, S, a, step)
  <1> DEFINE Runs(h, n) == h \in [0 .. n -> S] /\ h[0] = a /\ \A i \in 1 .. n : h[i] = step[<<h[i - 1], i>>]
             T == {n \in 0 .. N : \E h : Runs(h, n)}
  <1>1. 0 \in T
    <2>1. Runs([i \in 0 .. 0 |-> a], 0)
      OBVIOUS
    <2>2. 0 \in 0 .. N
      OBVIOUS
    <2> HIDE DEF Runs
    <2> QED BY <2>1, <2>2
  <1>2. ASSUME NEW n \in 1 .. N, n - 1 \in T PROVE n \in T
    <2>1. PICK h : Runs(h, n - 1)
      BY <1>2
    <2>2. n - 1 \in 0 .. n - 1 /\ n - 1 \in Nat
      OBVIOUS
    <2>3. PICK x \in S : x = step[<<h[n - 1], n>>]
      <3>1. h[n - 1] \in S
        BY <2>1, <2>2
      <3> QED BY <3>1
    <2>4. PICK g : g = [i \in 0 .. n |-> IF i = n THEN x ELSE h[i]]
      OBVIOUS
    <2>5. \A i \in 0 .. n - 1 : g[i] = h[i] /\ h[i] \in S
      BY <2>1, <2>4
    <2>6. g \in [0 .. n -> S]
      <3>1. \A i \in 0 .. n : i = n \/ i \in 0 .. n - 1
        OBVIOUS
      <3>2. \A i \in 0 .. n : (IF i = n THEN x ELSE h[i]) \in S
        BY <2>5, <3>1
      <3> QED BY <2>4, <3>2
    <2>7. g[0] = a
      <3>1. 0 \in 0 .. n - 1
        OBVIOUS
      <3> QED BY <2>1, <2>5, <3>1
    <2>8. ASSUME NEW i \in 1 .. n PROVE g[i] = step[<<g[i - 1], i>>]
      <3>1. i - 1 \in 0 .. n - 1
        OBVIOUS
      <3>2. CASE i = n
        <4>1. g[n] = x /\ g[n - 1] = h[n - 1]
          BY <2>2, <2>4, <2>5
        <4> QED BY <2>3, <3>2, <4>1
      <3>3. CASE i # n
        <4>1. i \in 1 .. n - 1
          BY <3>3
        <4>2. g[i] = h[i] /\ g[i - 1] = h[i - 1]
          BY <2>5, <3>1, <4>1
        <4> QED BY <2>1, <4>1, <4>2
      <3> QED BY <3>2, <3>3
    <2>9. Runs(g, n)
      BY <2>6, <2>7, <2>8
    <2> QED BY <2>9
  <1>3. T = 0 .. N
    <2>1. T \in SUBSET (0 .. N)
      OBVIOUS
    <2> HIDE DEF T
    <2> QED BY <1>1, <1>2, <2>1, Rounds
  <1>4. N \in T
    BY <1>3
  <1> QED BY <1>4 DEF IsRun

-----------------------------------------------------------------------------
(* The index a mount builds. *)
Index == [inodes : [Keys -> Inode], space : Int]

(* The index goes from ix to iy as the object at l is read. *)
Reads(ix, iy, l) ==
  LET k == ObjAt(l).key IN
    /\ \A m \in Keys \ {k} : iy.inodes[m] = ix.inodes[m]
    /\ iy.inodes[k].reference_count = ix.inodes[k].reference_count + 1
    /\ iy.inodes[k].location =
         IF ix.inodes[k].reference_count = 0 \/ Newer(l, ix.inodes[k].location) THEN l
         ELSE ix.inodes[k].location

LEMMA NorConstants ==
  /\ NUM_BLOCKS \in Nat /\ NUM_BLOCKS > 1 /\ BLOCK_UNITS \in Nat /\ OBJ_OFFSET \in Nat /\ OBJ_OFFSET > 0
  /\ DATA_UNITS \in Nat /\ DATA_UNITS > 0 /\ AVAILABLE_SPACE \in Nat
  /\ VersionModulus \in Nat /\ VersionModulus > 0 /\ NorBlocks \subseteq Nat
  <1>1. /\ NUM_BLOCKS \in Nat /\ NUM_BLOCKS > 1 /\ BLOCK_UNITS \in Nat /\ OBJ_OFFSET \in Nat /\ OBJ_OFFSET > 0
        /\ VersionModulus \in Nat /\ VersionModulus > 0
    BY NorfsAssumption
  <1>2. DATA_UNITS \in OBJ_OFFSET + 1 .. BLOCK_UNITS \div 2
    BY NorfsAssumption
  <1>3. DATA_UNITS \in Nat /\ DATA_UNITS > 0
    BY <1>1, <1>2
  <1>4. NUM_BLOCKS * BLOCK_UNITS \in Nat
    BY <1>1
  <1>5. AVAILABLE_SPACE \in Nat
    <2>1. PICK n \in Nat : n = NUM_BLOCKS * BLOCK_UNITS
      BY <1>4
    <2>2. n \div 2 \in Nat
      OBVIOUS
    <2> QED BY <2>1, <2>2 DEF AVAILABLE_SPACE
  <1> QED BY <1>1, <1>3, <1>5 DEF NorBlocks

LEMMA UnitsNat ==
  ASSUME NEW o
  PROVE  Units(o) \in Nat /\ Units(o) > 0
  BY NorConstants DEF Units

LEMMA ObjectRead ==
  ASSUME NorfsTypeOK, NEW ix \in Index, NEW b \in NorBlocks, NEW j \in DOMAIN blocks[b].objs
  PROVE  /\ mount_next_obj(ix, <<b, j>>) \in Index
         /\ Reads(ix, mount_next_obj(ix, <<b, j>>), <<b, j>>)
  <1> DEFINE l == <<b, j>>
             o == ObjAt(l)
             i == ix.inodes[o.key]
             newer == VERSION_GREATER_THAN(o.version, ObjAt(i.location).version)
             iy == mount_next_obj(ix, l)
  <1>1. o \in NorObject /\ l \in Nat \X Nat
    BY NorConstants DEF NorfsTypeOK, Flash, ObjAt
  <1>2. o.key \in Keys
    BY <1>1 DEF NorObject
  <1>3. i \in Inode /\ ix.inodes \in [Keys -> Inode] /\ ix.space \in Int
    BY <1>2 DEF Index
  <1>4. i.reference_count \in Nat /\ i.location \in Nat \X Nat
    BY <1>3 DEF Inode
  <1>5. Units(o) \in Int /\ Units(ObjAt(i.location)) \in Int
    BY UnitsNat
  <1>6. PICK e \in Inode :
          e = [location |-> IF i.reference_count = 0 \/ newer THEN l ELSE i.location,
               reference_count |-> i.reference_count + 1]
    <2>1. PICK r \in Nat \X Nat : r = IF i.reference_count = 0 \/ newer THEN l ELSE i.location
      BY <1>1, <1>4
    <2>2. PICK n \in Nat : n = i.reference_count + 1
      BY <1>4
    <2>3. [location |-> r, reference_count |-> n] \in Inode
      BY DEF Inode
    <2> QED BY <2>1, <2>2, <2>3
  <1>7. iy.inodes = [ix.inodes EXCEPT ![o.key] = e] /\ iy.space \in Int
        /\ iy = [inodes |-> iy.inodes, space |-> iy.space]
    <2>1. CASE i.reference_count = 0
      <3>1. e = [location |-> l, reference_count |-> 1]
        BY <1>6, <2>1
      <3>2. iy = [inodes |-> [ix.inodes EXCEPT ![o.key] = [location |-> l, reference_count |-> 1]],
                  space |-> ix.space - Units(o)]
        BY <2>1 DEF mount_next_obj
      <3> QED BY <1>3, <1>5, <3>1, <3>2
    <2>2. CASE i.reference_count # 0
      <3>1. e = [location |-> IF newer THEN l ELSE i.location, reference_count |-> i.reference_count + 1]
        BY <1>6, <2>2
      <3>2. iy = [inodes |-> [ix.inodes EXCEPT ![o.key] =
                                [location |-> IF newer THEN l ELSE i.location,
                                 reference_count |-> i.reference_count + 1]],
                  space |-> IF newer THEN ix.space + Units(ObjAt(i.location)) - Units(o) ELSE ix.space]
        BY <2>2 DEF mount_next_obj
      <3> QED BY <1>3, <1>5, <3>1, <3>2
    <2> QED BY <2>1, <2>2
  <1>8. iy.inodes \in [Keys -> Inode] /\ iy.inodes[o.key] = e /\ \A m \in Keys \ {o.key} : iy.inodes[m] = ix.inodes[m]
    <2> HIDE DEF iy, i, o
    <2> QED BY <1>2, <1>3, <1>7
  <1>9. iy \in Index
    BY <1>7, <1>8 DEF Index
  <1>10. e.reference_count = i.reference_count + 1
         /\ e.location = IF i.reference_count = 0 \/ Newer(l, i.location) THEN l ELSE i.location
    BY <1>6 DEF Newer
  <1> QED BY <1>8, <1>9, <1>10 DEF Reads

LEMMA BlockRead ==
  ASSUME NorfsTypeOK, NEW ix \in Index, NEW b \in NorBlocks
  PROVE  \E h \in [0 .. Len(blocks[b].objs) -> Index] :
           /\ h[0] = ix
           /\ \A j \in 1 .. Len(blocks[b].objs) : Reads(h[j - 1], h[j], <<b, j>>)
           /\ mount_block(ix, b) = h[Len(blocks[b].objs)]
  <1>1. PICK N \in Nat : N = Len(blocks[b].objs) /\ DOMAIN blocks[b].objs = 1 .. N
    BY DEF NorfsTypeOK, Flash
  <1>2. PICK step : step = [x \in Index \X (1 .. N) |-> mount_next_obj(x[1], <<b, x[2]>>)]
    OBVIOUS
  <1>3. step \in [Index \X (1 .. N) -> Index]
    <2>1. \A x \in Index \X (1 .. N) : mount_next_obj(x[1], <<b, x[2]>>) \in Index
      BY <1>1, ObjectRead
    <2> QED BY <1>2, <2>1
  <1>4. PICK h \in [0 .. N -> Index] : h[0] = ix /\ \A i \in 1 .. N : h[i] = step[<<h[i - 1], i>>]
    <2>1. PICK S : S = Index
      OBVIOUS
    <2>2. ix \in S /\ step \in [S \X (1 .. N) -> S]
      BY <1>3, <2>1
    <2>3. \E g : IsRun(g, N, S, ix, step)
      BY <2>2, Recursion
    <2> QED BY <2>1, <2>3 DEF IsRun
  <1>5. ASSUME NEW j \in 1 .. N
        PROVE  h[j] = mount_next_obj(h[j - 1], <<b, j>>) /\ h[j - 1] \in Index
    <2>1. j - 1 \in 0 .. N
      OBVIOUS
    <2>2. h[j - 1] \in Index
      BY <2>1
    <2>3. <<h[j - 1], j>> \in Index \X (1 .. N)
      BY <2>2
    <2> QED BY <1>2, <1>4, <2>2, <2>3
  <1> DEFINE Rec(f) == [j \in 0 .. Len(blocks[b].objs) |->
                          IF j = 0 THEN ix ELSE mount_next_obj(f[j - 1], <<b, j>>)]
             read == CHOOSE f : f = Rec(f)
  <1>6. h = Rec(h)
    <2>1. \A j \in 0 .. N : h[j] = IF j = 0 THEN ix ELSE mount_next_obj(h[j - 1], <<b, j>>)
      <3> TAKE j \in 0 .. N
      <3>1. CASE j = 0
        BY <1>4, <3>1
      <3>2. CASE j # 0
        <4>1. j \in 1 .. N
          BY <3>2
        <4> QED BY <1>5, <3>2, <4>1
      <3> QED BY <3>1, <3>2
    <2> QED BY <1>1, <2>1
  <1>7. read = Rec(read)
    <2>1. \E f : f = Rec(f)
      BY <1>6
    <2> HIDE DEF Rec
    <2> QED BY <2>1
  <1>8. mount_block(ix, b) = read[Len(blocks[b].objs)]
    BY DEF mount_block
  <1> HIDE DEF read
  <1>9. read[0] = ix /\ \A j \in 1 .. N : read[j] = mount_next_obj(read[j - 1], <<b, j>>)
    <2>1. DOMAIN Rec(read) = 0 .. N /\ \A j \in 0 .. N : Rec(read)[j] = IF j = 0 THEN ix ELSE mount_next_obj(read[j - 1], <<b, j>>)
      BY <1>1
    <2>2. \A j \in 0 .. N : read[j] = IF j = 0 THEN ix ELSE mount_next_obj(read[j - 1], <<b, j>>)
      <3> HIDE DEF Rec
      <3> QED BY <1>7, <2>1
    <2>3. 0 \in 0 .. N /\ \A j \in 1 .. N : j \in 0 .. N /\ j # 0
      OBVIOUS
    <2> QED BY <2>2, <2>3
  <1>10. {j \in 0 .. N : read[j] = h[j]} = 0 .. N
    <2> DEFINE T == {j \in 0 .. N : read[j] = h[j]}
    <2>1. 0 \in T
      BY <1>4, <1>9
    <2>2. ASSUME NEW j \in 1 .. N, j - 1 \in T PROVE j \in T
      <3>1. read[j - 1] = h[j - 1]
        BY <2>2
      <3>2. read[j] = mount_next_obj(read[j - 1], <<b, j>>) /\ h[j] = mount_next_obj(h[j - 1], <<b, j>>)
        BY <1>5, <1>9
      <3>3. read[j] = h[j]
        BY <3>1, <3>2
      <3>4. j \in 0 .. N
        OBVIOUS
      <3> QED BY <3>3, <3>4
    <2>3. T \in SUBSET (0 .. N)
      OBVIOUS
    <2> HIDE DEF T
    <2>4. T = 0 .. N
      BY <2>1, <2>2, <2>3, Rounds
    <2> QED BY <2>4 DEF T
  <1>11. mount_block(ix, b) = h[N]
    BY <1>1, <1>8, <1>10
  <1>12. \A j \in 1 .. N : Reads(h[j - 1], h[j], <<b, j>>)
    BY <1>1, <1>5, ObjectRead
  <1> QED BY <1>1, <1>4, <1>11, <1>12

LEMMA EmptyIsIndex == EmptyIndex \in Index /\ NoInode \in Inode
  <1>1. <<0, 0>> \in Nat \X Nat /\ 0 \in Nat
    OBVIOUS
  <1>2. NoInode \in Inode
    BY <1>1 DEF NoInode, Inode
  <1> QED BY <1>2, NorConstants DEF EmptyIndex, Index

LEMMA BlocksRead ==
  ASSUME NorfsTypeOK
  PROVE  \E g \in [0 .. NUM_BLOCKS -> Index] :
           /\ g[0] = EmptyIndex
           /\ \A n \in 1 .. NUM_BLOCKS :
                g[n] = IF n - 1 \in Finished THEN mount_block(g[n - 1], n - 1) ELSE g[n - 1]
           /\ MountedIndex = g[NUM_BLOCKS]
  <1>1. PICK N \in Nat : N = NUM_BLOCKS
    BY NorConstants
  <1> DEFINE Adds(ix, n) == IF n - 1 \in Finished THEN mount_block(ix, n - 1) ELSE ix
  <1>2. PICK step : step = [x \in Index \X (1 .. N) |-> Adds(x[1], x[2])]
    OBVIOUS
  <1>3. ASSUME NEW ix \in Index, NEW n \in 1 .. N PROVE Adds(ix, n) \in Index
    <2>1. CASE n - 1 \in Finished
      <3>1. n - 1 \in NorBlocks
        BY <2>1 DEF Finished
      <3>2. PICK h \in [0 .. Len(blocks[n - 1].objs) -> Index] : mount_block(ix, n - 1) = h[Len(blocks[n - 1].objs)]
        BY <3>1, BlockRead
      <3>3. Len(blocks[n - 1].objs) \in 0 .. Len(blocks[n - 1].objs)
        BY <3>1 DEF NorfsTypeOK, Flash
      <3>4. mount_block(ix, n - 1) \in Index
        BY <3>2, <3>3
      <3> QED BY <2>1, <3>4
    <2> QED BY <2>1
  <1>4. step \in [Index \X (1 .. N) -> Index]
    <2>1. \A x \in Index \X (1 .. N) : Adds(x[1], x[2]) \in Index
      <3> HIDE DEF Adds
      <3> QED BY <1>3
    <2> HIDE DEF Adds
    <2> QED BY <1>2, <2>1
  <1>5. PICK h \in [0 .. N -> Index] : h[0] = EmptyIndex /\ \A i \in 1 .. N : h[i] = step[<<h[i - 1], i>>]
    <2>1. PICK S : S = Index
      OBVIOUS
    <2>2. EmptyIndex \in S /\ step \in [S \X (1 .. N) -> S]
      BY <1>4, <2>1, EmptyIsIndex
    <2>3. \E g : IsRun(g, N, S, EmptyIndex, step)
      BY <2>2, Recursion
    <2> QED BY <2>1, <2>3 DEF IsRun
  <1>6. ASSUME NEW n \in 1 .. N PROVE h[n] = Adds(h[n - 1], n)
    <2>1. n - 1 \in 0 .. N
      OBVIOUS
    <2>2. <<h[n - 1], n>> \in Index \X (1 .. N)
      BY <2>1
    <2> HIDE DEF Adds
    <2> QED BY <1>2, <1>5, <2>2
  <1> DEFINE Rec(f) == [n \in 0 .. NUM_BLOCKS |->
                          IF n = 0 THEN EmptyIndex
                          ELSE IF n - 1 \in Finished THEN mount_block(f[n - 1], n - 1) ELSE f[n - 1]]
             through == CHOOSE f : f = Rec(f)
  <1>7. h = Rec(h)
    <2>1. \A n \in 0 .. N : h[n] = IF n = 0 THEN EmptyIndex ELSE Adds(h[n - 1], n)
      <3> TAKE n \in 0 .. N
      <3>1. CASE n = 0
        BY <1>5, <3>1
      <3>2. CASE n # 0
        <4>1. n \in 1 .. N
          BY <3>2
        <4> HIDE DEF Adds
        <4> QED BY <1>6, <3>2, <4>1
      <3> QED BY <3>1, <3>2
    <2> QED BY <1>1, <2>1
  <1>8. through = Rec(through)
    <2>1. \E f : f = Rec(f)
      BY <1>7
    <2> HIDE DEF Rec
    <2> QED BY <2>1
  <1>9. MountedIndex = through[NUM_BLOCKS]
    BY DEF MountedIndex
  <1> HIDE DEF through
  <1>10. through[0] = EmptyIndex /\ \A n \in 1 .. N : through[n] = Adds(through[n - 1], n)
    <2>1. \A n \in 0 .. N : Rec(through)[n] = IF n = 0 THEN EmptyIndex ELSE Adds(through[n - 1], n)
      BY <1>1
    <2>2. \A n \in 0 .. N : through[n] = IF n = 0 THEN EmptyIndex ELSE Adds(through[n - 1], n)
      <3> HIDE DEF Rec, Adds
      <3> QED BY <1>8, <2>1
    <2>3. 0 \in 0 .. N /\ \A n \in 1 .. N : n \in 0 .. N /\ n # 0
      OBVIOUS
    <2> HIDE DEF Rec, Adds
    <2> QED BY <2>2, <2>3
  <1> HIDE DEF Rec, Adds
  <1>11. {n \in 0 .. N : through[n] = h[n]} = 0 .. N
    <2> DEFINE T == {n \in 0 .. N : through[n] = h[n]}
    <2>1. 0 \in T
      BY <1>5, <1>10
    <2>2. ASSUME NEW n \in 1 .. N, n - 1 \in T PROVE n \in T
      <3>1. through[n - 1] = h[n - 1]
        BY <2>2
      <3>2. through[n] = Adds(through[n - 1], n) /\ h[n] = Adds(h[n - 1], n)
        BY <1>6, <1>10
      <3>3. through[n] = h[n]
        BY <3>1, <3>2
      <3>4. n \in 0 .. N
        OBVIOUS
      <3> QED BY <3>3, <3>4
    <2>3. T \in SUBSET (0 .. N)
      OBVIOUS
    <2> HIDE DEF T
    <2>4. T = 0 .. N
      BY <2>1, <2>2, <2>3, Rounds
    <2> QED BY <2>4 DEF T
  <1>12. MountedIndex = h[N]
    BY <1>1, <1>9, <1>11
  <1> QED BY <1>1, <1>5, <1>6, <1>12 DEF Adds
-----------------------------------------------------------------------------
(* Versions. *)
LEMMA Offsets ==
  ASSUME NEW a \in 0 .. VersionModulus - 1, NEW b \in 0 .. VersionModulus - 1
  PROVE  /\ (a - b) % VersionModulus = IF a >= b THEN a - b ELSE a - b + VersionModulus
         /\ (a - b) % VersionModulus \in 0 .. VersionModulus - 1
  <1>1. (a - b) % VersionModulus = IF a >= b THEN a - b ELSE a - b + VersionModulus
    BY NorConstants
  <1> QED BY <1>1, NorConstants

LEMMA HalfModulus ==
  /\ VersionModulus \div 2 \in Nat /\ 2 * (VersionModulus \div 2) <= VersionModulus
  BY NorConstants

(* Versions within half the range from low are compared by their distance  *)
(* from low.                                                               *)
LEMMA ComparesFrom ==
  ASSUME NEW a \in 0 .. VersionModulus - 1, NEW b \in 0 .. VersionModulus - 1,
         NEW low \in 0 .. VersionModulus - 1,
         (a - low) % VersionModulus < VersionModulus \div 2,
         (b - low) % VersionModulus < VersionModulus \div 2
  PROVE  VERSION_GREATER_THAN(a, b) <=> (a - low) % VersionModulus > (b - low) % VersionModulus
  <1>1. PICK x \in Int : x = (a - low) % VersionModulus /\ x = IF a >= low THEN a - low ELSE a - low + VersionModulus
    BY Offsets, NorConstants
  <1>2. PICK y \in Int : y = (b - low) % VersionModulus /\ y = IF b >= low THEN b - low ELSE b - low + VersionModulus
    BY Offsets, NorConstants
  <1>3. PICK z \in Int : z = (a - b) % VersionModulus /\ z = IF a >= b THEN a - b ELSE a - b + VersionModulus
    BY Offsets, NorConstants
  <1>4. PICK H \in Nat : H = VersionModulus \div 2 /\ 2 * H <= VersionModulus
    BY HalfModulus
  <1>5. x < H /\ y < H
    BY <1>1, <1>2, <1>4
  <1>6. z \in 1 .. H - 1 <=> x > y
    BY <1>1, <1>2, <1>3, <1>4, <1>5, NorConstants
  <1> QED BY <1>1, <1>2, <1>3, <1>4, <1>6 DEF VERSION_GREATER_THAN

LEMMA NotBoth ==
  ASSUME NEW a \in 0 .. VersionModulus - 1, NEW b \in 0 .. VersionModulus - 1, VERSION_GREATER_THAN(a, b)
  PROVE  ~VERSION_GREATER_THAN(b, a)
  <1>1. PICK y \in Int : y = (b - a) % VersionModulus /\ y = IF b >= a THEN b - a ELSE b - a + VersionModulus
    BY Offsets, NorConstants
  <1>2. PICK z \in Int : z = (a - b) % VersionModulus /\ z = IF a >= b THEN a - b ELSE a - b + VersionModulus
    BY Offsets, NorConstants
  <1>3. PICK H \in Nat : H = VersionModulus \div 2 /\ 2 * H <= VersionModulus
    BY HalfModulus
  <1>4. z \in 1 .. H - 1
    BY <1>2, <1>3 DEF VERSION_GREATER_THAN
  <1>5. ~(y \in 1 .. H - 1)
    BY <1>1, <1>2, <1>3, <1>4, NorConstants
  <1> QED BY <1>1, <1>3, <1>5 DEF VERSION_GREATER_THAN

LEMMA NotItself ==
  ASSUME NEW a \in 0 .. VersionModulus - 1
  PROVE  ~VERSION_GREATER_THAN(a, a)
  <1>1. PICK y \in Int : y = (a - a) % VersionModulus /\ y = 0
    BY Offsets, NorConstants
  <1>2. ~(y \in 1 .. (VersionModulus \div 2) - 1)
    BY <1>1
  <1> QED BY <1>1, <1>2 DEF VERSION_GREATER_THAN

(* The next version is newer, if both are within half the range from low. *)
LEMMA NextVersion ==
  ASSUME NEW a \in 0 .. VersionModulus - 1
  PROVE  /\ (a + 1) % VersionModulus \in 0 .. VersionModulus - 1
         /\ \A low \in 0 .. VersionModulus - 1 :
              /\ (a - low) % VersionModulus < VersionModulus \div 2
              /\ (((a + 1) % VersionModulus) - low) % VersionModulus < VersionModulus \div 2
              => VERSION_GREATER_THAN((a + 1) % VersionModulus, a)
  <1>1. PICK c \in 0 .. VersionModulus - 1 :
          c = (a + 1) % VersionModulus /\ c = IF a + 1 < VersionModulus THEN a + 1 ELSE 0
    <2>1. (a + 1) % VersionModulus = IF a + 1 < VersionModulus THEN a + 1 ELSE 0
      BY NorConstants
    <2> QED BY <2>1, NorConstants
  <1>2. ASSUME NEW low \in 0 .. VersionModulus - 1,
               (a - low) % VersionModulus < VersionModulus \div 2,
               (c - low) % VersionModulus < VersionModulus \div 2
        PROVE  VERSION_GREATER_THAN(c, a)
    <2>1. PICK x \in Int : x = (a - low) % VersionModulus /\ x = IF a >= low THEN a - low ELSE a - low + VersionModulus
      BY Offsets, NorConstants
    <2>2. PICK y \in Int : y = (c - low) % VersionModulus /\ y = IF c >= low THEN c - low ELSE c - low + VersionModulus
      BY Offsets, NorConstants
    <2>3. PICK H \in Nat : H = VersionModulus \div 2 /\ 2 * H <= VersionModulus
      BY HalfModulus
    <2>4. x < H /\ y < H
      BY <1>2, <2>1, <2>2, <2>3
    <2>5. y > x
      BY <1>1, <2>1, <2>2, <2>3, <2>4, NorConstants
    <2> QED BY <1>2, <2>1, <2>2, <2>5, ComparesFrom
  <1> QED BY <1>1, <1>2
-----------------------------------------------------------------------------
(* The copies that a mount has read. *)
Of(C, k) == {l \in C : ObjAt(l).key = k}

(* The index counts the objects C, and every inode is at one of them; if   *)
(* their versions are near each other it is at the one that wins.          *)
Built(ix, C) ==
  /\ IsFiniteSet(C)
  /\ \A k \in Keys :
       /\ ix.inodes[k].reference_count = Cardinality(Of(C, k))
       /\ ix.inodes[k].reference_count > 0 => ix.inodes[k].location \in Of(C, k)
       /\ ix.inodes[k].reference_count > 0 /\ VersionsNear => Wins(ix.inodes[k].location, Of(C, k))

LEMMA InBlocks ==
  ASSUME NEW B, NEW l
  PROVE  l \in ObjectsIn(B) <=> \E b \in B : \E j \in DOMAIN blocks[b].objs : l = <<b, j>>
  BY DEF ObjectsIn

LEMMA ObjectIs ==
  ASSUME NorfsTypeOK, NEW l \in ObjectsIn(NorBlocks)
  PROVE  /\ ObjAt(l) \in NorObject
         /\ ObjAt(l).key \in Keys /\ ObjAt(l).version \in 0 .. VersionModulus - 1
         /\ ObjAt(l).value \in Values \cup {Deleted}
         /\ l[1] \in NorBlocks /\ l[1] \in Nat /\ l[2] \in Nat /\ l[2] > 0
         /\ l = <<l[1], l[2]>> /\ l \in Nat \X Nat
         /\ l[2] \in 1 .. Len(blocks[l[1]].objs)
  <1>1. PICK b \in NorBlocks : \E j \in DOMAIN blocks[b].objs : l = <<b, j>>
    BY InBlocks
  <1>0. PICK j \in DOMAIN blocks[b].objs : l = <<b, j>>
    BY <1>1
  <1>2. PICK N \in Nat : N = Len(blocks[b].objs) /\ DOMAIN blocks[b].objs = 1 .. N
    BY DEF NorfsTypeOK, Flash
  <1>3. ObjAt(l) \in NorObject
    BY <1>0 DEF NorfsTypeOK, Flash, ObjAt
  <1>4. b \in Nat /\ j \in Nat /\ j > 0
    BY <1>2, NorConstants
  <1>5. l[1] = b /\ l[2] = j
    BY <1>0
  <1>6. ObjAt(l).key \in Keys /\ ObjAt(l).version \in 0 .. VersionModulus - 1
        /\ ObjAt(l).value \in Values \cup {Deleted}
    BY <1>3 DEF NorObject
  <1> QED BY <1>0, <1>2, <1>3, <1>4, <1>5, <1>6

LEMMA ObjectsWithin ==
  ASSUME NEW B \in SUBSET NorBlocks
  PROVE  ObjectsIn(B) \subseteq ObjectsIn(NorBlocks)
  BY DEF ObjectsIn

(* One of the versions of k is not older than any other if they are near. *)
LEMMA NearOrder ==
  ASSUME NorfsTypeOK, VersionsNear, NEW k \in Keys
  PROVE  \E low \in 0 .. VersionModulus - 1 :
           \A l, m \in ObjectsIn(NorBlocks) :
             ObjAt(l).key = k /\ ObjAt(m).key = k =>
               /\ Newer(l, m) <=> (ObjAt(l).version - low) % VersionModulus > (ObjAt(m).version - low) % VersionModulus
               /\ (ObjAt(l).version - low) % VersionModulus \in Nat
               /\ (ObjAt(m).version - low) % VersionModulus \in Nat
  <1>1. PICK low \in 0 .. VersionModulus - 1 :
          \A l \in ObjectsIn(NorBlocks) :
            ObjAt(l).key = k => (ObjAt(l).version - low) % VersionModulus < VersionModulus \div 2
    BY DEF VersionsNear
  <1>2. ASSUME NEW l \in ObjectsIn(NorBlocks), NEW m \in ObjectsIn(NorBlocks),
               ObjAt(l).key = k, ObjAt(m).key = k
        PROVE  /\ Newer(l, m) <=> (ObjAt(l).version - low) % VersionModulus > (ObjAt(m).version - low) % VersionModulus
               /\ (ObjAt(l).version - low) % VersionModulus \in Nat
               /\ (ObjAt(m).version - low) % VersionModulus \in Nat
    <2>1. ObjAt(l).version \in 0 .. VersionModulus - 1 /\ ObjAt(m).version \in 0 .. VersionModulus - 1
      BY ObjectIs
    <2>2. /\ (ObjAt(l).version - low) % VersionModulus < VersionModulus \div 2
          /\ (ObjAt(m).version - low) % VersionModulus < VersionModulus \div 2
      BY <1>1, <1>2
    <2>3. Newer(l, m) <=> (ObjAt(l).version - low) % VersionModulus > (ObjAt(m).version - low) % VersionModulus
      BY <2>1, <2>2, ComparesFrom DEF Newer
    <2>4. (ObjAt(l).version - low) % VersionModulus \in 0 .. VersionModulus - 1
          /\ (ObjAt(m).version - low) % VersionModulus \in 0 .. VersionModulus - 1
      BY <2>1, Offsets
    <2>5. 0 .. VersionModulus - 1 \subseteq Nat
      OBVIOUS
    <2> QED BY <2>3, <2>4, <2>5
  <1> QED BY <1>2

(* Among near versions, "newer" is an order. *)
LEMMA NewerOrder ==
  ASSUME NorfsTypeOK, VersionsNear, NEW k \in Keys,
         NEW l \in ObjectsIn(NorBlocks), NEW m \in ObjectsIn(NorBlocks), NEW n \in ObjectsIn(NorBlocks),
         ObjAt(l).key = k, ObjAt(m).key = k, ObjAt(n).key = k
  PROVE  /\ ~Newer(l, l)
         /\ Newer(l, m) => ~Newer(m, l)
         /\ Newer(l, m) /\ ~Newer(n, m) => Newer(l, n)
         /\ ~Newer(l, m) /\ ~Newer(m, n) => ~Newer(l, n)
         /\ ~Newer(l, m) /\ Newer(n, m) => Newer(n, l)
  <1>1. PICK low \in 0 .. VersionModulus - 1 :
           \A r, s \in ObjectsIn(NorBlocks) :
             ObjAt(r).key = k /\ ObjAt(s).key = k =>
               /\ Newer(r, s) <=> (ObjAt(r).version - low) % VersionModulus > (ObjAt(s).version - low) % VersionModulus
               /\ (ObjAt(r).version - low) % VersionModulus \in Nat
               /\ (ObjAt(s).version - low) % VersionModulus \in Nat
    BY NearOrder
  <1>2. PICK x \in Nat : x = (ObjAt(l).version - low) % VersionModulus
    BY <1>1
  <1>3. PICK y \in Nat : y = (ObjAt(m).version - low) % VersionModulus
    BY <1>1
  <1>4. PICK z \in Nat : z = (ObjAt(n).version - low) % VersionModulus
    BY <1>1
  <1>5. /\ Newer(l, l) <=> x > x
        /\ Newer(l, m) <=> x > y
        /\ Newer(m, l) <=> y > x
        /\ Newer(n, m) <=> z > y
        /\ Newer(m, n) <=> y > z
        /\ Newer(l, n) <=> x > z
        /\ Newer(n, l) <=> z > x
    BY <1>1, <1>2, <1>3, <1>4
  <1> QED BY <1>5

(* A mount reads one more object. *)
LEMMA Reading ==
  ASSUME NorfsTypeOK, NEW ix \in Index, NEW iy \in Index, NEW C \in SUBSET ObjectsIn(NorBlocks),
         Built(ix, C), NEW l \in ObjectsIn(NorBlocks), \A m \in C : ReadBefore(m, l), Reads(ix, iy, l)
  PROVE  Built(iy, C \cup {l})
  <1>1. \A m \in ObjectsIn(NorBlocks) : m[1] \in Nat /\ m[2] \in Nat
    BY ObjectIs
  <1>2. ~ReadBefore(l, l) /\ \A m \in C : ~ReadBefore(l, m)
    BY <1>1 DEF ReadBefore
  <1>3. l \notin C
    BY <1>2
  <1>4. IsFiniteSet(C \cup {l})
    BY FS_AddElement DEF Built
  <1>5. ASSUME NEW k \in Keys
        PROVE  /\ iy.inodes[k].reference_count = Cardinality(Of(C \cup {l}, k))
               /\ iy.inodes[k].reference_count > 0 => iy.inodes[k].location \in Of(C \cup {l}, k)
               /\ iy.inodes[k].reference_count > 0 /\ VersionsNear => Wins(iy.inodes[k].location, Of(C \cup {l}, k))
    <2>1. CASE k # ObjAt(l).key
      <3>1. Of(C \cup {l}, k) = Of(C, k)
        BY <2>1 DEF Of
      <3>2. iy.inodes[k] = ix.inodes[k]
        BY <2>1 DEF Reads
      <3> QED BY <3>1, <3>2 DEF Built
    <2>2. CASE k = ObjAt(l).key
      <3> DEFINE D == Of(C, k)
                 n == ix.inodes[k].location
      <3>1. Of(C \cup {l}, k) = D \cup {l} /\ l \notin D /\ D \subseteq C
        BY <1>3, <2>2 DEF Of
      <3>2. ix.inodes[k].reference_count = Cardinality(D) /\ IsFiniteSet(D)
            /\ ix.inodes[k].reference_count \in Nat
        <4>1. ix.inodes[k].reference_count \in Nat
          BY DEF Index, Inode
        <4> QED BY <3>1, <4>1, FS_Subset DEF Built
      <3>3. Cardinality(D \cup {l}) = Cardinality(D) + 1
        BY <3>1, <3>2, FS_AddElement
      <3>4. /\ iy.inodes[k].reference_count = ix.inodes[k].reference_count + 1
            /\ iy.inodes[k].location = IF ix.inodes[k].reference_count = 0 \/ Newer(l, n) THEN l ELSE n
        BY <2>2 DEF Reads
      <3>5. ix.inodes[k].reference_count > 0 => n \in D
        BY DEF Built
      <3>6. iy.inodes[k].location \in D \cup {l}
        BY <3>2, <3>4, <3>5
      <3>7. ASSUME VersionsNear PROVE Wins(iy.inodes[k].location, D \cup {l})
        <4>1. \A m \in D \cup {l} : m \in ObjectsIn(NorBlocks) /\ ObjAt(m).key = k
          BY <2>2 DEF Of
        <4>2. ~Newer(l, l)
          BY <3>7, <4>1, NewerOrder
        <4>3. CASE ix.inodes[k].reference_count = 0
          <5>1. D = {}
            BY <3>2, <4>3, FS_EmptySet
          <5>2. iy.inodes[k].location = l
            BY <3>4, <4>3
          <5> QED BY <1>2, <4>2, <5>1, <5>2 DEF Wins
        <4>4. CASE ix.inodes[k].reference_count # 0 /\ Newer(l, n)
          <5>1. n \in D /\ Wins(n, D)
            BY <3>2, <3>5, <3>7, <4>4 DEF Built
          <5>2. iy.inodes[k].location = l
            BY <3>4, <4>4
          <5>3. ASSUME NEW m \in D PROVE Newer(l, m) /\ ~Newer(m, l)
            <6>1. ~Newer(m, n)
              BY <5>1 DEF Wins
            <6>2. m \in ObjectsIn(NorBlocks) /\ ObjAt(m).key = k /\ ObjAt(l).key = k
                  /\ n \in ObjectsIn(NorBlocks) /\ ObjAt(n).key = k
              BY <4>1, <5>1
            <6>3. Newer(l, m)
              BY <3>7, <4>4, <6>1, <6>2, NewerOrder
            <6>4. ~Newer(m, l)
              BY <3>7, <6>2, <6>3, NewerOrder
            <6> QED BY <6>3, <6>4
          <5> QED BY <1>2, <4>2, <5>2, <5>3 DEF Wins
        <4>5. CASE ix.inodes[k].reference_count # 0 /\ ~Newer(l, n)
          <5>1. n \in D /\ Wins(n, D)
            BY <3>2, <3>5, <3>7, <4>5 DEF Built
          <5>2. iy.inodes[k].location = n
            BY <3>4, <4>5
          <5>3. ~ReadBefore(l, n)
            BY <1>2, <3>1, <5>1
          <5> QED BY <4>5, <5>1, <5>2, <5>3 DEF Wins
        <4> QED BY <4>3, <4>4, <4>5
      <3> HIDE DEF D, n
      <3> QED BY <3>1, <3>2, <3>3, <3>4, <3>6, <3>7
    <2> QED BY <2>1, <2>2
  <1> QED BY <1>4, <1>5 DEF Built

(* The objects that a mount has read when it has read j objects of block b. *)
ReadUpTo(b, j) == {l \in ObjectsIn(Finished) : l[1] < b \/ (l[1] = b /\ l[2] <= j)}

(* A mount reads one more block. *)
LEMMA ReadingBlock ==
  ASSUME NorfsTypeOK, NEW ix \in Index, NEW b \in Finished, Built(ix, ReadUpTo(b, 0))
  PROVE  /\ mount_block(ix, b) \in Index
         /\ Built(mount_block(ix, b), ReadUpTo(b, Len(blocks[b].objs)))
  <1>1. b \in NorBlocks /\ b \in Nat /\ Finished \subseteq NorBlocks
    BY NorConstants DEF Finished
  <1>2. PICK N \in Nat : N = Len(blocks[b].objs) /\ DOMAIN blocks[b].objs = 1 .. N
    BY <1>1 DEF NorfsTypeOK, Flash
  <1>3. PICK h \in [0 .. N -> Index] :
           /\ h[0] = ix
           /\ \A j \in 1 .. N : Reads(h[j - 1], h[j], <<b, j>>)
           /\ mount_block(ix, b) = h[N]
    BY <1>1, <1>2, BlockRead
  <1> DEFINE T == {j \in 0 .. N : Built(h[j], ReadUpTo(b, j))}
  <1>4. 0 \in T
    BY <1>3
  <1>5. ASSUME NEW j \in 1 .. N, j - 1 \in T PROVE j \in T
    <2>1. h[j - 1] \in Index /\ h[j] \in Index /\ j \in 0 .. N
      <3>1. j - 1 \in 0 .. N /\ j \in 0 .. N
        OBVIOUS
      <3> QED BY <3>1
    <2>2. <<b, j>> \in ObjectsIn(Finished)
      BY <1>1, <1>2, InBlocks
    <2>3. \A l \in ObjectsIn(Finished) : l \in ObjectsIn(NorBlocks) /\ l[1] \in Nat /\ l[2] \in Nat /\ l = <<l[1], l[2]>>
      <3>1. \A l \in ObjectsIn(Finished) : l \in ObjectsIn(NorBlocks)
        BY <1>1, ObjectsWithin
      <3> QED BY <3>1, ObjectIs
    <2>4. ReadUpTo(b, j) = ReadUpTo(b, j - 1) \cup {<<b, j>>}
      <3>1. ASSUME NEW l \in ObjectsIn(Finished)
            PROVE  (l[1] < b \/ (l[1] = b /\ l[2] <= j)) <=> (l[1] < b \/ (l[1] = b /\ l[2] <= j - 1)) \/ l = <<b, j>>
        <4>1. l[1] \in Nat /\ l[2] \in Nat /\ l = <<l[1], l[2]>>
          BY <2>3
        <4>2. l = <<b, j>> <=> l[1] = b /\ l[2] = j
          BY <4>1
        <4> QED BY <1>1, <4>1, <4>2
      <3> QED BY <2>2, <3>1 DEF ReadUpTo
    <2>5. \A m \in ReadUpTo(b, j - 1) : ReadBefore(m, <<b, j>>)
      <3> TAKE m \in ReadUpTo(b, j - 1)
      <3>1. m[1] \in Nat /\ m[2] \in Nat /\ (m[1] < b \/ (m[1] = b /\ m[2] <= j - 1))
        BY <2>3 DEF ReadUpTo
      <3>2. m[1] < b \/ (m[1] = b /\ m[2] < j)
        BY <3>1
      <3> QED BY <3>2 DEF ReadBefore
    <2>6. ReadUpTo(b, j - 1) \in SUBSET ObjectsIn(NorBlocks)
      BY <2>3 DEF ReadUpTo
    <2>7. Built(h[j - 1], ReadUpTo(b, j - 1))
      BY <1>5
    <2>8. Built(h[j], ReadUpTo(b, j - 1) \cup {<<b, j>>})
      BY <1>3, <2>1, <2>2, <2>3, <2>5, <2>6, <2>7, Reading
    <2> QED BY <2>1, <2>4, <2>8
  <1>6. T = 0 .. N
    <2>1. T \in SUBSET (0 .. N)
      OBVIOUS
    <2> HIDE DEF T
    <2> QED BY <1>4, <1>5, <2>1, Rounds
  <1>7. N \in 0 .. N /\ N \in T
    BY <1>6
  <1> QED BY <1>2, <1>3, <1>7

(* What a mount has built when it has read the flash. *)
LEMMA MountBuilds ==
  ASSUME NorfsTypeOK
  PROVE  MountedIndex \in Index /\ Built(MountedIndex, ObjectsIn(Finished))
  <1>1. PICK N \in Nat : N = NUM_BLOCKS
    BY NorConstants
  <1>2. PICK g \in [0 .. N -> Index] :
           /\ g[0] = EmptyIndex
           /\ \A n \in 1 .. N : g[n] = IF n - 1 \in Finished THEN mount_block(g[n - 1], n - 1) ELSE g[n - 1]
           /\ MountedIndex = g[N]
    BY <1>1, BlocksRead
  <1>3. \A l \in ObjectsIn(Finished) : l \in ObjectsIn(NorBlocks) /\ l[1] \in Finished /\ l[1] \in 0 .. N - 1
                                       /\ l[2] \in 1 .. Len(blocks[l[1]].objs) /\ Len(blocks[l[1]].objs) \in Nat
    <2>1. \A l \in ObjectsIn(Finished) : l \in ObjectsIn(NorBlocks) /\ l[1] \in Finished
      BY ObjectsWithin, InBlocks DEF Finished
    <2>2. \A b \in NorBlocks : Len(blocks[b].objs) \in Nat
      BY DEF NorfsTypeOK, Flash
    <2> QED BY <1>1, <2>1, <2>2, ObjectIs DEF NorBlocks
  <1> DEFINE T == {n \in 0 .. N : Built(g[n], ReadUpTo(n, 0))}
  <1>4. 0 \in T
    <2>1. ReadUpTo(0, 0) = {}
      BY <1>3 DEF ReadUpTo
    <2>2. ASSUME NEW k \in Keys PROVE EmptyIndex.inodes[k].reference_count = Cardinality(Of({}, k))
                                      /\ EmptyIndex.inodes[k].reference_count = 0
      <3>1. Of({}, k) = {}
        BY DEF Of
      <3>2. EmptyIndex.inodes[k].reference_count = 0
        BY DEF EmptyIndex, NoInode
      <3> QED BY <3>1, <3>2, FS_EmptySet
    <2>3. Built(EmptyIndex, {})
      BY <2>2, FS_EmptySet DEF Built
    <2>4. Built(g[0], ReadUpTo(0, 0))
      BY <1>2, <2>1, <2>3
    <2>5. 0 \in 0 .. N
      OBVIOUS
    <2> QED BY <2>4, <2>5
  <1>5. ASSUME NEW n \in 1 .. N, n - 1 \in T PROVE n \in T
    <2>1. n - 1 \in 0 .. N /\ n \in 0 .. N /\ n - 1 \in Int
      OBVIOUS
    <2>2. g[n - 1] \in Index /\ Built(g[n - 1], ReadUpTo(n - 1, 0))
      BY <1>5, <2>1
    <2>3. CASE n - 1 \in Finished
      <3>1. g[n] = mount_block(g[n - 1], n - 1)
        BY <1>2, <2>3
      <3>2. Built(g[n], ReadUpTo(n - 1, Len(blocks[n - 1].objs)))
        <4>1. PICK b \in Finished : b = n - 1
          BY <2>3
        <4>2. PICK ix \in Index : ix = g[n - 1]
          BY <2>2
        <4>3. Built(mount_block(ix, b), ReadUpTo(b, Len(blocks[b].objs)))
          BY <2>2, <4>1, <4>2, ReadingBlock
        <4> QED BY <3>1, <4>1, <4>2, <4>3
      <3>3. ReadUpTo(n - 1, Len(blocks[n - 1].objs)) = ReadUpTo(n, 0)
        <4>1. ASSUME NEW l \in ObjectsIn(Finished)
              PROVE  (l[1] < n - 1 \/ (l[1] = n - 1 /\ l[2] <= Len(blocks[n - 1].objs))) <=> (l[1] < n \/ (l[1] = n /\ l[2] <= 0))
          <5>1. PICK x \in Nat, y \in Nat, z \in Nat : x = l[1] /\ y = l[2] /\ z = Len(blocks[l[1]].objs) /\ y >= 1 /\ y <= z
            BY <1>3
          <5>2. x < n <=> x < n - 1 \/ x = n - 1
            BY <2>1
          <5>3. x = n - 1 => z = Len(blocks[n - 1].objs)
            BY <5>1
          <5>4. ~(y <= 0) /\ y <= z
            BY <5>1
          <5> QED BY <5>1, <5>2, <5>3, <5>4
        <4> QED BY <4>1 DEF ReadUpTo
      <3> QED BY <2>1, <3>2, <3>3
    <2>4. CASE n - 1 \notin Finished
      <3>1. g[n] = g[n - 1]
        BY <1>2, <2>4
      <3>2. ReadUpTo(n - 1, 0) = ReadUpTo(n, 0)
        <4>1. ASSUME NEW l \in ObjectsIn(Finished)
              PROVE  (l[1] < n - 1 \/ (l[1] = n - 1 /\ l[2] <= 0)) <=> (l[1] < n \/ (l[1] = n /\ l[2] <= 0))
          <5>1. PICK x \in Nat, y \in Nat : x = l[1] /\ y = l[2] /\ y >= 1
            BY <1>3
          <5>2. x # n - 1
            BY <1>3, <2>4, <5>1
          <5>3. x < n <=> x < n - 1
            BY <2>1, <5>2
          <5>4. ~(y <= 0)
            BY <5>1
          <5> QED BY <5>1, <5>3, <5>4
        <4> QED BY <4>1 DEF ReadUpTo
      <3> QED BY <2>1, <2>2, <3>1, <3>2
    <2> QED BY <2>3, <2>4
  <1>6. T = 0 .. N
    <2>1. T \in SUBSET (0 .. N)
      OBVIOUS
    <2> HIDE DEF T
    <2> QED BY <1>4, <1>5, <2>1, Rounds
  <1>7. N \in 0 .. N /\ N \in T
    BY <1>6
  <1>8. ReadUpTo(N, 0) = ObjectsIn(Finished)
    <2>1. \A l \in ObjectsIn(Finished) : l[1] < N
      BY <1>3
    <2> QED BY <2>1 DEF ReadUpTo
  <1> QED BY <1>2, <1>7, <1>8
-----------------------------------------------------------------------------
(* The flash. *)
Headers == {"bad", "free", "started", "finished"}

LEMMA FlashIs ==
  ASSUME NEW bl \in Flash, NEW b \in NorBlocks
  PROVE  /\ bl[b] \in [header : Headers, objs : Seq(NorObject)]
         /\ bl[b] = [header |-> bl[b].header, objs |-> bl[b].objs]
         /\ bl[b].header \in Headers /\ bl[b].objs \in Seq(NorObject) /\ Len(bl[b].objs) \in Nat
         /\ DOMAIN bl[b].objs = 1 .. Len(bl[b].objs)
         /\ \A j \in 1 .. Len(bl[b].objs) : bl[b].objs[j] \in NorObject
  <1>1. bl[b] \in [header : Headers, objs : Seq(NorObject)]
    BY DEF Flash, Headers
  <1>2. bl[b].header \in Headers /\ bl[b].objs \in Seq(NorObject) /\ bl[b] = [header |-> bl[b].header, objs |-> bl[b].objs]
    BY <1>1
  <1>3. PICK s \in Seq(NorObject) : s = bl[b].objs
    BY <1>2
  <1>4. Len(s) \in Nat /\ DOMAIN s = 1 .. Len(s) /\ \A j \in 1 .. Len(s) : s[j] \in NorObject
    OBVIOUS
  <1> QED BY <1>1, <1>2, <1>3, <1>4

(* Block w is erased or gets a new header, or object o is written to it. *)
Erased(bl, w, h) == [bl EXCEPT ![w] = Empty(h)]
Marked(bl, w, h) == [bl EXCEPT ![w].header = h]
Written(bl, w, o) == [bl EXCEPT ![w].objs = Append(@, o)]

LEMMA Erasing ==
  ASSUME NEW bl \in Flash, NEW w \in NorBlocks, NEW h \in Headers, NEW bm, bm = Erased(bl, w, h)
  PROVE  /\ bm \in Flash
         /\ bm[w].header = h /\ bm[w].objs = <<>> /\ Len(bm[w].objs) = 0
         /\ \A b \in NorBlocks \ {w} : bm[b] = bl[b]
  <1>1. PICK e : e = Empty(h)
    OBVIOUS
  <1>2. e.header = h /\ e.objs = <<>> /\ e \in [header : Headers, objs : Seq(NorObject)]
    BY <1>1 DEF Empty
  <1>3. bm \in [NorBlocks -> [header : Headers, objs : Seq(NorObject)]]
        /\ bm[w] = e /\ \A b \in NorBlocks \ {w} : bm[b] = bl[b]
    BY <1>1, <1>2 DEF Flash, Headers, Erased
  <1> QED BY <1>2, <1>3 DEF Flash, Headers

(* Block w gets a new header and keeps its objects. *)
LEMMA Marking ==
  ASSUME NEW bl \in Flash, NEW w \in NorBlocks, NEW h \in Headers, NEW bm, bm = Marked(bl, w, h)
  PROVE  /\ bm \in Flash
         /\ bm[w].header = h /\ bm[w].objs = bl[w].objs
         /\ \A b \in NorBlocks \ {w} : bm[b] = bl[b]
  <1>1. PICK e : e = [bl[w] EXCEPT !.header = h]
    OBVIOUS
  <1>2. e.header = h /\ e.objs = bl[w].objs /\ e \in [header : Headers, objs : Seq(NorObject)]
    BY <1>1, FlashIs
  <1>3. bm = [bl EXCEPT ![w] = e]
    BY <1>1 DEF Marked
  <1>4. bm \in [NorBlocks -> [header : Headers, objs : Seq(NorObject)]]
        /\ bm[w] = e /\ \A b \in NorBlocks \ {w} : bm[b] = bl[b]
    BY <1>2, <1>3 DEF Flash, Headers
  <1> QED BY <1>2, <1>4 DEF Flash, Headers

(* Object o is written behind the others of block w. *)
LEMMA Appending ==
  ASSUME NEW bl \in Flash, NEW w \in NorBlocks, NEW o \in NorObject, NEW bm, bm = Written(bl, w, o)
  PROVE  /\ bm \in Flash
         /\ \A b \in NorBlocks : bm[b].header = bl[b].header
         /\ \A b \in NorBlocks \ {w} : bm[b] = bl[b]
         /\ Len(bm[w].objs) = Len(bl[w].objs) + 1
         /\ bm[w].objs[Len(bl[w].objs) + 1] = o
         /\ \A j \in 1 .. Len(bl[w].objs) : bm[w].objs[j] = bl[w].objs[j]
  <1>1. PICK s \in Seq(NorObject) : s = bl[w].objs
    BY FlashIs
  <1>2. PICK t \in Seq(NorObject) : t = Append(s, o)
    BY AppendProperties
  <1>3. Len(t) = Len(s) + 1 /\ t[Len(s) + 1] = o /\ \A j \in 1 .. Len(s) : t[j] = s[j]
    BY <1>2, AppendProperties
  <1>4. PICK e : e = [bl[w] EXCEPT !.objs = t]
    OBVIOUS
  <1>5. e.header = bl[w].header /\ e.objs = t /\ e \in [header : Headers, objs : Seq(NorObject)]
    BY <1>4, FlashIs
  <1>6. bm = [bl EXCEPT ![w] = e]
    BY <1>1, <1>2, <1>4 DEF Written
  <1>7. bm \in [NorBlocks -> [header : Headers, objs : Seq(NorObject)]]
        /\ bm[w] = e /\ \A b \in NorBlocks \ {w} : bm[b] = bl[b]
    BY <1>5, <1>6 DEF Flash, Headers
  <1>8. \A b \in NorBlocks : bm[b].header = bl[b].header
    BY <1>5, <1>7
  <1> QED BY <1>1, <1>3, <1>5, <1>7, <1>8 DEF Flash, Headers

(* The places of the objects in the blocks B of flash bl. *)
PlacesOf(bl, B) == UNION {{<<b, j>> : j \in DOMAIN bl[b].objs} : b \in B}

LEMMA PlacesIs ==
  ASSUME NEW bl \in Flash, NEW B \in SUBSET NorBlocks, NEW l
  PROVE  l \in PlacesOf(bl, B) <=>
           l \in Nat \X Nat /\ l[1] \in B /\ l[2] \in 1 .. Len(bl[l[1]].objs)
  <1>1. ASSUME l \in PlacesOf(bl, B)
        PROVE  l \in Nat \X Nat /\ l[1] \in B /\ l[2] \in 1 .. Len(bl[l[1]].objs)
    <2>1. PICK b \in B : \E j \in DOMAIN bl[b].objs : l = <<b, j>>
      BY <1>1 DEF PlacesOf
    <2>2. PICK j \in DOMAIN bl[b].objs : l = <<b, j>>
      BY <2>1
    <2>3. b \in NorBlocks /\ b \in Nat
      BY NorConstants
    <2>4. DOMAIN bl[b].objs = 1 .. Len(bl[b].objs) /\ Len(bl[b].objs) \in Nat
      BY <2>3, FlashIs
    <2>5. j \in Nat
      BY <2>4
    <2> QED BY <2>2, <2>3, <2>4, <2>5
  <1>2. ASSUME l \in Nat \X Nat, l[1] \in B, l[2] \in 1 .. Len(bl[l[1]].objs)
        PROVE  l \in PlacesOf(bl, B)
    <2>1. PICK b \in B, j \in Nat : b = l[1] /\ j = l[2] /\ l = <<b, j>>
      BY <1>2
    <2>2. j \in DOMAIN bl[b].objs
      BY <1>2, <2>1, FlashIs
    <2> QED BY <2>1, <2>2 DEF PlacesOf
  <1> QED BY <1>1, <1>2

LEMMA KeptBlocks ==
  ASSUME NorfsTypeOK
  PROVE  /\ Kept \in SUBSET NorBlocks /\ Finished \in SUBSET NorBlocks
         /\ \A b \in NorBlocks : b \in Kept <=> blocks[b].header = "finished" \/ (Opening /\ b = write_block)
  BY DEF Kept, Finished, NorfsTypeOK

LEMMA KeptBlocksThen ==
  ASSUME NorfsTypeOK'
  PROVE  /\ Kept' \in SUBSET NorBlocks /\ Finished' \in SUBSET NorBlocks
         /\ \A b \in NorBlocks : b \in Kept' <=> blocks'[b].header = "finished" \/ (Opening' /\ b = write_block')
  BY DEF Kept, Finished, NorfsTypeOK

LEMMA LiveIs ==
  ASSUME NorfsTypeOK, NEW l
  PROVE  /\ l \in Live <=> /\ l \in Nat \X Nat /\ l[1] \in Kept /\ l[2] \in 1 .. Len(blocks[l[1]].objs)
                           /\ ~Passed(l)
         /\ l \in ObjectsIn(Finished) <=>
              l \in Nat \X Nat /\ l[1] \in Finished /\ l[2] \in 1 .. Len(blocks[l[1]].objs)
  <1>1. ObjectsIn(Kept) = PlacesOf(blocks, Kept) /\ ObjectsIn(Finished) = PlacesOf(blocks, Finished)
    BY DEF ObjectsIn, PlacesOf
  <1>2. blocks \in Flash
    BY DEF NorfsTypeOK
  <1>3. l \in PlacesOf(blocks, Kept) <=>
          l \in Nat \X Nat /\ l[1] \in Kept /\ l[2] \in 1 .. Len(blocks[l[1]].objs)
    BY <1>2, KeptBlocks, PlacesIs
  <1>4. l \in PlacesOf(blocks, Finished) <=>
          l \in Nat \X Nat /\ l[1] \in Finished /\ l[2] \in 1 .. Len(blocks[l[1]].objs)
    BY <1>2, KeptBlocks, PlacesIs
  <1> QED BY <1>1, <1>3, <1>4 DEF Live

LEMMA LiveIsThen ==
  ASSUME NorfsTypeOK', NEW l
  PROVE  /\ l \in Live' <=> /\ l \in Nat \X Nat /\ l[1] \in Kept' /\ l[2] \in 1 .. Len(blocks'[l[1]].objs)
                            /\ ~Passed(l)'
         /\ l \in ObjectsIn(Finished)' <=>
              l \in Nat \X Nat /\ l[1] \in Finished' /\ l[2] \in 1 .. Len(blocks'[l[1]].objs)
  <1>1. ObjectsIn(Kept)' = PlacesOf(blocks', Kept') /\ ObjectsIn(Finished)' = PlacesOf(blocks', Finished')
    BY DEF ObjectsIn, PlacesOf
  <1>2. blocks' \in Flash
    BY DEF NorfsTypeOK
  <1>3. l \in PlacesOf(blocks', Kept') <=>
          l \in Nat \X Nat /\ l[1] \in Kept' /\ l[2] \in 1 .. Len(blocks'[l[1]].objs)
    BY <1>2, KeptBlocksThen, PlacesIs
  <1>4. l \in PlacesOf(blocks', Finished') <=>
          l \in Nat \X Nat /\ l[1] \in Finished' /\ l[2] \in 1 .. Len(blocks'[l[1]].objs)
    BY <1>2, KeptBlocksThen, PlacesIs
  <1> QED BY <1>1, <1>3, <1>4 DEF Live

(* What is live is on the flash. *)
LEMMA LiveObject ==
  ASSUME NorfsTypeOK, NEW l \in Live
  PROVE  l \in ObjectsIn(NorBlocks)
  BY KeptBlocks, ObjectsWithin DEF Live
-----------------------------------------------------------------------------
(* Types. *)
LEMMA Garbage ==
  ASSUME NEW w \in NorBlocks
  PROVE  select_garbage_block(w) \in NorBlocks /\ select_garbage_block(w) # w
  <1>1. PICK N \in Nat : N = NUM_BLOCKS /\ N > 1
    BY NorConstants
  <1>2. w \in 0 .. N - 1
    BY <1>1 DEF NorBlocks
  <1>3. (w + 1) % N = IF w + 1 = N THEN 0 ELSE w + 1
    BY <1>1, <1>2
  <1>4. (w + 1) % N \in 0 .. N - 1 /\ (w + 1) % N # w
    BY <1>1, <1>2, <1>3
  <1> QED BY <1>1, <1>4 DEF select_garbage_block, NorBlocks

LEMMA NextFreeIs ==
  ASSUME NEW b \in Nat, b <= NUM_BLOCKS, block_free \subseteq NorBlocks, block_free # {}
  PROVE  NextFree(b) \in block_free
  <1>1. PICK N \in Nat : N = NUM_BLOCKS /\ N > 1
    BY NorConstants
  <1>2. PICK x \in block_free : x \in 0 .. N - 1
    BY <1>1 DEF NorBlocks
  <1>3. PICK j \in 1 .. N : (b + j) % N = x
    <2>1. b \in 0 .. N
      BY <1>1
    <2>2. x % N = x /\ (x + N) % N = x /\ (N + N) % N = 0
      <3>1. x % N = x
        BY <1>1, <1>2
      <3>2. (x + N) % N = x
        BY <1>1, <1>2
      <3>3. (N + N) % N = 0
        BY <1>1
      <3> QED BY <3>1, <3>2, <3>3
    <2>3. CASE b = N /\ x = 0
      BY <1>1, <2>2, <2>3
    <2>4. CASE b = N /\ x # 0
      <3>1. x \in 1 .. N /\ N + x = x + N
        BY <1>2, <2>4
      <3> QED BY <2>2, <2>4, <3>1
    <2>5. CASE b < N /\ x > b
      <3>1. x - b \in 1 .. N /\ b + (x - b) = x
        BY <1>2, <2>1, <2>5
      <3> QED BY <2>2, <3>1
    <2>6. CASE b < N /\ x <= b
      <3>1. x - b + N \in 1 .. N /\ b + (x - b + N) = x + N
        BY <1>2, <2>1, <2>6
      <3> QED BY <2>2, <3>1
    <2> QED BY <1>2, <2>1, <2>3, <2>4, <2>5, <2>6
  <1> DEFINE steps == {i \in 1 .. NUM_BLOCKS : (b + i) % NUM_BLOCKS \in block_free}
  <1>4. j \in steps /\ steps \in SUBSET Nat
    BY <1>1, <1>3
  <1>5. \E i \in steps : \A l \in steps : i <= l
    <2> HIDE DEF steps
    <2> QED BY <1>4, Least
  <1>6. (CHOOSE i \in steps : \A l \in steps : i <= l) \in steps
    <2> HIDE DEF steps
    <2> QED BY <1>5
  <1> QED BY <1>6 DEF NextFree

LEMMA WriteBlockNum ==
  ASSUME NorfsTypeOK
  PROVE  write_block_num \in Nat /\ write_block_num <= NUM_BLOCKS
  BY NorConstants DEF NorfsTypeOK, write_block_num, NorBlocks

LEMMA BlocksFinite == IsFiniteSet(NorBlocks)
  <1>1. NUM_BLOCKS - 1 \in Int
    BY NorConstants
  <1> QED BY <1>1, FS_Interval DEF NorBlocks

(* The object of an inode. *)
LEMMA LatestIs ==
  ASSUME NorfsBase, Active, NEW k \in Keys, HasInode(k)
  PROVE  /\ inodes[k].location \in Live /\ inodes[k].location \in ObjectsIn(NorBlocks)
         /\ Latest(k) \in NorObject /\ Latest(k).key = k
         /\ Latest(k).version \in 0 .. VersionModulus - 1
         /\ Latest(k).value \in Values \cup {Deleted}
  <1>1. PICK l : l = inodes[k].location
    OBVIOUS
  <1>2. l \in Live /\ ObjAt(l).key = k
    BY <1>1 DEF NorfsBase, InodesExact, Exact, Held
  <1>3. NorfsTypeOK
    BY DEF NorfsBase
  <1>4. l \in ObjectsIn(NorBlocks)
    BY <1>2, <1>3, LiveObject
  <1>5. /\ ObjAt(l) \in NorObject /\ ObjAt(l).version \in 0 .. VersionModulus - 1
        /\ ObjAt(l).value \in Values \cup {Deleted}
    BY <1>3, <1>4, ObjectIs
  <1> QED BY <1>1, <1>2, <1>4, <1>5 DEF Latest

LEMMA RecoveredIs ==
  ASSUME NorfsTypeOK, NEW k \in Keys
  PROVE  Recovered(k) \in Values \cup {Deleted}
  <1> DEFINE i == MountedIndex.inodes[k]
  <1>1. CASE i.reference_count = 0
    BY <1>1 DEF Recovered
  <1>2. CASE i.reference_count # 0
    <2>1. i.reference_count \in Nat
      BY MountBuilds DEF Index, Inode
    <2>2. i.location \in ObjectsIn(Finished)
      <3>1. i.reference_count > 0
        BY <1>2, <2>1
      <3>2. i.location \in Of(ObjectsIn(Finished), k)
        BY <3>1, MountBuilds DEF Built
      <3> QED BY <3>2 DEF Of
    <2>3. i.location \in ObjectsIn(NorBlocks)
      BY <2>2, KeptBlocks, ObjectsWithin
    <2>4. ObjAt(i.location).value \in Values \cup {Deleted}
      BY <2>3, ObjectIs
    <2> QED BY <1>2, <2>4 DEF Recovered
  <1> QED BY <1>1, <1>2

LEMMA NoObjectYet ==
  ASSUME NorfsInit
  PROVE  NorfsTypeOK
  <1>1. blocks \in Flash
    BY DEF NorfsInit, Flash, Empty
  <1>2. inodes \in [Keys -> Inode]
    BY EmptyIsIndex DEF NorfsInit, Unmounted
  <1>3. write_block \in NorBlocks
    BY NorConstants DEF NorfsInit, Unmounted, NorBlocks
  <1> QED BY <1>1, <1>2, <1>3 DEF NorfsInit, Unmounted, NorfsTypeOK

LEMMA MountType ==
  ASSUME NorfsTypeOK, NEW free \in SUBSET NorBlocks, NEW ix \in Index, Mount(free, ix),
         acked' \in [Keys -> Values \cup {Deleted}]
  PROVE  /\ NorfsTypeOK'
         /\ \A b \in free : blocks'[b].header = "free" /\ blocks'[b].objs = <<>>
         /\ \A b \in NorBlocks \ free : blocks'[b] = blocks[b]
  <1>1. PICK e : e = Empty("free")
    OBVIOUS
  <1>2. e \in [header : Headers, objs : Seq(NorObject)] /\ e.header = "free" /\ e.objs = <<>>
    BY <1>1 DEF Empty, Headers
  <1>3. blocks' = [b \in NorBlocks |-> IF b \in free THEN e ELSE blocks[b]]
    BY <1>1 DEF Mount
  <1>4. blocks' \in Flash
    BY <1>2, <1>3 DEF NorfsTypeOK, Flash, Headers
  <1>5. inodes' \in [Keys -> Inode]
    BY DEF Mount, Index
  <1>6. /\ \A b \in free : blocks'[b].header = "free" /\ blocks'[b].objs = <<>>
        /\ \A b \in NorBlocks \ free : blocks'[b] = blocks[b]
    BY <1>2, <1>3
  <1> QED BY <1>4, <1>5, <1>6 DEF NorfsTypeOK, Mount

LEMMA ForgetType ==
  ASSUME NorfsTypeOK, NorfsForget, Settle, UNCHANGED blocks
  PROVE  NorfsTypeOK'
  <1>1. inodes' \in [Keys -> Inode]
    BY EmptyIsIndex DEF NorfsForget
  <1>2. write_block' \in NorBlocks
    BY NorConstants DEF NorfsForget, NorBlocks
  <1>3. acked' \in [Keys -> Values \cup {Deleted}]
    BY RecoveredIs DEF Settle
  <1> QED BY <1>1, <1>2, <1>3 DEF NorfsForget, NorfsTypeOK

LEMMA PutType ==
  ASSUME NorfsBase, NEW k \in Keys, NEW v \in Values \cup {Deleted}, norfs_put_obj_iovec(k, v)
  PROVE  NorfsTypeOK'
  <1>1. Active
    BY DEF norfs_put_obj_iovec, Active
  <1> DEFINE n == IF HasInode(k) THEN (Latest(k).version + 1) % VersionModulus ELSE 0
  <1>2. n \in 0 .. VersionModulus - 1
    <2>1. HasInode(k) => (Latest(k).version + 1) % VersionModulus \in 0 .. VersionModulus - 1
      BY <1>1, LatestIs, NextVersion
    <2> QED BY <2>1, NorConstants
  <1>3. putting' = [key |-> k, value |-> v, version |-> n]
    BY DEF norfs_put_obj_iovec
  <1> HIDE DEF n
  <1>4. putting' \in NorObject
    BY <1>2, <1>3 DEF NorObject
  <1>5. UNCHANGED <<blocks, fs_mounted, write_block, write_offset, inodes, next_obj, acked>>
        /\ norfs_pc' = "space" /\ caller' = "put"
    BY DEF norfs_put_obj_iovec, memvars, promised
  <1> QED BY <1>4, <1>5 DEF NorfsTypeOK, NorfsBase

LEMMA SpaceType ==
  ASSUME NorfsTypeOK, find_space_for_object
  PROVE  NorfsTypeOK'
  BY DEF find_space_for_object, NorfsTypeOK, memvars, promised

(* The block that is opened. *)
LEMMA OpenedBlock ==
  ASSUME NorfsBase, initialize_next_block
  PROVE  /\ Active /\ NorfsTypeOK'
         /\ write_block' \in block_free /\ write_block' \in NorBlocks
         /\ blocks[write_block'].header = "free"
         /\ blocks' = Erased(blocks, write_block', "started")
         /\ block_free' = block_free \ {write_block'}
  <1>1. Active
    BY DEF initialize_next_block, Active
  <1>2. block_free = {b \in NorBlocks : blocks[b].header = "free"}
    BY <1>1 DEF NorfsBase, BlockStates
  <1>3. write_block' = NextFree(write_block_num) /\ block_free # {}
        /\ blocks' = Erased(blocks, write_block', "started")
        /\ block_free' = block_free \ {write_block'}
    BY DEF initialize_next_block, Erased
  <1>4. write_block' \in block_free
    BY <1>2, <1>3, WriteBlockNum, NextFreeIs DEF NorfsBase
  <1>5. write_block' \in NorBlocks /\ blocks[write_block'].header = "free"
    BY <1>2, <1>4
  <1>6. blocks' \in Flash
    BY <1>3, <1>5, Erasing DEF NorfsBase, NorfsTypeOK, Headers
  <1>7. NorfsTypeOK'
    BY <1>5, <1>6 DEF NorfsBase, NorfsTypeOK, initialize_next_block, promised
  <1> QED BY <1>1, <1>3, <1>4, <1>5, <1>7

(* The object that is collected. *)
Collected == <<garbage_block, next_obj>>

LEMMA CollectedIs ==
  ASSUME NorfsBase, collect_garbage_object
  PROVE  /\ Active /\ Opening /\ norfs_pc' = "collect" /\ norfs_pc = "collect"
         /\ garbage_block \in NorBlocks /\ garbage_block # write_block
         /\ write_block \in NorBlocks /\ write_block' = write_block
         /\ next_obj \in 1 .. Len(blocks[garbage_block].objs) /\ next_obj' = next_obj + 1
         /\ blocks[garbage_block].header = "finished"
         /\ Collected \in Live /\ Collected \in ObjectsIn(NorBlocks)
         /\ Collected[1] = garbage_block /\ Collected[2] = next_obj
         /\ ObjAt(Collected) \in NorObject /\ ObjAt(Collected).key \in Keys
  <1>1. NorfsTypeOK /\ norfs_pc = "collect" /\ Active /\ Opening /\ norfs_pc' = "collect"
    BY DEF NorfsBase, collect_garbage_object, Active, Opening
  <1>2. garbage_block \in NorBlocks /\ garbage_block # write_block /\ write_block \in NorBlocks
    BY <1>1, Garbage DEF garbage_block, NorfsTypeOK
  <1>3. write_block' = write_block /\ next_obj' = next_obj + 1 /\ next_obj \in DOMAIN blocks[garbage_block].objs
    BY DEF collect_garbage_object
  <1>4. next_obj \in 1 .. Len(blocks[garbage_block].objs)
    BY <1>1, <1>2, <1>3, FlashIs DEF NorfsTypeOK
  <1>5. blocks[garbage_block].header = "finished"
    BY <1>1 DEF NorfsBase, BlockStates
  <1>6. PICK l : l = Collected /\ l = <<garbage_block, next_obj>>
    BY DEF Collected
  <1>7. l \in Nat \X Nat /\ l[1] = garbage_block /\ l[2] = next_obj
    BY <1>1, <1>2, <1>6, NorConstants DEF NorfsTypeOK
  <1>8. l \in Live
    <2>1. garbage_block \in Kept
      BY <1>1, <1>2, <1>5, KeptBlocks
    <2>2. ~Passed(l)
      BY <1>1, <1>7 DEF Passed, NorfsTypeOK
    <2> QED BY <1>1, <1>4, <1>7, <2>1, <2>2, LiveIs
  <1>9. l \in ObjectsIn(NorBlocks)
    BY <1>1, <1>8, LiveObject
  <1>10. ObjAt(l) \in NorObject /\ ObjAt(l).key \in Keys
    BY <1>1, <1>9, ObjectIs
  <1> QED BY <1>1, <1>2, <1>3, <1>4, <1>5, <1>6, <1>7, <1>8, <1>9, <1>10

(* A newer copy of it, as collect_garbage_object writes it. *)
CopyOf(o, c) ==
  c \in NorObject /\ c.key = o.key /\ c.value = o.value /\ c.version = (o.version + 1) % VersionModulus

Copying(l, k) ==
  /\ inodes[k].location = l /\ ~LastTrace(ObjAt(l))
  /\ \E c : CopyOf(ObjAt(l), c) /\ blocks' = Written(blocks, write_block, c)
  /\ \E e \in Inode : /\ e.location = Here /\ e.reference_count = inodes[k].reference_count
                      /\ inodes' = [inodes EXCEPT ![k] = e]
Dropping(l, k) ==
  /\ inodes[k].location = l /\ LastTrace(ObjAt(l))
  /\ blocks' = blocks
  /\ inodes' = [inodes EXCEPT ![k] = NoInode]
Skipping(l, k) ==
  /\ inodes[k].location # l
  /\ blocks' = blocks
  /\ \E e \in Inode : /\ e.location = inodes[k].location /\ e.reference_count = inodes[k].reference_count - 1
                      /\ inodes' = [inodes EXCEPT ![k] = e]

LEMMA HereIs ==
  ASSUME NorfsTypeOK
  PROVE  /\ Here \in Nat \X Nat /\ Here[1] = write_block /\ Here[2] = Len(blocks[write_block].objs) + 1
         /\ Here \notin ObjectsIn(NorBlocks) /\ Here \notin Live
  <1>1. write_block \in NorBlocks /\ write_block \in Nat /\ Len(blocks[write_block].objs) \in Nat
    BY NorConstants, FlashIs DEF NorfsTypeOK
  <1>2. Here \in Nat \X Nat /\ Here[1] = write_block /\ Here[2] = Len(blocks[write_block].objs) + 1
    BY <1>1 DEF Here
  <1>3. Here \notin ObjectsIn(NorBlocks)
    BY <1>1, <1>2, ObjectIs
  <1> QED BY <1>2, <1>3, LiveObject

LEMMA CollectCases ==
  ASSUME NorfsBase, collect_garbage_object
  PROVE  \/ Copying(Collected, ObjAt(Collected).key)
         \/ Dropping(Collected, ObjAt(Collected).key)
         \/ Skipping(Collected, ObjAt(Collected).key)
  <1>1. PICK l : l = Collected
    OBVIOUS
  <1>2. PICK o \in NorObject : o = ObjAt(l) /\ o.key \in Keys
    BY <1>1, CollectedIs
  <1>3. PICK k \in Keys : k = o.key
    BY <1>2
  <1>4. PICK i \in Inode : i = inodes[k] /\ i.location \in Nat \X Nat /\ i.reference_count \in Nat
                           /\ i = [location |-> i.location, reference_count |-> i.reference_count]
    BY DEF NorfsBase, NorfsTypeOK, Inode
  <1>5. /\ IF i.location = l /\ ~(i.location = l /\ LastTrace(o))
           THEN write_obj_iovec([o EXCEPT !.version = (@ + 1) % VersionModulus])
           ELSE UNCHANGED <<blocks, write_offset>>
        /\ inodes' = [inodes EXCEPT ![k] =
              CASE i.location = l /\ LastTrace(o) -> NoInode
                [] i.location = l /\ ~(i.location = l /\ LastTrace(o)) -> [i EXCEPT !.location = Here]
                [] OTHER -> [i EXCEPT !.reference_count = @ - 1]]
    BY <1>1, <1>2, <1>3, <1>4 DEF collect_garbage_object, Collected
  <1>6. CASE i.location = l /\ ~LastTrace(o)
    <2>1. PICK c : c = [o EXCEPT !.version = (@ + 1) % VersionModulus]
      OBVIOUS
    <2>2. CopyOf(o, c)
      <3>1. o.version \in 0 .. VersionModulus - 1
        BY <1>2 DEF NorObject
      <3>2. (o.version + 1) % VersionModulus \in 0 .. VersionModulus - 1
        BY <3>1, NextVersion
      <3> QED BY <1>2, <2>1, <3>2 DEF NorObject, CopyOf
    <2>3. blocks' = Written(blocks, write_block, c)
      BY <1>5, <1>6, <2>1 DEF write_obj_iovec, Written
    <2>4. PICK e : e = [i EXCEPT !.location = Here]
      OBVIOUS
    <2>5. e \in Inode /\ e.location = Here /\ e.reference_count = i.reference_count
      BY <1>4, <2>4, HereIs DEF Inode, NorfsBase
    <2>6. inodes' = [inodes EXCEPT ![k] = e]
      BY <1>5, <1>6, <2>4
    <2>7. Copying(l, k)
      BY <1>2, <1>4, <1>6, <2>2, <2>3, <2>5, <2>6 DEF Copying
    <2> QED BY <1>1, <1>2, <1>3, <2>7
  <1>7. CASE i.location = l /\ LastTrace(o)
    <2>1. blocks' = blocks /\ inodes' = [inodes EXCEPT ![k] = NoInode]
      BY <1>5, <1>7
    <2>2. Dropping(l, k)
      BY <1>2, <1>4, <1>7, <2>1 DEF Dropping
    <2> QED BY <1>1, <1>2, <1>3, <2>2
  <1>8. CASE i.location # l
    <2>1. PICK e : e = [i EXCEPT !.reference_count = @ - 1]
      OBVIOUS
    <2>2. blocks' = blocks /\ inodes' = [inodes EXCEPT ![k] = e]
      BY <1>5, <1>8, <2>1
    <2>3. i.reference_count - 1 \in Nat
      <3>1. Active /\ l \in Live
        BY <1>1, CollectedIs
      <3>2. l \in Held(k) /\ IsFiniteSet(Held(k)) /\ i.reference_count = Cardinality(Held(k))
        <4>1. IsFiniteSet(Live) /\ Held(k) \subseteq Live
          BY <3>1 DEF NorfsBase, InodesExact, Exact, Held
        <4>2. i.reference_count = Cardinality(Held(k))
          BY <1>4, <3>1 DEF NorfsBase, InodesExact, Exact
        <4>3. l \in Held(k)
          BY <1>2, <1>3, <3>1 DEF Held
        <4> QED BY <4>1, <4>2, <4>3, FS_Subset
      <3>3. Cardinality(Held(k)) # 0
        BY <3>2, FS_EmptySet
      <3> QED BY <1>4, <3>2, <3>3
    <2>4. e \in Inode /\ e.location = i.location /\ e.reference_count = i.reference_count - 1
      BY <1>4, <2>1, <2>3 DEF Inode
    <2>5. Skipping(l, k)
      BY <1>4, <1>8, <2>2, <2>4 DEF Skipping
    <2> QED BY <1>1, <1>2, <1>3, <2>5
  <1> QED BY <1>6, <1>7, <1>8

LEMMA CollectType ==
  ASSUME NorfsBase, collect_garbage_object
  PROVE  NorfsTypeOK'
  <1>1. NorfsTypeOK /\ write_block \in NorBlocks
    BY DEF NorfsBase, NorfsTypeOK
  <1>2. PICK k \in Keys : k = ObjAt(Collected).key
    BY CollectedIs
  <1>3. blocks' \in Flash /\ inodes' \in [Keys -> Inode]
    <2>1. CASE Copying(Collected, k)
      <3>1. PICK c \in NorObject : blocks' = Written(blocks, write_block, c)
        BY <2>1 DEF Copying, CopyOf
      <3>2. blocks' \in Flash
        BY <1>1, <3>1, Appending DEF NorfsTypeOK
      <3>3. inodes' \in [Keys -> Inode]
        BY <1>1, <1>2, <2>1 DEF Copying, NorfsTypeOK
      <3> QED BY <3>2, <3>3
    <2>2. CASE Dropping(Collected, k)
      BY <1>1, <1>2, <2>2, EmptyIsIndex DEF Dropping, NorfsTypeOK
    <2>3. CASE Skipping(Collected, k)
      BY <1>1, <1>2, <2>3 DEF Skipping, NorfsTypeOK
    <2> QED BY <1>2, <2>1, <2>2, <2>3, CollectCases
  <1>4. write_offset' \in Nat
    <2>1. write_offset' = write_offset \/ \E o : write_offset' = write_offset + Units(o)
      BY DEF collect_garbage_object, write_obj_iovec
    <2> QED BY <1>1, <2>1, UnitsNat DEF NorfsTypeOK
  <1>5. UNCHANGED <<fs_mounted, write_block, norfs_pc, caller, putting, acked>> /\ next_obj' = next_obj + 1
    BY DEF collect_garbage_object, promised
  <1> QED BY <1>1, <1>3, <1>4, <1>5 DEF NorfsTypeOK

LEMMA EraseType ==
  ASSUME NorfsTypeOK, erase_block
  PROVE  NorfsTypeOK' /\ garbage_block' = garbage_block /\ garbage_block \in NorBlocks
         /\ garbage_block # write_block /\ write_block' = write_block
  <1>1. garbage_block \in NorBlocks /\ garbage_block # write_block
    BY Garbage DEF NorfsTypeOK, garbage_block
  <1>2. PICK h \in Headers : blocks' = Erased(blocks, garbage_block, h)
    BY DEF erase_block, Headers, Erased
  <1>3. blocks' \in Flash
    BY <1>1, <1>2, Erasing DEF NorfsTypeOK
  <1>4. UNCHANGED <<fs_mounted, write_block, write_offset, inodes, caller, putting, next_obj, acked>>
        /\ norfs_pc' \in {"erased", "finish"}
    BY DEF erase_block, promised
  <1>5. garbage_block' = garbage_block
    BY <1>4 DEF garbage_block
  <1>6. NorfsTypeOK'
    BY <1>3, <1>4 DEF NorfsTypeOK
  <1> QED BY <1>1, <1>4, <1>5, <1>6

LEMMA FinishType ==
  ASSUME NorfsTypeOK, finish_block
  PROVE  NorfsTypeOK'
  <1>1. blocks' \in Flash
    <2>1. PICK h \in Headers : h = "finished"
      BY DEF Headers
    <2>2. blocks' = Marked(blocks, write_block, h)
      BY <2>1 DEF finish_block, Marked
    <2> QED BY <2>2, Marking DEF NorfsTypeOK
  <1>2. UNCHANGED <<write_block, write_offset, inodes, caller, putting, acked>>
        /\ fs_mounted' = TRUE /\ next_obj' = 0
    BY DEF finish_block, promised
  <1>3. norfs_pc' \in {"space", "idle"} /\ (norfs_pc' = "space" => caller = "put")
    BY DEF finish_block
  <1> QED BY <1>1, <1>2, <1>3 DEF NorfsTypeOK

(* A put writes its object. *)
(* An object is put at the write pointer. *)
Storing == put_writes \/ put_uses_freed_inode

LEMMA StoringIs ==
  ASSUME NorfsTypeOK, Storing, inodes' \in [Keys -> Inode]
  PROVE  /\ NorfsTypeOK' /\ putting \in NorObject /\ putting.key \in Keys
         /\ blocks' = Written(blocks, write_block, putting)
         /\ write_block' = write_block /\ norfs_pc = "write"
         /\ norfs_pc' \in {"open", "idle", "broken"} /\ fs_mounted' = fs_mounted
  <1>1. putting \in NorObject /\ norfs_pc = "write"
    BY DEF Storing, put_writes, put_uses_freed_inode, NorfsTypeOK
  <1>2. PICK k \in Keys : k = putting.key /\ putting.value \in Values \cup {Deleted}
    BY <1>1 DEF NorObject
  <1>3. blocks' = Written(blocks, write_block, putting)
        /\ write_offset' = write_offset + Units(putting)
    BY DEF Storing, put_writes, put_uses_freed_inode, write_obj_iovec, Written
  <1>4. blocks' \in Flash
    BY <1>1, <1>3, Appending DEF NorfsTypeOK
  <1>5. write_offset' \in Nat
    BY <1>3, UnitsNat DEF NorfsTypeOK
  <1>6. acked' = [acked EXCEPT ![k] = putting.value]
    BY <1>2 DEF Storing, put_writes, put_uses_freed_inode, Acknowledge
  <1>7. acked' \in [Keys -> Values \cup {Deleted}]
    BY <1>2, <1>6 DEF NorfsTypeOK
  <1>8. /\ write_block' = write_block /\ norfs_pc' \in {"open", "idle", "broken"}
        /\ fs_mounted' = fs_mounted /\ next_obj' = next_obj /\ putting' = putting
        /\ caller' \in {caller, "after_put"}
    BY DEF Storing, put_writes, put_uses_freed_inode
  <1>9. NorfsTypeOK'
    BY <1>1, <1>4, <1>5, <1>7, <1>8 DEF NorfsTypeOK
  <1> QED BY <1>1, <1>2, <1>3, <1>8, <1>9

LEMMA PutWritesIs ==
  ASSUME NorfsTypeOK, put_writes
  PROVE  /\ NorfsTypeOK' /\ putting.key \in Keys
         /\ \E e \in Inode : /\ e.location = Here /\ e.reference_count = inodes[putting.key].reference_count + 1
                             /\ inodes' = [inodes EXCEPT ![putting.key] = e]
         /\ norfs_pc' \in {"open", "idle"}
  <1>1. putting \in NorObject
    BY DEF put_writes, NorfsTypeOK
  <1>2. PICK k \in Keys : k = putting.key
    BY <1>1 DEF NorObject
  <1>3. PICK e : e = NewReference(inodes[k])
    OBVIOUS
  <1>4. e \in Inode /\ e.location = Here /\ e.reference_count = inodes[k].reference_count + 1
    BY <1>3, HereIs DEF NewReference, Inode, NorfsTypeOK
  <1>5. inodes' = [inodes EXCEPT ![k] = e]
    BY <1>2, <1>3 DEF put_writes
  <1>6. inodes' \in [Keys -> Inode]
    BY <1>4, <1>5 DEF NorfsTypeOK
  <1>7. NorfsTypeOK'
    BY <1>6, StoringIs DEF Storing
  <1>8. norfs_pc' \in {"open", "idle"}
    BY DEF put_writes
  <1> QED BY <1>2, <1>4, <1>5, <1>7, <1>8

(* A put that stores its object, whatever it does to the inode. *)
LEMMA StoringType ==
  ASSUME NorfsTypeOK, Storing
  PROVE  inodes' \in [Keys -> Inode] /\ NorfsTypeOK'
  <1>1. CASE put_writes
    BY <1>1, PutWritesIs DEF NorfsTypeOK
  <1>2. CASE put_uses_freed_inode
    <2>1. inodes' \in [Keys -> Inode]
      BY <1>2 DEF put_uses_freed_inode, NorfsTypeOK
    <2> QED BY <2>1, StoringIs
  <1> QED BY <1>1, <1>2 DEF Storing
-----------------------------------------------------------------------------
(* The blocks and what is live on them. *)
LEMMA MountBlocks ==
  ASSUME NorfsBase, NEW free \in SUBSET NorBlocks, NEW ix \in Index, Mount(free, ix),
         acked' \in [Keys -> Values \cup {Deleted}], NorBlocks \ Finished \subseteq free
  PROVE  /\ BlockStates' /\ Active' /\ ~Opening' /\ norfs_pc = "idle" /\ norfs_pc' = "open"
         /\ Live' = ObjectsIn(Finished)'
         /\ \A l : l \in Live' <=> l \in ObjectsIn(Finished) /\ l[1] \notin free
         /\ \A l \in Live' : ObjAt(l)' = ObjAt(l)
  <1>1. NorfsTypeOK
    BY DEF NorfsBase
  <1>2. /\ NorfsTypeOK'
        /\ \A b \in free : blocks'[b].header = "free" /\ blocks'[b].objs = <<>>
        /\ \A b \in NorBlocks \ free : blocks'[b] = blocks[b]
    BY <1>1, MountType
  <1>3. norfs_pc = "idle" /\ norfs_pc' = "open" /\ block_free' = free /\ num_free_blocks' = Cardinality(free)
    BY DEF Mount
  <1>4. Active' /\ ~Opening'
    BY <1>3 DEF Active, Opening
  <1>5. \A b \in NorBlocks \ free : blocks'[b].header = "finished"
    BY <1>2 DEF Finished
  <1>6. block_free' = {b \in NorBlocks : blocks'[b].header = "free"}
    BY <1>2, <1>3, <1>5
  <1>7. \A b \in NorBlocks : blocks'[b].header \in {"bad", "free"} => blocks'[b].objs = <<>>
    BY <1>2, <1>5
  <1>8. \A b \in NorBlocks : blocks'[b].header \in {"free", "finished"}
    BY <1>2, <1>5
  <1>9. BlockStates'
    BY <1>3, <1>4, <1>6, <1>7, <1>8 DEF BlockStates
  <1>10. Kept' = Finished' /\ Finished' = NorBlocks \ free
    BY <1>2, <1>4, <1>5 DEF Kept, Finished
  <1>11. \A l : ~Passed(l)'
    BY <1>3 DEF Passed
  <1>12. \A l : l \in Live' <=> l \in ObjectsIn(Finished)'
    BY <1>2, <1>10, <1>11, LiveIsThen
  <1>13. \A l : l \in Live' <=> l \in ObjectsIn(Finished) /\ l[1] \notin free
    <2> TAKE l
    <2>1. l \in ObjectsIn(Finished) <=> l \in Nat \X Nat /\ l[1] \in Finished /\ l[2] \in 1 .. Len(blocks[l[1]].objs)
      BY <1>1, LiveIs
    <2>2. l \in Live' <=> l \in Nat \X Nat /\ l[1] \in NorBlocks \ free /\ l[2] \in 1 .. Len(blocks'[l[1]].objs)
      BY <1>2, <1>10, <1>11, LiveIsThen
    <2>3. l[1] \in NorBlocks \ free => l[1] \in Finished /\ blocks'[l[1]] = blocks[l[1]]
      BY <1>2
    <2>4. l[1] \in Finished => l[1] \in NorBlocks
      BY DEF Finished
    <2> QED BY <2>1, <2>2, <2>3, <2>4
  <1>14. ASSUME NEW l \in Live' PROVE ObjAt(l)' = ObjAt(l)
    <2>1. l[1] \in NorBlocks \ free
      BY <1>2, <1>10, LiveIsThen
    <2> QED BY <1>2, <2>1 DEF ObjAt
  <1>15. Live' = ObjectsIn(Finished)'
    BY <1>12
  <1> QED BY <1>3, <1>4, <1>9, <1>13, <1>14, <1>15

LEMMA ForgetBlocks ==
  ASSUME NorfsBase, NorfsForget, UNCHANGED blocks
  PROVE  BlockStates' /\ ~Active'
  BY DEF NorfsBase, NorfsForget, BlockStates, Active

(* A step that leaves the flash, the index and the blocks alone. *)
Aside ==
  /\ UNCHANGED <<blocks, fs_mounted, write_block, write_offset, block_free, num_free_blocks, inodes,
                 next_obj>>
  /\ norfs_pc \notin {"collect", "erased", "finish"} /\ norfs_pc' \notin {"collect", "erased", "finish"}

LEMMA AsideBlocks ==
  ASSUME NorfsBase, Aside, Active, Active', NorfsTypeOK',
         norfs_pc \in {"idle", "space", "write"} \/ norfs_pc' \notin {"idle", "space", "write"}
  PROVE  /\ BlockStates' /\ Live' = Live /\ ObjectsIn(Finished)' = ObjectsIn(Finished)
         /\ \A l : ObjAt(l)' = ObjAt(l)
  <1>1. BlockStates'
    BY DEF NorfsBase, Aside, BlockStates, Opening, garbage_block
  <1>2. Finished' = Finished /\ ~Opening /\ ~Opening'
    BY DEF Aside, Finished, Opening
  <1>3. Kept' = Kept
    BY <1>2 DEF Kept
  <1>4. ObjectsIn(Finished)' = ObjectsIn(Finished) /\ ObjectsIn(Kept)' = ObjectsIn(Kept)
    <2>1. ObjectsIn(Finished)' = PlacesOf(blocks', Finished') /\ ObjectsIn(Kept)' = PlacesOf(blocks', Kept')
          /\ ObjectsIn(Finished) = PlacesOf(blocks, Finished) /\ ObjectsIn(Kept) = PlacesOf(blocks, Kept)
      BY DEF ObjectsIn, PlacesOf
    <2>2. blocks' = blocks
      BY DEF Aside
    <2> QED BY <1>2, <1>3, <2>1, <2>2
  <1>5. \A l : ~Passed(l) /\ ~Passed(l)'
    BY DEF Aside, Passed
  <1>6. Live' = Live
    BY <1>4, <1>5 DEF Live
  <1>7. \A l : ObjAt(l)' = ObjAt(l)
    BY DEF Aside, ObjAt
  <1> QED BY <1>1, <1>4, <1>6, <1>7

LEMMA OpenBlocks ==
  ASSUME NorfsBase, initialize_next_block
  PROVE  /\ BlockStates' /\ Live' = Live /\ ObjectsIn(Finished)' = ObjectsIn(Finished)
         /\ \A l \in Live \cup ObjectsIn(Finished) : ObjAt(l)' = ObjAt(l)
  <1> DEFINE w == write_block'
  <1>1. /\ NorfsTypeOK /\ NorfsTypeOK' /\ Active /\ norfs_pc = "open"
        /\ w \in block_free /\ w \in NorBlocks /\ blocks[w].header = "free"
        /\ blocks' = Erased(blocks, w, "started") /\ block_free' = block_free \ {w}
    BY OpenedBlock DEF NorfsBase, initialize_next_block
  <1>2. /\ \A b \in NorBlocks : blocks[b].header \in {"bad", "free"} => blocks[b].objs = <<>>
        /\ block_free = {b \in NorBlocks : blocks[b].header = "free"}
        /\ num_free_blocks = Cardinality(block_free)
        /\ \A b \in NorBlocks : blocks[b].header \notin {"started", "bad"}
    BY <1>1 DEF NorfsBase, BlockStates, Opening
  <1>3. /\ blocks'[w].header = "started" /\ blocks'[w].objs = <<>> /\ Len(blocks'[w].objs) = 0
        /\ \A b \in NorBlocks \ {w} : blocks'[b] = blocks[b]
    <2>1. "started" \in Headers /\ blocks \in Flash
      BY <1>1 DEF NorfsTypeOK, Headers
    <2> QED BY <1>1, <2>1, Erasing
  <1>4. IsFiniteSet(block_free) /\ IsFiniteSet(block_free')
    BY <1>1, <1>2, BlocksFinite, FS_Subset
  <1>5. Cardinality(block_free') = Cardinality(block_free) - 1 /\ Cardinality(block_free) \in Nat
    BY <1>1, <1>4, FS_RemoveElement, FS_CardinalityType
  <1>6. /\ num_free_blocks' = num_free_blocks - 1
        /\ IF num_free_blocks - 1 < 1 THEN norfs_pc' = "collect" /\ next_obj' = 1
           ELSE norfs_pc' = "finish" /\ next_obj' = 0
    BY DEF initialize_next_block, MIN_FREE_BLOCKS
  <1>7. num_free_blocks' = Cardinality(block_free')
    BY <1>2, <1>5, <1>6
  <1>8. Active' /\ Opening' /\ norfs_pc' \in {"collect", "finish"}
    BY <1>6 DEF Active, Opening
  <1>9. block_free' = {b \in NorBlocks : blocks'[b].header = "free"}
    BY <1>1, <1>2, <1>3
  <1>10. \A b \in NorBlocks : blocks'[b].header \in {"bad", "free"} => blocks'[b].objs = <<>>
    BY <1>2, <1>3
  <1>11. \A b \in NorBlocks : blocks'[b].header \in {"started", "bad"} => b = w
    BY <1>2, <1>3
  <1>12. garbage_block' \in NorBlocks /\ garbage_block' # w
    BY <1>1, Garbage DEF garbage_block
  <1>13. ASSUME norfs_pc' = "collect"
         PROVE  /\ blocks'[garbage_block'].header = "finished"
                /\ next_obj' \in 1 .. Len(blocks'[garbage_block'].objs) + 1
    <2>1. block_free' = {}
      <3>1. Cardinality(block_free') = 0
        BY <1>2, <1>4, <1>5, <1>6, <1>7, <1>13, FS_CardinalityType
      <3> QED BY <1>4, <3>1, FS_EmptySet
    <2>2. blocks'[garbage_block'].header \notin {"free", "started", "bad"}
      BY <1>9, <1>11, <1>12, <2>1
    <2>3. blocks'[garbage_block'].header \in Headers /\ Len(blocks'[garbage_block'].objs) \in Nat
      BY <1>1, <1>12, FlashIs DEF NorfsTypeOK
    <2>4. next_obj' = 1
      BY <1>6, <1>13
    <2> QED BY <2>2, <2>3, <2>4 DEF Headers
  <1>14. BlockStates'
    <2>1. write_offset' # BLOCK_UNITS
      BY NorfsAssumption DEF initialize_next_block
    <2> QED BY <1>3, <1>7, <1>8, <1>9, <1>10, <1>11, <1>13, <2>1 DEF BlockStates
  <1>15. Finished' = Finished /\ w \notin Finished
    BY <1>1, <1>3 DEF Finished
  <1>16. \A l : l \in ObjectsIn(Finished)' <=> l \in ObjectsIn(Finished)
    <2> TAKE l
    <2>1. l[1] \in Finished => blocks'[l[1]] = blocks[l[1]]
      BY <1>3, <1>15 DEF Finished
    <2> QED BY <1>1, <1>15, <2>1, LiveIs, LiveIsThen
  <1>17. \A l : l \in Live' <=> l \in Live
    <2> TAKE l
    <2>1. ~Passed(l)
      BY <1>1 DEF Passed
    <2>2. l[2] \in 1 .. Len(blocks'[l[1]].objs) => ~Passed(l)'
      BY <1>6 DEF Passed
    <2>3. Kept = Finished /\ Kept' = Finished \cup {w}
      BY <1>1, <1>8, <1>15 DEF Kept, Opening
    <2>4. l[1] \in Finished => blocks'[l[1]] = blocks[l[1]]
      BY <1>3, <1>15 DEF Finished
    <2>5. l[1] = w => ~(l[2] \in 1 .. Len(blocks'[l[1]].objs))
      BY <1>3
    <2>6. l \in Live <=> l \in Nat \X Nat /\ l[1] \in Finished /\ l[2] \in 1 .. Len(blocks[l[1]].objs)
      BY <1>1, <2>1, <2>3, LiveIs
    <2>7. l \in Live' <=> l \in Nat \X Nat /\ l[1] \in Finished \cup {w} /\ l[2] \in 1 .. Len(blocks'[l[1]].objs)
      BY <1>1, <2>2, <2>3, LiveIsThen
    <2> QED BY <2>4, <2>5, <2>6, <2>7
  <1>18. ASSUME NEW l \in Live \cup ObjectsIn(Finished) PROVE ObjAt(l)' = ObjAt(l)
    <2>1. l[1] \in Finished
      <3>1. Kept = Finished
        BY <1>1 DEF Kept, Opening
      <3> QED BY <1>1, <3>1, LiveIs
    <2>2. blocks'[l[1]] = blocks[l[1]]
      BY <1>3, <1>15, <2>1 DEF Finished
    <2> QED BY <2>2 DEF ObjAt
  <1> QED BY <1>14, <1>16, <1>17, <1>18

(* An object is written at the write pointer. *)
LEMMA Appended ==
  ASSUME NorfsTypeOK, NorfsTypeOK', NEW o \in NorObject,
         blocks' = Written(blocks, write_block, o)
  PROVE  /\ \A b \in NorBlocks : blocks'[b].header = blocks[b].header
         /\ \A b \in NorBlocks \ {write_block} : blocks'[b] = blocks[b]
         /\ \A l \in ObjectsIn(NorBlocks) : ObjAt(l)' = ObjAt(l) /\ l \in ObjectsIn(NorBlocks)'
         /\ \A h : h = Here => ObjAt(h)' = o /\ h \in ObjectsIn(NorBlocks)'
         /\ \A l, B : B \in SUBSET NorBlocks =>
              (l \in Nat \X Nat /\ l[1] \in B /\ l[2] \in 1 .. Len(blocks'[l[1]].objs)
                 <=> \/ l \in Nat \X Nat /\ l[1] \in B /\ l[2] \in 1 .. Len(blocks[l[1]].objs)
                     \/ write_block \in B /\ l = Here)
  <1>1. blocks \in Flash /\ blocks' \in Flash /\ write_block \in NorBlocks /\ NorBlocks \subseteq Nat
    BY NorConstants DEF NorfsTypeOK
  <1>2. PICK n \in Nat : n = Len(blocks[write_block].objs)
    BY <1>1, FlashIs
  <1>3. /\ \A b \in NorBlocks : blocks'[b].header = blocks[b].header
        /\ \A b \in NorBlocks \ {write_block} : blocks'[b] = blocks[b]
        /\ Len(blocks'[write_block].objs) = n + 1
        /\ blocks'[write_block].objs[n + 1] = o
        /\ \A j \in 1 .. n : blocks'[write_block].objs[j] = blocks[write_block].objs[j]
    <2>1. PICK bl \in Flash, bm \in Flash, w \in NorBlocks :
            bl = blocks /\ bm = blocks' /\ w = write_block
      BY <1>1
    <2>2. bm = Written(bl, w, o)
      BY <2>1
    <2>3. /\ \A b \in NorBlocks : bm[b].header = bl[b].header
          /\ \A b \in NorBlocks \ {w} : bm[b] = bl[b]
          /\ Len(bm[w].objs) = Len(bl[w].objs) + 1
          /\ bm[w].objs[Len(bl[w].objs) + 1] = o
          /\ \A j \in 1 .. Len(bl[w].objs) : bm[w].objs[j] = bl[w].objs[j]
      BY <2>2, Appending
    <2> QED BY <1>2, <2>1, <2>3
  <1>4. PICK h : h = Here /\ h \in Nat \X Nat /\ h[1] = write_block /\ h[2] = n + 1 /\ h = <<h[1], h[2]>>
    BY <1>2, HereIs
  <1>5. ObjAt(h)' = o
    BY <1>3, <1>4 DEF ObjAt
  <1>6. ASSUME NEW l, NEW B \in SUBSET NorBlocks
        PROVE  l \in Nat \X Nat /\ l[1] \in B /\ l[2] \in 1 .. Len(blocks'[l[1]].objs)
                 <=> \/ l \in Nat \X Nat /\ l[1] \in B /\ l[2] \in 1 .. Len(blocks[l[1]].objs)
                     \/ write_block \in B /\ l = h
    <2>1. CASE l \in Nat \X Nat /\ l[1] = write_block
      <3>1. l = h <=> l[2] = n + 1
        BY <1>4, <2>1
      <3>2. l[2] \in 1 .. n + 1 <=> l[2] \in 1 .. n \/ l[2] = n + 1
        BY <2>1
      <3> QED BY <1>2, <1>3, <2>1, <3>1, <3>2
    <2>2. CASE l \in Nat \X Nat /\ l[1] # write_block
      <3>1. l # h
        BY <1>4, <2>2
      <3>2. l[1] \in B => blocks'[l[1]] = blocks[l[1]]
        BY <1>3, <2>2
      <3> QED BY <2>2, <3>1, <3>2
    <2>3. CASE ~(l \in Nat \X Nat)
      BY <1>4, <2>3
    <2> QED BY <2>1, <2>2, <2>3
  <1>7. ObjectsIn(NorBlocks) = PlacesOf(blocks, NorBlocks) /\ ObjectsIn(NorBlocks)' = PlacesOf(blocks', NorBlocks)
    BY DEF ObjectsIn, PlacesOf
  <1>8. \A l : /\ l \in ObjectsIn(NorBlocks) <=> l \in Nat \X Nat /\ l[1] \in NorBlocks /\ l[2] \in 1 .. Len(blocks[l[1]].objs)
               /\ l \in ObjectsIn(NorBlocks)' <=> l \in Nat \X Nat /\ l[1] \in NorBlocks /\ l[2] \in 1 .. Len(blocks'[l[1]].objs)
    <2> TAKE l
    <2>1. PICK B \in SUBSET NorBlocks : B = NorBlocks
      OBVIOUS
    <2>2. l \in PlacesOf(blocks, B) <=> l \in Nat \X Nat /\ l[1] \in B /\ l[2] \in 1 .. Len(blocks[l[1]].objs)
      BY <1>1, PlacesIs
    <2>3. l \in PlacesOf(blocks', B) <=> l \in Nat \X Nat /\ l[1] \in B /\ l[2] \in 1 .. Len(blocks'[l[1]].objs)
      BY <1>1, PlacesIs
    <2> QED BY <1>7, <2>1, <2>2, <2>3
  <1>9. ASSUME NEW l \in ObjectsIn(NorBlocks) PROVE ObjAt(l)' = ObjAt(l)
    <2>1. l[1] \in NorBlocks /\ l[2] \in 1 .. Len(blocks[l[1]].objs)
      BY <1>8
    <2>2. blocks'[l[1]].objs[l[2]] = blocks[l[1]].objs[l[2]]
      <3>1. CASE l[1] = write_block
        BY <1>2, <1>3, <2>1, <3>1
      <3>2. CASE l[1] # write_block
        BY <1>3, <2>1, <3>2
      <3> QED BY <3>1, <3>2
    <2> QED BY <2>2 DEF ObjAt
  <1>10. \A l \in ObjectsIn(NorBlocks) : l \in ObjectsIn(NorBlocks)'
    BY <1>6, <1>8
  <1>11. h \in ObjectsIn(NorBlocks)'
    BY <1>1, <1>6, <1>8
  <1> QED BY <1>3, <1>4, <1>5, <1>6, <1>9, <1>10, <1>11

LEMMA FinishedWithin ==
  ASSUME NorfsTypeOK
  PROVE  ObjectsIn(Finished) \subseteq ObjectsIn(NorBlocks) /\ Live \subseteq ObjectsIn(NorBlocks)
  BY KeptBlocks, ObjectsWithin, LiveObject

LEMMA CollectBlocks ==
  ASSUME NorfsBase, collect_garbage_object
  PROVE  /\ BlockStates' /\ ObjectsIn(Finished)' = ObjectsIn(Finished)
         /\ \A l \in ObjectsIn(NorBlocks) : ObjAt(l)' = ObjAt(l) /\ l \in ObjectsIn(NorBlocks)'
         /\ IF Copying(Collected, ObjAt(Collected).key)
            THEN Live' = (Live \ {Collected}) \cup {Here} ELSE Live' = Live \ {Collected}
         /\ Copying(Collected, ObjAt(Collected).key) =>
              \A h : h = Here => CopyOf(ObjAt(Collected), ObjAt(h)') /\ h \in ObjectsIn(NorBlocks)'
  <1> DEFINE k == ObjAt(Collected).key
             copying == Copying(Collected, k)
  <1>1. NorfsTypeOK /\ NorfsTypeOK'
    BY CollectType DEF NorfsBase
  <1>2. /\ Active /\ Opening /\ norfs_pc' = "collect" /\ norfs_pc = "collect"
        /\ garbage_block \in NorBlocks /\ garbage_block # write_block
        /\ write_block \in NorBlocks /\ write_block' = write_block
        /\ next_obj \in 1 .. Len(blocks[garbage_block].objs) /\ next_obj' = next_obj + 1
        /\ Collected[1] = garbage_block /\ Collected[2] = next_obj /\ Collected \in Live
    BY CollectedIs
  <1>3. Active' /\ Opening' /\ garbage_block' = garbage_block
    BY <1>2 DEF Active, Opening, garbage_block
  <1>4. ~copying => blocks' = blocks
    BY CollectCases DEF Dropping, Skipping
  <1>5. ASSUME copying
        PROVE  \E c : CopyOf(ObjAt(Collected), c) /\ blocks' = Written(blocks, write_block, c)
    BY <1>5 DEF Copying
  <1>6. /\ \A b \in NorBlocks : blocks'[b].header = blocks[b].header
        /\ \A b \in NorBlocks \ {write_block} : blocks'[b] = blocks[b]
        /\ \A l \in ObjectsIn(NorBlocks) : ObjAt(l)' = ObjAt(l) /\ l \in ObjectsIn(NorBlocks)'
    <2>1. CASE copying
      <3>1. PICK c \in NorObject : blocks' = Written(blocks, write_block, c)
        BY <1>5, <2>1 DEF CopyOf
      <3> QED BY <1>1, <3>1, Appended
    <2>2. CASE ~copying
      <3>1. blocks' = blocks
        BY <1>4, <2>2
      <3>2. ObjectsIn(NorBlocks)' = ObjectsIn(NorBlocks) /\ \A l : ObjAt(l)' = ObjAt(l)
        <4>1. ObjectsIn(NorBlocks) = PlacesOf(blocks, NorBlocks) /\ ObjectsIn(NorBlocks)' = PlacesOf(blocks', NorBlocks)
          BY DEF ObjectsIn, PlacesOf
        <4> QED BY <3>1, <4>1 DEF ObjAt
      <3> QED BY <3>1, <3>2
    <2> QED BY <2>1, <2>2
  <1>7. ASSUME copying, NEW h, h = Here PROVE CopyOf(ObjAt(Collected), ObjAt(h)') /\ h \in ObjectsIn(NorBlocks)'
    <2>1. PICK c \in NorObject : /\ CopyOf(ObjAt(Collected), c)
                                 /\ blocks' = Written(blocks, write_block, c)
      BY <1>5, <1>7 DEF CopyOf
    <2>2. ObjAt(h)' = c /\ h \in ObjectsIn(NorBlocks)'
      BY <1>1, <1>7, <2>1, Appended
    <2> QED BY <2>1, <2>2
  <1> HIDE DEF copying
  <1>8. /\ \A b \in NorBlocks : blocks[b].header \in {"bad", "free"} => blocks[b].objs = <<>>
        /\ block_free = {b \in NorBlocks : blocks[b].header = "free"}
        /\ num_free_blocks = Cardinality(block_free)
        /\ blocks[write_block].header = "started"
        /\ \A b \in NorBlocks : blocks[b].header \in {"started", "bad"} => b = write_block
        /\ blocks[garbage_block].header = "finished"
    BY <1>2 DEF NorfsBase, BlockStates
  <1>9. UNCHANGED <<block_free, num_free_blocks>>
    BY DEF collect_garbage_object
  <1>10. BlockStates'
    <2>1. blocks'[garbage_block] = blocks[garbage_block] /\ Len(blocks[garbage_block].objs) \in Nat
      BY <1>1, <1>2, <1>6, FlashIs DEF NorfsTypeOK
    <2>2. next_obj' \in 1 .. Len(blocks[garbage_block].objs) + 1
      BY <1>2, <2>1
    <2>3. \A b \in NorBlocks : blocks'[b].header \in {"bad", "free"} => blocks'[b].objs = <<>>
      BY <1>6, <1>8
    <2>4. block_free' = {b \in NorBlocks : blocks'[b].header = "free"}
      BY <1>6, <1>8, <1>9
    <2>5. \A b \in NorBlocks : blocks'[b].header \in {"started", "bad"} => b = write_block
      BY <1>6, <1>8
    <2>6. blocks'[write_block].header = "started" /\ blocks'[garbage_block].header = "finished"
      BY <1>2, <1>6, <1>8
    <2> QED BY <1>2, <1>3, <1>8, <1>9, <2>1, <2>2, <2>3, <2>4, <2>5, <2>6 DEF BlockStates
  <1>11. Finished' = Finished /\ Kept' = Kept /\ write_block \notin Finished /\ write_block \in Kept
    <2>1. Finished' = Finished /\ write_block \notin Finished
      BY <1>6, <1>8 DEF Finished
    <2> QED BY <1>2, <1>3, <2>1 DEF Kept
  <1>12. \A l : l \in ObjectsIn(Finished)' <=> l \in ObjectsIn(Finished)
    <2> TAKE l
    <2>1. l[1] \in Finished => blocks'[l[1]] = blocks[l[1]]
      BY <1>6, <1>11 DEF Finished
    <2> QED BY <1>1, <1>11, <2>1, LiveIs, LiveIsThen
  <1>13. \A l \in Nat \X Nat : Passed(l)' <=> Passed(l) \/ l = Collected
    <2> TAKE l \in Nat \X Nat
    <2>1. l = Collected <=> l[1] = garbage_block /\ l[2] = next_obj
      <3>1. l = <<l[1], l[2]>>
        OBVIOUS
      <3> QED BY <1>2, <3>1 DEF Collected
    <2>2. l[2] < next_obj + 1 <=> l[2] < next_obj \/ l[2] = next_obj
      BY <1>1 DEF NorfsTypeOK
    <2> QED BY <1>2, <1>3, <2>1, <2>2 DEF Passed
  <1>14. CASE copying
    <2>1. PICK c \in NorObject : blocks' = Written(blocks, write_block, c)
      BY <1>5, <1>14 DEF CopyOf
    <2>2. \A l : l \in Live' <=> (l \in Live /\ l # Collected) \/ l = Here
      <3> TAKE l
      <3>1. l \in Nat \X Nat /\ l[1] \in Kept /\ l[2] \in 1 .. Len(blocks'[l[1]].objs)
                 <=> \/ l \in Nat \X Nat /\ l[1] \in Kept /\ l[2] \in 1 .. Len(blocks[l[1]].objs)
                     \/ l = Here
        BY <1>1, <1>11, <2>1, KeptBlocks, Appended
      <3>2. l = Here => l \in Nat \X Nat /\ ~Passed(l) /\ l # Collected
        <4>1. Here \in Nat \X Nat /\ Here[1] = write_block /\ Here \notin Live
          BY <1>1, HereIs
        <4> QED BY <1>2, <4>1 DEF Passed
      <3> QED BY <1>1, <1>11, <1>13, <3>1, <3>2, LiveIs, LiveIsThen
    <2>3. Live' = (Live \ {Collected}) \cup {Here}
      BY <2>2
    <2> QED BY <1>6, <1>7, <1>10, <1>12, <1>14, <2>3 DEF copying
  <1>15. CASE ~copying
    <2>1. blocks' = blocks
      BY <1>4, <1>15
    <2>2. \A l : l \in Live' <=> l \in Live /\ l # Collected
      BY <1>1, <1>11, <1>13, <2>1, LiveIs, LiveIsThen
    <2>3. Live' = Live \ {Collected}
      BY <2>2
    <2> QED BY <1>6, <1>10, <1>12, <1>15, <2>3 DEF copying
  <1> QED BY <1>14, <1>15

LEMMA EraseBlocks ==
  ASSUME NorfsBase, erase_block
  PROVE  /\ BlockStates' /\ Live' = Live /\ Active /\ Exposed'
         /\ \A l \in Live : ObjAt(l)' = ObjAt(l)
  <1> DEFINE g == garbage_block
  <1>1. /\ NorfsTypeOK /\ NorfsTypeOK' /\ g' = g /\ g \in NorBlocks /\ g # write_block
        /\ write_block' = write_block /\ write_block \in NorBlocks /\ blocks \in Flash
    BY EraseType DEF NorfsBase, NorfsTypeOK
  <1>2. norfs_pc \in {"collect", "erased"} /\ norfs_pc' \in {"erased", "finish"} /\ next_obj' = next_obj
    BY DEF erase_block
  <1>3. Active /\ Active' /\ Opening /\ Opening'
    BY <1>2 DEF Active, Opening
  <1>4. /\ \A b \in NorBlocks : blocks[b].header \in {"bad", "free"} => blocks[b].objs = <<>>
        /\ block_free = {b \in NorBlocks : blocks[b].header = "free"}
        /\ num_free_blocks = Cardinality(block_free)
        /\ blocks[write_block].header = "started"
        /\ \A b \in NorBlocks : blocks[b].header \in {"started", "bad"} =>
             b = write_block \/ (norfs_pc = "erased" /\ b = g)
    BY <1>3 DEF NorfsBase, BlockStates
  <1>5. PICK n \in Nat : n = Len(blocks[g].objs) /\ DOMAIN blocks[g].objs = 1 .. n
    BY <1>1, FlashIs
  <1>6. PICK h \in {"bad", "free"} : blocks' = Erased(blocks, g, h)
    BY DEF erase_block, Erased
  <1>7. /\ blocks'[g].header = h /\ blocks'[g].objs = <<>> /\ Len(blocks'[g].objs) = 0
        /\ \A b \in NorBlocks \ {g} : blocks'[b] = blocks[b]
    <2>1. h \in Headers
      BY DEF Headers
    <2>2. blocks \in Flash /\ g \in NorBlocks
      BY <1>1
    <2> HIDE DEF g
    <2> QED BY <1>6, <2>1, <2>2, Erasing
  <1>8. \A b \in NorBlocks : blocks'[b].header \in {"bad", "free"} => blocks'[b].objs = <<>>
    BY <1>4, <1>7
  <1>9. blocks'[write_block].header = "started"
    BY <1>1, <1>4, <1>7
  <1>10. Finished' = Finished \ {g}
    BY <1>7 DEF Finished
  <1>11. Kept' = Kept \ {g}
    BY <1>1, <1>3, <1>10 DEF Kept
  <1>12. ASSUME BlockStates', Exposed', \A l \in Nat \X Nat : l[1] # g => ~Passed(l) /\ ~Passed(l)',
                \A l \in Live : l[1] # g
         PROVE  /\ BlockStates' /\ Live' = Live /\ Active /\ Exposed'
                /\ \A l \in Live : ObjAt(l)' = ObjAt(l)
    <2>1. \A l : l \in Live' <=> l \in Live
      <3> TAKE l
      <3>1. l \in Live <=> l \in Nat \X Nat /\ l[1] \in Kept \ {g} /\ l[2] \in 1 .. Len(blocks[l[1]].objs)
        BY <1>1, <1>12, LiveIs
      <3>2. l \in Live' <=> l \in Nat \X Nat /\ l[1] \in Kept \ {g} /\ l[2] \in 1 .. Len(blocks'[l[1]].objs)
        BY <1>1, <1>11, <1>12, LiveIsThen
      <3>3. l[1] \in Kept \ {g} => blocks'[l[1]] = blocks[l[1]]
        BY <1>1, <1>7, KeptBlocks
      <3> QED BY <3>1, <3>2, <3>3
    <2>2. ASSUME NEW l \in Live PROVE ObjAt(l)' = ObjAt(l)
      <3>1. l[1] \in NorBlocks \ {g}
        BY <1>1, <1>12, LiveIs, KeptBlocks
      <3>2. blocks'[l[1]] = blocks[l[1]]
        BY <1>7, <3>1
      <3> QED BY <3>2 DEF ObjAt
    <2>3. Live' = Live
      BY <2>1
    <2> QED BY <1>3, <1>12, <2>2, <2>3
  <1>13. CASE norfs_pc = "collect"
    <2>1. norfs_pc' = "erased" /\ h = "bad" /\ UNCHANGED <<block_free, num_free_blocks>> /\ next_obj \notin 1 .. n
      <3>1. norfs_pc' = "erased" /\ blocks' = Erased(blocks, g, "bad")
            /\ UNCHANGED <<block_free, num_free_blocks>> /\ next_obj \notin 1 .. n
        BY <1>5, <1>13 DEF erase_block, Erased
      <3>2. blocks'[g].header = "bad"
        <4>1. "bad" \in Headers /\ blocks \in Flash /\ g \in NorBlocks
          BY <1>1 DEF Headers
        <4> HIDE DEF g
        <4> QED BY <3>1, <4>1, Erasing
      <3> QED BY <1>7, <3>1, <3>2
    <2>2. blocks[g].header = "finished" /\ next_obj \in 1 .. n + 1
      BY <1>3, <1>5, <1>13 DEF NorfsBase, BlockStates
    <2>3. next_obj = n + 1
      BY <2>1, <2>2
    <2>4. block_free' = {b \in NorBlocks : blocks'[b].header = "free"}
      BY <1>4, <1>7, <2>1, <2>2
    <2>5. \A b \in NorBlocks : blocks'[b].header \in {"started", "bad"} => b = write_block \/ b = g
      BY <1>4, <1>7
    <2>6. next_obj' > 0 /\ norfs_pc' \notin {"idle", "space", "write", "collect", "finish"}
      BY <1>2, <2>1, <2>3
    <2>7. blocks'[g].header = "bad"
      BY <1>7, <2>1
    <2>8. BlockStates'
      <3> HIDE DEF g
      <3>1. garbage_block' = g
        BY <1>1 DEF g
      <3> QED BY <1>1, <1>3, <1>4, <1>8, <1>9, <2>1, <2>4, <2>5, <2>6, <2>7, <3>1 DEF BlockStates
    <2>9. Exposed'
      BY <2>1, <2>6 DEF Exposed
    <2>10. \A l \in Nat \X Nat : l[1] # g => ~Passed(l) /\ ~Passed(l)'
      BY <1>1 DEF Passed
    <2>11. ASSUME NEW l \in Live PROVE l[1] # g
      <3>1. ~Passed(l) /\ l[2] \in 1 .. Len(blocks[l[1]].objs)
        BY <1>1, LiveIs
      <3>2. l[1] = g => l[2] < next_obj
        BY <1>5, <2>3, <3>1
      <3> QED BY <1>13, <3>1, <3>2 DEF Passed
    <2> QED BY <1>12, <2>8, <2>9, <2>10, <2>11
  <1>14. CASE norfs_pc = "erased"
    <2>1. norfs_pc' = "finish" /\ block_free' = block_free \cup {g} /\ num_free_blocks' = num_free_blocks + 1
      BY <1>14 DEF erase_block
    <2>2. blocks'[g].header = "free"
      <3>1. "free" \in Headers /\ blocks \in Flash /\ g \in NorBlocks
        BY <1>1 DEF Headers
      <3>2. blocks' = Erased(blocks, g, "free")
        BY <1>14 DEF erase_block, Erased
      <3> HIDE DEF g
      <3> QED BY <3>1, <3>2, Erasing
    <2>3. blocks[g].header = "bad" /\ next_obj > 0
      BY <1>3, <1>14 DEF NorfsBase, BlockStates
    <2>4. block_free' = {b \in NorBlocks : blocks'[b].header = "free"}
      BY <1>1, <1>4, <1>7, <2>1, <2>2
    <2>5. num_free_blocks' = Cardinality(block_free')
      <3>1. IsFiniteSet(block_free) /\ g \notin block_free
        BY <1>4, <2>3, BlocksFinite, FS_Subset
      <3> QED BY <1>4, <2>1, <3>1, FS_AddElement
    <2>6. \A b \in NorBlocks : blocks'[b].header \in {"started", "bad"} => b = write_block
      BY <1>4, <1>7, <2>2
    <2>7. next_obj' > 0 /\ next_obj' # 0 /\ norfs_pc' \notin {"idle", "space", "write", "collect", "erased"}
      BY <1>1, <1>2, <2>1, <2>3 DEF NorfsTypeOK
    <2>8. BlockStates'
      <3>1. garbage_block' = g
        BY <1>1
      <3> QED BY <1>1, <1>3, <1>8, <1>9, <2>2, <2>4, <2>5, <2>6, <2>7, <3>1 DEF BlockStates
    <2>9. Exposed'
      BY <2>1, <2>7 DEF Exposed
    <2>10. \A l \in Nat \X Nat : l[1] # g => ~Passed(l) /\ ~Passed(l)'
      BY <1>1 DEF Passed
    <2>11. ASSUME NEW l \in Live PROVE l[1] # g
      <3>1. g \notin Kept
        BY <1>1, <1>3, <2>3, KeptBlocks
      <3> QED BY <1>1, <3>1, LiveIs
    <2> QED BY <1>12, <2>8, <2>9, <2>10, <2>11
  <1> QED BY <1>2, <1>13, <1>14

LEMMA FinishBlocks ==
  ASSUME NorfsBase, finish_block
  PROVE  /\ BlockStates' /\ Live' = Live /\ ObjectsIn(Finished)' = Live /\ Active /\ Active'
         /\ \A l \in Live : ObjAt(l)' = ObjAt(l)
  <1>1. NorfsTypeOK /\ NorfsTypeOK' /\ norfs_pc = "finish" /\ norfs_pc' \in {"space", "idle"}
        /\ fs_mounted' /\ write_block' = write_block /\ next_obj' = 0
        /\ write_block \in NorBlocks /\ blocks \in Flash /\ UNCHANGED <<block_free, num_free_blocks>>
    BY FinishType DEF NorfsBase, NorfsTypeOK, finish_block
  <1>2. Active /\ Active' /\ Opening /\ ~Opening'
    BY <1>1 DEF Active, Opening
  <1>3. /\ \A b \in NorBlocks : blocks[b].header \in {"bad", "free"} => blocks[b].objs = <<>>
        /\ block_free = {b \in NorBlocks : blocks[b].header = "free"}
        /\ num_free_blocks = Cardinality(block_free)
        /\ blocks[write_block].header = "started"
        /\ \A b \in NorBlocks : blocks[b].header \in {"started", "bad"} => b = write_block
    BY <1>1, <1>2 DEF NorfsBase, BlockStates
  <1>4. /\ blocks'[write_block].header = "finished" /\ blocks'[write_block].objs = blocks[write_block].objs
        /\ \A b \in NorBlocks \ {write_block} : blocks'[b] = blocks[b]
    <2>1. PICK h \in Headers : h = "finished"
      BY DEF Headers
    <2>2. blocks' = Marked(blocks, write_block, h)
      BY <2>1 DEF finish_block, Marked
    <2>3. blocks \in Flash /\ write_block \in NorBlocks
      BY <1>1
    <2>4. /\ blocks'[write_block].header = h /\ blocks'[write_block].objs = blocks[write_block].objs
          /\ \A b \in NorBlocks \ {write_block} : blocks'[b] = blocks[b]
      BY <2>2, <2>3, Marking
    <2> QED BY <2>1, <2>4
  <1>5. \A b \in NorBlocks : blocks'[b].objs = blocks[b].objs
    BY <1>4
  <1>6. /\ \A b \in NorBlocks : blocks'[b].header \in {"bad", "free"} => blocks'[b].objs = <<>>
        /\ block_free' = {b \in NorBlocks : blocks'[b].header = "free"}
        /\ \A b \in NorBlocks : blocks'[b].header \notin {"started", "bad"}
    BY <1>1, <1>3, <1>4
  <1>7. BlockStates'
    <2>1. garbage_block' = garbage_block /\ write_offset' = write_offset
      BY <1>1 DEF garbage_block, finish_block
    <2>2. garbage_block \in NorBlocks \ {write_block}
      BY <1>1, Garbage DEF garbage_block
    <2>3. write_offset' = BLOCK_UNITS => blocks'[garbage_block'].header = "free"
      BY <1>1, <1>2, <1>4, <2>1, <2>2 DEF NorfsBase, BlockStates
    <2> QED BY <1>1, <1>2, <1>3, <1>4, <1>6, <2>3 DEF BlockStates
  <1>8. Kept' = Kept /\ Finished' = Kept
    BY <1>2, <1>4, <1>1 DEF Kept, Finished
  <1>9. \A l : ~Passed(l) /\ ~Passed(l)'
    BY <1>1 DEF Passed
  <1>10. \A l : (l \in Live' <=> l \in Live) /\ (l \in ObjectsIn(Finished)' <=> l \in Live)
    <2> TAKE l
    <2>1. l[1] \in Kept => blocks'[l[1]].objs = blocks[l[1]].objs
      BY <1>1, <1>5, KeptBlocks
    <2>2. l \in Live <=> l \in Nat \X Nat /\ l[1] \in Kept /\ l[2] \in 1 .. Len(blocks[l[1]].objs)
      BY <1>1, <1>9, LiveIs
    <2>3. /\ l \in Live' <=> l \in Nat \X Nat /\ l[1] \in Kept /\ l[2] \in 1 .. Len(blocks'[l[1]].objs)
          /\ l \in ObjectsIn(Finished)' <=> l \in Nat \X Nat /\ l[1] \in Kept /\ l[2] \in 1 .. Len(blocks'[l[1]].objs)
      BY <1>1, <1>8, <1>9, LiveIsThen
    <2> QED BY <2>1, <2>2, <2>3
  <1>11. ASSUME NEW l \in Live PROVE ObjAt(l)' = ObjAt(l)
    <2>1. l[1] \in NorBlocks
      BY <1>1, LiveIs, KeptBlocks
    <2> QED BY <1>5, <2>1 DEF ObjAt
  <1>12. Live' = Live /\ ObjectsIn(Finished)' = Live
    BY <1>10
  <1> QED BY <1>2, <1>7, <1>11, <1>12

LEMMA StoringBlocks ==
  ASSUME NorfsBase, Storing
  PROVE  /\ BlockStates' /\ Active /\ Live = ObjectsIn(Finished)
         /\ Live' = Live \cup {Here} /\ ObjectsIn(Finished)' = Live \cup {Here}
         /\ \A l \in Live : ObjAt(l)' = ObjAt(l)
         /\ \A h : h = Here => ObjAt(h)' = putting
  <1>1. NorfsTypeOK /\ NorfsTypeOK' /\ norfs_pc = "write" /\ norfs_pc' \in {"open", "idle", "broken"}
        /\ write_block' = write_block /\ write_block \in NorBlocks
        /\ putting \in NorObject /\ blocks' = Written(blocks, write_block, putting)
    BY StoringIs, StoringType DEF NorfsBase, NorfsTypeOK
  <1>2. UNCHANGED <<block_free, num_free_blocks>> /\ (norfs_pc' = "idle" => write_offset' # BLOCK_UNITS)
    BY DEF Storing, put_writes, put_uses_freed_inode
  <1>3. Active /\ ~Opening /\ ~Opening'
    BY <1>1 DEF Active, Opening
  <1>4. /\ \A b \in NorBlocks : blocks[b].header \in {"bad", "free"} => blocks[b].objs = <<>>
        /\ block_free = {b \in NorBlocks : blocks[b].header = "free"}
        /\ num_free_blocks = Cardinality(block_free)
        /\ blocks[write_block].header = "finished"
        /\ \A b \in NorBlocks : blocks[b].header \notin {"started", "bad"}
    BY <1>1, <1>3 DEF NorfsBase, BlockStates, Opening
  <1>5. /\ \A b \in NorBlocks : blocks'[b].header = blocks[b].header
        /\ \A b \in NorBlocks \ {write_block} : blocks'[b] = blocks[b]
        /\ \A l \in ObjectsIn(NorBlocks) : ObjAt(l)' = ObjAt(l)
        /\ \A h : h = Here => ObjAt(h)' = putting
    BY <1>1, Appended
  <1>6. /\ \A b \in NorBlocks : blocks'[b].header \in {"bad", "free"} => blocks'[b].objs = <<>>
        /\ block_free' = {b \in NorBlocks : blocks'[b].header = "free"}
        /\ \A b \in NorBlocks : blocks'[b].header \notin {"started", "bad"}
        /\ blocks'[write_block].header = "finished"
    BY <1>1, <1>2, <1>4, <1>5
  <1>7. BlockStates'
    BY <1>1, <1>2, <1>3, <1>4, <1>6 DEF BlockStates, Active
  <1>8. Finished' = Finished /\ Kept' = Finished /\ Kept = Finished /\ write_block \in Finished
    BY <1>1, <1>3, <1>4, <1>5 DEF Finished, Kept
  <1>9. \A l : ~Passed(l) /\ ~Passed(l)'
    BY <1>1 DEF Passed
  <1>10. \A l : /\ l \in Live <=> l \in ObjectsIn(Finished)
                /\ l \in Live' <=> l \in Live \/ l = Here
                /\ l \in ObjectsIn(Finished)' <=> l \in Live \/ l = Here
    <2> TAKE l
    <2>1. l \in Nat \X Nat /\ l[1] \in Finished /\ l[2] \in 1 .. Len(blocks'[l[1]].objs)
                 <=> \/ l \in Nat \X Nat /\ l[1] \in Finished /\ l[2] \in 1 .. Len(blocks[l[1]].objs)
                     \/ l = Here
      BY <1>1, <1>8, KeptBlocks, Appended
    <2>2. /\ l \in Live <=> l \in Nat \X Nat /\ l[1] \in Finished /\ l[2] \in 1 .. Len(blocks[l[1]].objs)
          /\ l \in ObjectsIn(Finished) <=> l \in Nat \X Nat /\ l[1] \in Finished /\ l[2] \in 1 .. Len(blocks[l[1]].objs)
      BY <1>1, <1>8, <1>9, LiveIs
    <2>3. /\ l \in Live' <=> l \in Nat \X Nat /\ l[1] \in Finished /\ l[2] \in 1 .. Len(blocks'[l[1]].objs)
          /\ l \in ObjectsIn(Finished)' <=> l \in Nat \X Nat /\ l[1] \in Finished /\ l[2] \in 1 .. Len(blocks'[l[1]].objs)
      BY <1>1, <1>8, <1>9, LiveIsThen
    <2> QED BY <2>1, <2>2, <2>3
  <1>11. Live = ObjectsIn(Finished) /\ Live' = Live \cup {Here} /\ ObjectsIn(Finished)' = Live \cup {Here}
    BY <1>10
  <1>12. \A l \in Live : ObjAt(l)' = ObjAt(l)
    BY <1>1, <1>5, FinishedWithin
  <1> QED BY <1>3, <1>5, <1>7, <1>11, <1>12

(* An object is put over the header of a block, which is a free one. *)
LEMMA OverHeader ==
  ASSUME NorfsBase, put_over_header
  PROVE  /\ NorfsTypeOK' /\ BlockStates' /\ ~Active' /\ Active /\ ~Exposed
         /\ ObjectsIn(Finished)' = ObjectsIn(Finished)
         /\ \A l \in ObjectsIn(Finished) : ObjAt(l)' = ObjAt(l)
         /\ \E k \in Keys : /\ overtaken' = overtaken \cup {k}
                            /\ \A m \in Keys \ {k} : acked'[m] = acked[m]
  <1>1. /\ NorfsTypeOK /\ norfs_pc = "write" /\ norfs_pc' = "broken" /\ write_offset = BLOCK_UNITS
        /\ write_block \in NorBlocks /\ blocks \in Flash
    BY DEF NorfsBase, put_over_header, NorfsTypeOK
  <1>2. Active /\ ~Active' /\ ~Opening /\ ~Exposed
    BY <1>1 DEF Active, Opening, Exposed
  <1>3. /\ \A b \in NorBlocks : blocks[b].header \in {"bad", "free"} => blocks[b].objs = <<>>
        /\ blocks[garbage_block].header = "free"
    BY <1>1, <1>2 DEF NorfsBase, BlockStates
  <1>4. ASSUME NEW b \in NorBlocks, b = write_block_num PROVE b = garbage_block
    <2>1. b = write_block + 1
      BY <1>1, <1>4 DEF write_block_num
    <2>2. PICK N \in Nat : N = NUM_BLOCKS /\ N > 1
      BY NorConstants
    <2>3. b \in 0 .. N - 1 /\ write_block \in 0 .. N - 1
      BY <1>1, <2>2 DEF NorBlocks
    <2>4. (write_block + 1) % N = write_block + 1
      BY <2>1, <2>2, <2>3
    <2> QED BY <2>1, <2>2, <2>4 DEF garbage_block, select_garbage_block
  <1>5. \A b \in NorBlocks : /\ blocks[b] \in [header : Headers, objs : Seq(NorObject)]
                             /\ blocks'[b] = IF b = write_block_num THEN [blocks[b] EXCEPT !.header = "bad"]
                                             ELSE blocks[b]
    BY <1>1 DEF Flash, Headers, put_over_header
  <1>6. \A b \in NorBlocks : /\ blocks'[b] \in [header : Headers, objs : Seq(NorObject)]
                             /\ blocks'[b].objs = blocks[b].objs
                             /\ \/ blocks'[b].header = blocks[b].header
                                \/ blocks[b].header = "free" /\ blocks'[b].header = "bad"
    <2> TAKE b \in NorBlocks
    <2>1. CASE b = write_block_num
      <3>1. blocks[b].header = "free"
        BY <1>3, <1>4, <2>1
      <3>2. blocks'[b] = [blocks[b] EXCEPT !.header = "bad"]
        BY <1>5, <2>1
      <3>3. "bad" \in Headers
        BY DEF Headers
      <3> QED BY <1>5, <3>1, <3>2, <3>3
    <2>2. CASE b # write_block_num
      <3>1. blocks'[b] = blocks[b]
        BY <1>5, <2>2
      <3> QED BY <1>5, <3>1
    <2> QED BY <2>1, <2>2
  <1>7. blocks' \in Flash
    <2>1. PICK F : F = [b \in NorBlocks |->
                          IF b = write_block_num THEN [blocks[b] EXCEPT !.header = "bad"] ELSE blocks[b]]
      OBVIOUS
    <2>2. blocks' = F
      BY <2>1 DEF put_over_header
    <2>3. \A b \in NorBlocks : F[b] \in [header : Headers, objs : Seq(NorObject)]
      BY <1>6, <2>2
    <2>4. F \in [NorBlocks -> [header : Headers, objs : Seq(NorObject)]]
      BY <2>1, <2>3
    <2> QED BY <2>2, <2>4 DEF Flash, Headers
  <1>8. PICK k \in Keys : k = putting.key /\ putting.value \in Values \cup {Deleted}
    BY <1>1 DEF NorfsTypeOK, NorObject
  <1>9. acked' = [acked EXCEPT ![k] = putting.value] /\ overtaken' = overtaken \cup {k}
    BY <1>8 DEF put_over_header
  <1>10. acked' \in [Keys -> Values \cup {Deleted}] /\ \A m \in Keys \ {k} : acked'[m] = acked[m]
    BY <1>1, <1>8, <1>9 DEF NorfsTypeOK
  <1>11. NorfsTypeOK'
    <2>1. UNCHANGED <<fs_mounted, write_block, write_offset, inodes, caller, putting, next_obj>>
      BY DEF put_over_header, memvars
    <2> QED BY <1>1, <1>7, <1>10, <2>1 DEF NorfsTypeOK
  <1>12. BlockStates'
    BY <1>2, <1>3, <1>6 DEF BlockStates
  <1>13. Finished' = Finished
    BY <1>6 DEF Finished
  <1>14. \A l : l \in ObjectsIn(Finished)' <=> l \in ObjectsIn(Finished)
    <2> TAKE l
    <2>1. l[1] \in Finished => blocks'[l[1]].objs = blocks[l[1]].objs
      BY <1>6 DEF Finished
    <2> QED BY <1>1, <1>11, <1>13, <2>1, LiveIs, LiveIsThen
  <1>15. ASSUME NEW l \in ObjectsIn(Finished) PROVE ObjAt(l)' = ObjAt(l)
    <2>1. l[1] \in NorBlocks
      BY <1>1, LiveIs DEF Finished
    <2> QED BY <1>6, <2>1 DEF ObjAt
  <1> QED BY <1>2, <1>9, <1>10, <1>11, <1>12, <1>14, <1>15
-----------------------------------------------------------------------------
(* The counts of references. *)
LEMMA HeldFinite ==
  ASSUME Exact, NEW k
  PROVE  IsFiniteSet(Held(k)) /\ Cardinality(Held(k)) \in Nat
  <1>1. IsFiniteSet(Live) /\ Held(k) \subseteq Live
    BY DEF Exact, Held
  <1> QED BY <1>1, FS_Subset, FS_CardinalityType

LEMMA ExactSame ==
  ASSUME Exact, Live' = Live, \A l \in Live : ObjAt(l)' = ObjAt(l), inodes' = inodes
  PROVE  Exact' /\ \A k : Held(k)' = Held(k)
  <1>1. ASSUME NEW k PROVE Held(k)' = Held(k)
    BY DEF Held
  <1>2. \A k \in Keys : (HasInode(k)' <=> HasInode(k))
    BY DEF HasInode
  <1> QED BY <1>1, <1>2 DEF Exact

LEMMA ExactMounted ==
  ASSUME NEW ix \in Index, Built(ix, ObjectsIn(Finished)), inodes' = ix.inodes,
         Live' = ObjectsIn(Finished), \A l \in Live' : ObjAt(l)' = ObjAt(l)
  PROVE  Exact' /\ \A k : Held(k)' = Of(ObjectsIn(Finished), k)
  <1>1. ASSUME NEW k PROVE Held(k)' = Of(ObjectsIn(Finished), k)
    BY DEF Held, Of
  <1>2. IsFiniteSet(Live')
    BY DEF Built
  <1>3. ASSUME NEW k \in Keys
        PROVE  /\ inodes'[k].reference_count = Cardinality(Held(k)')
               /\ HasInode(k)' => inodes'[k].location \in Held(k)'
    BY <1>1 DEF Built, HasInode
  <1> QED BY <1>1, <1>2, <1>3 DEF Exact

(* Live' and Held' after object x has gone. *)
LEMMA HeldLess ==
  ASSUME NEW x \in Live, Live' = Live \ {x}, \A l \in Live : ObjAt(l)' = ObjAt(l), NEW k
  PROVE  Held(k)' = IF k = ObjAt(x).key THEN Held(k) \ {x} ELSE Held(k)
  BY DEF Held

(* And after it has moved to h. *)
LEMMA HeldMoved ==
  ASSUME NEW x \in Live, NEW h, Live' = (Live \ {x}) \cup {h}, \A l \in Live : ObjAt(l)' = ObjAt(l),
         ObjAt(h)'.key = ObjAt(x).key, NEW k
  PROVE  Held(k)' = IF k = ObjAt(x).key THEN (Held(k) \ {x}) \cup {h} ELSE Held(k)
  <1>1. CASE k = ObjAt(x).key
    BY <1>1 DEF Held
  <1>2. CASE k # ObjAt(x).key
    BY <1>2 DEF Held
  <1> QED BY <1>1, <1>2

LEMMA ExactCollect ==
  ASSUME NorfsBase, collect_garbage_object
  PROVE  Exact'
  <1>0. PICK x, k : x = Collected /\ k = ObjAt(x).key
    OBVIOUS
  <1>1. NorfsTypeOK /\ Active /\ Exact
    BY CollectedIs DEF NorfsBase, InodesExact
  <1>2. x \in Live /\ k \in Keys /\ x \in ObjectsIn(NorBlocks) /\ x \in Held(k)
    BY <1>0, CollectedIs DEF Held
  <1>3. inodes \in [Keys -> Inode] /\ inodes[k].reference_count \in Nat
    BY <1>1, <1>2 DEF NorfsTypeOK, Inode
  <1>4. /\ \A l \in Live : ObjAt(l)' = ObjAt(l)
        /\ IF Copying(x, k) THEN Live' = (Live \ {x}) \cup {Here} ELSE Live' = Live \ {x}
        /\ Copying(x, k) => \A h : h = Here => CopyOf(ObjAt(x), ObjAt(h)')
    BY <1>0, <1>1, CollectBlocks, FinishedWithin
  <1>5. IsFiniteSet(Held(k)) /\ IsFiniteSet(Live) /\ Cardinality(Held(k)) = inodes[k].reference_count
    BY <1>1, <1>2, HeldFinite DEF Exact
  <1>6. Cardinality(Held(k) \ {x}) = Cardinality(Held(k)) - 1 /\ IsFiniteSet(Held(k) \ {x})
    BY <1>2, <1>5, FS_RemoveElement
  <1>7. \A m \in Keys \ {k} : HasInode(m) => inodes[m].location \in Held(m)
    BY <1>1 DEF Exact
  <1>8. \A m \in Keys \ {k} : inodes[m].reference_count = Cardinality(Held(m))
    BY <1>1 DEF Exact
  <1>9. ASSUME \A m \in Keys \ {k} : Held(m)' = Held(m) /\ inodes'[m] = inodes[m],
               IsFiniteSet(Live'), inodes'[k].reference_count = Cardinality(Held(k)'),
               HasInode(k)' => inodes'[k].location \in Held(k)'
        PROVE  Exact'
    <2>1. \A m \in Keys \ {k} : HasInode(m)' <=> HasInode(m)
      BY <1>9 DEF HasInode
    <2>2. \A m \in Keys : inodes'[m].reference_count = Cardinality(Held(m)')
      BY <1>8, <1>9
    <2>3. \A m \in Keys : HasInode(m)' => inodes'[m].location \in Held(m)'
      BY <1>7, <1>9, <2>1
    <2> QED BY <1>9, <2>2, <2>3 DEF Exact
  <1>10. CASE Copying(x, k)
    <2>1. PICK h : h = Here
      OBVIOUS
    <2>2. Live' = (Live \ {x}) \cup {h} /\ CopyOf(ObjAt(x), ObjAt(h)') /\ h \notin Live
      BY <1>1, <1>4, <1>10, <2>1, HereIs
    <2>3. ObjAt(h)'.key = k
      BY <1>0, <2>2 DEF CopyOf
    <2>4. \A m : Held(m)' = IF m = k THEN (Held(m) \ {x}) \cup {h} ELSE Held(m)
      BY <1>0, <1>2, <1>4, <2>2, <2>3, HeldMoved
    <2>5. PICK e \in Inode : e.location = h /\ e.reference_count = inodes[k].reference_count
                             /\ inodes' = [inodes EXCEPT ![k] = e]
      BY <1>10, <2>1 DEF Copying
    <2>6. inodes'[k] = e /\ \A m \in Keys \ {k} : inodes'[m] = inodes[m]
      BY <1>2, <1>3, <2>5
    <2>7. h \notin Held(k) \ {x}
      BY <2>2 DEF Held
    <2>8. Cardinality((Held(k) \ {x}) \cup {h}) = Cardinality(Held(k))
      <3>1. PICK S : S = Held(k) \ {x}
        OBVIOUS
      <3>2. IsFiniteSet(S) /\ h \notin S /\ Cardinality(S) = Cardinality(Held(k)) - 1
        BY <1>6, <2>7, <3>1
      <3>3. Cardinality(S \cup {h}) = Cardinality(S) + 1
        BY <3>2, FS_AddElement
      <3> QED BY <1>3, <1>5, <3>1, <3>2, <3>3
    <2>9. IsFiniteSet(Live')
      BY <1>5, <2>2, FS_AddElement, FS_RemoveElement
    <2>10. inodes'[k].reference_count = Cardinality(Held(k)') /\ inodes'[k].location \in Held(k)'
      BY <1>5, <2>4, <2>5, <2>6, <2>8
    <2> QED BY <1>9, <2>4, <2>6, <2>9, <2>10
  <1>11. CASE ~Copying(x, k)
    <2>1. Live' = Live \ {x}
      BY <1>4, <1>11
    <2>2. \A m : Held(m)' = IF m = k THEN Held(m) \ {x} ELSE Held(m)
      BY <1>0, <1>2, <1>4, <2>1, HeldLess
    <2>3. IsFiniteSet(Live')
      BY <1>5, <2>1, FS_RemoveElement
    <2>4. CASE Dropping(x, k)
      <3>1. inodes' = [inodes EXCEPT ![k] = NoInode] /\ inodes[k].reference_count = 1
        BY <1>0, <2>4 DEF Dropping, LastTrace
      <3>2. inodes'[k] = NoInode /\ \A m \in Keys \ {k} : inodes'[m] = inodes[m]
        BY <1>2, <1>3, <3>1
      <3>3. inodes'[k].reference_count = 0
        BY <3>2 DEF NoInode
      <3>4. ~HasInode(k)'
        BY <3>3 DEF HasInode
      <3>5. inodes'[k].reference_count = Cardinality(Held(k)')
        BY <1>5, <1>6, <2>2, <3>1, <3>3
      <3> QED BY <1>9, <2>2, <2>3, <3>2, <3>4, <3>5
    <2>5. CASE Skipping(x, k)
      <3>1. PICK e \in Inode : e.location = inodes[k].location /\ e.reference_count = inodes[k].reference_count - 1
                             /\ inodes' = [inodes EXCEPT ![k] = e] /\ inodes[k].location # x
        BY <2>5 DEF Skipping
      <3>2. inodes'[k] = e /\ \A m \in Keys \ {k} : inodes'[m] = inodes[m]
        BY <1>2, <1>3, <3>1
      <3>3. inodes'[k].reference_count = Cardinality(Held(k)')
        BY <1>5, <1>6, <2>2, <3>1, <3>2
      <3>4. HasInode(k)' => HasInode(k)
        BY <1>3, <3>1, <3>2 DEF HasInode
      <3>5. HasInode(k)' => inodes'[k].location \in Held(k)'
        BY <1>1, <1>2, <2>2, <3>1, <3>2, <3>4 DEF Exact
      <3> QED BY <1>9, <2>2, <2>3, <3>2, <3>3, <3>5
    <2> QED BY <1>0, <1>11, <2>4, <2>5, CollectCases
  <1> QED BY <1>10, <1>11

LEMMA ExactPut ==
  ASSUME NorfsBase, put_writes
  PROVE  Exact' /\ \A m \in Keys : Held(m)' = IF m = putting.key THEN Held(m) \cup {Here} ELSE Held(m)
  <1>1. /\ NorfsTypeOK /\ Active /\ Exact /\ Live' = Live \cup {Here}
        /\ \A l \in Live : ObjAt(l)' = ObjAt(l)
        /\ \A h : h = Here => ObjAt(h)' = putting
    BY StoringBlocks DEF NorfsBase, InodesExact, Storing
  <1>2. PICK h : h = Here /\ h \notin Live
    BY <1>1, HereIs
  <1>3. PICK k \in Keys : k = putting.key
    BY <1>1, PutWritesIs
  <1>4. ObjAt(h)'.key = k
    BY <1>1, <1>2, <1>3
  <1>5. ASSUME NEW m PROVE Held(m)' = IF m = k THEN Held(m) \cup {h} ELSE Held(m)
    <2>1. CASE m = k
      BY <1>1, <1>2, <1>4, <2>1 DEF Held
    <2>2. CASE m # k
      BY <1>1, <1>2, <1>4, <2>2 DEF Held
    <2> QED BY <2>1, <2>2
  <1>6. PICK e \in Inode : e.location = h /\ e.reference_count = inodes[k].reference_count + 1
                           /\ inodes' = [inodes EXCEPT ![k] = e]
    BY <1>1, <1>2, <1>3, PutWritesIs
  <1>7. inodes'[k] = e /\ \A m \in Keys \ {k} : inodes'[m] = inodes[m]
    BY <1>1, <1>6 DEF NorfsTypeOK
  <1>8. IsFiniteSet(Held(k)) /\ h \notin Held(k) /\ inodes[k].reference_count = Cardinality(Held(k))
    BY <1>1, <1>2, HeldFinite DEF Exact, Held
  <1>9. Cardinality(Held(k) \cup {h}) = Cardinality(Held(k)) + 1
    BY <1>8, FS_AddElement
  <1>10. IsFiniteSet(Live')
    BY <1>1, FS_AddElement DEF Exact
  <1>11. \A m \in Keys : inodes'[m].reference_count = Cardinality(Held(m)')
    BY <1>1, <1>5, <1>6, <1>7, <1>8, <1>9 DEF Exact
  <1>12. \A m \in Keys : HasInode(m)' => inodes'[m].location \in Held(m)'
    <2> TAKE m \in Keys
    <2>1. CASE m = k
      BY <1>5, <1>6, <1>7, <2>1
    <2>2. CASE m # k
      <3>1. inodes'[m] = inodes[m] /\ Held(m)' = Held(m)
        BY <1>5, <1>7, <2>2
      <3>2. HasInode(m)' <=> HasInode(m)
        BY <3>1 DEF HasInode
      <3> QED BY <1>1, <3>1, <3>2 DEF Exact
    <2> QED BY <2>1, <2>2
  <1> QED BY <1>2, <1>3, <1>5, <1>10, <1>11, <1>12 DEF Exact

LEMMA NorfsBaseInit ==
  ASSUME NorfsInit
  PROVE  NorfsBase
  <1>1. \A b \in NorBlocks : blocks[b].objs = <<>>
    BY DEF NorfsInit, Empty
  <1>2. ~Active
    BY DEF NorfsInit, Unmounted, Active
  <1> QED BY <1>1, <1>2, NoObjectYet DEF NorfsBase, BlockStates, InodesExact

LEMMA NorfsBaseStep ==
  ASSUME NorfsBase, [NorfsNext]_norfsvars
  PROVE  NorfsBase'
  <1>1. NorfsTypeOK
    BY DEF NorfsBase
  <1>2. ASSUME norfs_mount_fs PROVE NorfsBase'
    <2>1. Mount(NorBlocks \ Finished, MountedIndex) /\ acked' = acked
      BY <1>2 DEF norfs_mount_fs, promised
    <2>2. PICK free \in SUBSET NorBlocks : free = NorBlocks \ Finished
      OBVIOUS
    <2>3. PICK ix \in Index : ix = MountedIndex /\ Built(ix, ObjectsIn(Finished))
      BY <1>1, MountBuilds
    <2>4. Mount(free, ix) /\ acked' \in [Keys -> Values \cup {Deleted}]
      BY <1>1, <2>1, <2>2, <2>3 DEF NorfsTypeOK
    <2>5. NorfsTypeOK'
      BY <1>1, <2>4, MountType
    <2>6. /\ BlockStates'
          /\ \A l : l \in Live' <=> l \in ObjectsIn(Finished) /\ l[1] \notin free
          /\ \A l \in Live' : ObjAt(l)' = ObjAt(l)
      BY <2>2, <2>4, MountBlocks
    <2>7. Live' = ObjectsIn(Finished)
      <3>1. \A l \in ObjectsIn(Finished) : l[1] \in Finished
        BY <1>1, LiveIs
      <3> QED BY <2>2, <2>6, <3>1
    <2>8. inodes' = ix.inodes
      BY <2>4 DEF Mount
    <2>9. Exact'
      BY <2>3, <2>6, <2>7, <2>8, ExactMounted
    <2> QED BY <2>5, <2>6, <2>9 DEF NorfsBase, InodesExact
  <1>3. ASSUME norfs_wipe_fs PROVE NorfsBase'
    <2>1. PICK free \in SUBSET NorBlocks : free = NorBlocks
      OBVIOUS
    <2>2. PICK ix \in Index : ix = EmptyIndex
      BY EmptyIsIndex
    <2>3. Mount(free, ix) /\ acked' \in [Keys -> Values \cup {Deleted}]
      BY <1>3, <2>1, <2>2 DEF norfs_wipe_fs
    <2>4. NorfsTypeOK'
      BY <1>1, <2>3, MountType
    <2>5. /\ BlockStates'
          /\ \A l : l \in Live' <=> l \in ObjectsIn(Finished) /\ l[1] \notin free
      BY <2>1, <2>3, MountBlocks
    <2>6. Live' = {}
      <3>1. \A l \in ObjectsIn(Finished) : l[1] \in NorBlocks
        BY <1>1, LiveIs, KeptBlocks
      <3> QED BY <2>1, <2>5, <3>1
    <2>7. \A k : Held(k)' = {}
      BY <2>6 DEF Held
    <2>8. \A k \in Keys : inodes'[k].reference_count = 0
      BY <2>2, <2>3 DEF Mount, EmptyIndex, NoInode
    <2>9. \A k \in Keys : ~HasInode(k)'
      BY <2>8 DEF HasInode
    <2>10. Exact'
      BY <2>6, <2>7, <2>8, <2>9, FS_EmptySet DEF Exact
    <2> QED BY <2>4, <2>5, <2>10 DEF NorfsBase, InodesExact
  <1>4. ASSUME norfs_unmount_fs \/ norfs_power_fails PROVE NorfsBase'
    <2>1. NorfsForget /\ Settle /\ UNCHANGED blocks
      BY <1>4 DEF norfs_unmount_fs, norfs_power_fails
    <2> QED BY <1>1, <2>1, ForgetType, ForgetBlocks DEF NorfsBase, InodesExact
  <1>5. ASSUME Aside, Active, Active', NorfsTypeOK',
               norfs_pc \in {"idle", "space", "write"} \/ norfs_pc' \notin {"idle", "space", "write"}
        PROVE  NorfsBase'
    <2>1. BlockStates' /\ Live' = Live /\ \A l : ObjAt(l)' = ObjAt(l)
      BY <1>5, AsideBlocks
    <2>2. Exact /\ inodes' = inodes
      BY <1>5 DEF NorfsBase, InodesExact, Aside
    <2>3. Exact'
      BY <2>1, <2>2, ExactSame
    <2> QED BY <1>5, <2>1, <2>3 DEF NorfsBase, InodesExact
  <1>6. ASSUME NEW k \in Keys, NEW v \in Values \cup {Deleted}, norfs_put_obj_iovec(k, v) PROVE NorfsBase'
    <2>1. NorfsTypeOK'
      BY <1>6, PutType
    <2>2. Aside /\ norfs_pc = "idle" /\ norfs_pc' = "space" /\ fs_mounted
      BY <1>6 DEF norfs_put_obj_iovec, Aside, memvars
    <2>3. Active /\ Active'
      BY <2>2 DEF Active
    <2> QED BY <1>5, <2>1, <2>2, <2>3
  <1>7. ASSUME find_space_for_object PROVE NorfsBase'
    <2>1. NorfsTypeOK'
      BY <1>1, <1>7, SpaceType
    <2>2. Aside /\ norfs_pc = "space" /\ norfs_pc' \in {"write", "open"}
      BY <1>7 DEF find_space_for_object, Aside, memvars
    <2>3. Active /\ Active'
      BY <2>2 DEF Active
    <2> QED BY <1>5, <2>1, <2>2, <2>3
  <1>8. ASSUME initialize_next_block PROVE NorfsBase'
    <2>1. /\ NorfsTypeOK' /\ Active /\ BlockStates' /\ Live' = Live
          /\ \A l \in Live : ObjAt(l)' = ObjAt(l)
      BY <1>8, OpenedBlock, OpenBlocks
    <2>2. Exact /\ inodes' = inodes
      BY <1>8, <2>1 DEF NorfsBase, InodesExact, initialize_next_block
    <2> QED BY <2>1, <2>2, ExactSame DEF NorfsBase, InodesExact
  <1>9. ASSUME collect_garbage_object PROVE NorfsBase'
    BY <1>9, CollectType, CollectBlocks, ExactCollect DEF NorfsBase, InodesExact
  <1>10. ASSUME erase_block PROVE NorfsBase'
    <2>1. /\ NorfsTypeOK' /\ Active /\ BlockStates' /\ Live' = Live
          /\ \A l \in Live : ObjAt(l)' = ObjAt(l)
      BY <1>1, <1>10, EraseType, EraseBlocks
    <2>2. Exact /\ inodes' = inodes
      BY <1>10, <2>1 DEF NorfsBase, InodesExact, erase_block
    <2> QED BY <2>1, <2>2, ExactSame DEF NorfsBase, InodesExact
  <1>11. ASSUME finish_block PROVE NorfsBase'
    <2>1. /\ NorfsTypeOK' /\ Active /\ BlockStates' /\ Live' = Live
          /\ \A l \in Live : ObjAt(l)' = ObjAt(l)
      BY <1>1, <1>11, FinishType, FinishBlocks
    <2>2. Exact /\ inodes' = inodes
      BY <1>11, <2>1 DEF NorfsBase, InodesExact, finish_block
    <2> QED BY <2>1, <2>2, ExactSame DEF NorfsBase, InodesExact
  <1>12. ASSUME put_writes PROVE NorfsBase'
    BY <1>1, <1>12, PutWritesIs, StoringBlocks, ExactPut DEF NorfsBase, InodesExact, Storing
  <1>14. ASSUME put_uses_freed_inode PROVE NorfsBase'
    <2>1. norfs_pc' = "broken"
      BY <1>14 DEF put_uses_freed_inode
    <2> QED BY <1>1, <1>14, <2>1, StoringType, StoringBlocks DEF NorfsBase, InodesExact, Storing, Active
  <1>15. ASSUME put_over_header PROVE NorfsBase'
    BY <1>15, OverHeader DEF NorfsBase, InodesExact
  <1>13. ASSUME UNCHANGED norfsvars PROVE NorfsBase'
    <2>1. UNCHANGED <<blocks, memvars, norfs_pc, caller, putting, next_obj, acked>>
      BY <1>13 DEF norfsvars, pcvars, promised
    <2>2. NorfsTypeOK' /\ BlockStates' /\ (Active' <=> Active)
      BY <1>1, <2>1 DEF NorfsBase, NorfsTypeOK, BlockStates, Active, Opening, garbage_block, memvars
    <2>3. Live' = Live /\ \A l : ObjAt(l)' = ObjAt(l)
      <3>1. Kept' = Kept /\ \A l : Passed(l)' <=> Passed(l)
        BY <2>1 DEF Kept, Finished, Opening, Passed, garbage_block, memvars
      <3>2. ObjectsIn(Kept)' = PlacesOf(blocks', Kept') /\ ObjectsIn(Kept) = PlacesOf(blocks, Kept) /\ blocks' = blocks
        BY <2>1 DEF ObjectsIn, PlacesOf
      <3>3. ObjectsIn(Kept)' = ObjectsIn(Kept)
        BY <3>1, <3>2
      <3> QED BY <3>1, <3>2, <3>3 DEF Live, ObjAt
    <2>4. inodes' = inodes
      BY <2>1 DEF memvars
    <2>5. Exact => Exact'
      BY <2>3, <2>4, ExactSame
    <2> QED BY <2>2, <2>5 DEF NorfsBase, InodesExact
  <1> QED BY <1>2, <1>3, <1>4, <1>6, <1>7, <1>8, <1>9, <1>10, <1>11, <1>12, <1>13, <1>14, <1>15
          DEF NorfsNext

LEMMA NorfsBaseAlways == NorfsSpec => []NorfsBase
  BY NorfsBaseInit, NorfsBaseStep, PTL DEF NorfsSpec

(* Between calls every inode of norfs has as many references as there are  *)
(* copies of its object on the flash, whatever has been put, removed and   *)
(* collected, and wherever the power has failed.  A put that wrote over a  *)
(* block's header or into a freed inode ends this until the next mount,    *)
(* which counts again.                                                     *)
THEOREM NorfsReferencesExact == NorfsSpec => []ReferencesExact
  <1>1. NorfsBase => ReferencesExact
    <2> SUFFICES ASSUME NorfsBase, fs_mounted, norfs_pc = "idle", NEW k \in Keys
                 PROVE  inodes[k].reference_count = Cardinality(Copies(k))
      BY DEF ReferencesExact
    <2>1. NorfsTypeOK /\ Exact
      BY DEF NorfsBase, InodesExact, Active
    <2>2. Kept = Finished /\ \A l : ~Passed(l)
      BY DEF Kept, Opening, Passed
    <2>3. Live = ObjectsIn(Finished)
      <3>1. ObjectsIn(Kept) = PlacesOf(blocks, Kept) /\ ObjectsIn(Finished) = PlacesOf(blocks, Finished)
        BY DEF ObjectsIn, PlacesOf
      <3> QED BY <2>2, <3>1 DEF Live
    <2>4. Copies(k) = Held(k)
      BY <2>3 DEF Copies, Held
    <2> QED BY <2>1, <2>4 DEF Exact
  <1> QED BY <1>1, NorfsBaseAlways, PTL
-----------------------------------------------------------------------------
(* What the flash and the inodes say of an object. *)
LEMMA WinsUnique ==
  ASSUME NorfsTypeOK, NEW C \in SUBSET ObjectsIn(NorBlocks), NEW m, NEW n, Wins(m, C), Wins(n, C)
  PROVE  m = n
  <1>1. m \in ObjectsIn(NorBlocks) /\ n \in ObjectsIn(NorBlocks) /\ m \in C /\ n \in C
    BY DEF Wins
  <1>2. m = <<m[1], m[2]>> /\ n = <<n[1], n[2]>> /\ m[1] \in Nat /\ m[2] \in Nat /\ n[1] \in Nat /\ n[2] \in Nat
    BY <1>1, ObjectIs
  <1>3. ~ReadBefore(m, n) /\ ~ReadBefore(n, m)
    BY <1>1 DEF Wins
  <1>4. m[1] = n[1] /\ m[2] = n[2]
    BY <1>2, <1>3 DEF ReadBefore
  <1> QED BY <1>2, <1>4

LEMMA CopiesAre ==
  ASSUME NorfsTypeOK, NEW k
  PROVE  Copies(k) = Of(ObjectsIn(Finished), k) /\ Copies(k) \subseteq ObjectsIn(NorBlocks)
  BY FinishedWithin DEF Copies, Of

(* What a mount makes of the copies of k. *)
LEMMA MountedBest ==
  ASSUME NorfsTypeOK, VersionsNear, NEW k \in Keys, NEW i, i = MountedIndex.inodes[k]
  PROVE  /\ i.reference_count \in Nat
         /\ i.reference_count = 0 => Copies(k) = {}
         /\ i.reference_count > 0 => i.location \in Copies(k) /\ Wins(i.location, Copies(k))
  <1>1. i.reference_count \in Nat
    BY MountBuilds DEF Index, Inode
  <1>2. PICK C : C = Of(ObjectsIn(Finished), k) /\ C = Copies(k)
    BY CopiesAre
  <1>3. /\ i.reference_count = Cardinality(C)
        /\ i.reference_count > 0 => i.location \in C /\ Wins(i.location, C)
    BY <1>2, MountBuilds DEF Built
  <1>4. IsFiniteSet(C)
    <2>1. IsFiniteSet(ObjectsIn(Finished)) /\ C \subseteq ObjectsIn(Finished)
      BY <1>2, MountBuilds DEF Built, Of
    <2> QED BY <2>1, FS_Subset
  <1>5. i.reference_count = 0 => C = {}
    BY <1>3, <1>4, FS_EmptySet
  <1>6. i.reference_count > 0 => Wins(i.location, Copies(k))
    BY <1>2, <1>3
  <1> QED BY <1>1, <1>2, <1>3, <1>5, <1>6

(* A mount finds what the flash keeps. *)
LEMMA FlashFound ==
  ASSUME NorfsTypeOK, VersionsNear, NEW k \in Keys, FlashOK(k), NEW i, i = MountedIndex.inodes[k]
  PROVE  /\ i.reference_count = 0 => acked[k] = Deleted
         /\ i.reference_count > 0 => AtBest(Copies(k), k, i.location)
         /\ Recovered(k) = acked[k]
  <1>1. /\ i.reference_count \in Nat
        /\ i.reference_count = 0 => Copies(k) = {}
        /\ i.reference_count > 0 => i.location \in Copies(k) /\ Wins(i.location, Copies(k))
    BY MountedBest
  <1>2. PICK C : C = Copies(k) /\ C \subseteq ObjectsIn(NorBlocks)
    BY CopiesAre
  <1>3. CASE i.reference_count = 0
    <2>1. \A n : ~AtBest(Copies(k), k, n)
      BY <1>1, <1>3 DEF AtBest, Wins
    <2>2. acked[k] = Deleted
      BY <2>1 DEF FlashOK
    <2> QED BY <1>3, <2>2 DEF Recovered
  <1>4. CASE i.reference_count # 0
    <2>1. i.reference_count > 0 /\ i.location \in C /\ Wins(i.location, C)
      BY <1>1, <1>2, <1>4
    <2>2. PICK n : AtBest(C, k, n)
      BY <1>2, <2>1 DEF FlashOK
    <2>3. n = i.location
      BY <1>2, <2>1, <2>2, WinsUnique DEF AtBest
    <2>4. ObjAt(i.location).value = acked[k]
      BY <2>2, <2>3 DEF AtBest
    <2>5. AtBest(Copies(k), k, i.location)
      BY <1>2, <2>2, <2>3
    <2> QED BY <1>4, <2>4, <2>5 DEF Recovered
  <1> QED BY <1>3, <1>4

LEMMA BestSame ==
  ASSUME NEW C, NEW k, NEW n, AtBest(C, k, n), \A l \in C : ObjAt(l)' = ObjAt(l), acked'[k] = acked[k]
  PROVE  AtBest(C, k, n)'
  <1>1. n \in C
    BY DEF AtBest, Wins
  <1>2. \A l \in C : /\ Newer(n, l)' <=> Newer(n, l)
                     /\ Newer(l, n)' <=> Newer(l, n)
    BY <1>1 DEF Newer
  <1>3. \A l \in C : ReadBefore(l, n)' <=> ReadBefore(l, n)
    BY DEF ReadBefore
  <1>4. Wins(n, C)'
    BY <1>1, <1>2, <1>3 DEF AtBest, Wins
  <1> QED BY <1>1, <1>4 DEF AtBest

(* The flash keeps k if the copies of it are C. *)
LEMMA FlashThen ==
  ASSUME NEW k, NEW C, C = Copies(k)', (C = {} /\ acked'[k] = Deleted) \/ \E n : AtBest(C, k, n)'
  PROVE  FlashOK(k)'
  <1>1. ASSUME NEW n, AtBest(C, k, n)' PROVE FlashOK(k)'
    <2>1. AtBest(Copies(k), k, n)'
      BY <1>1 DEF AtBest, Wins
    <2> QED BY <2>1 DEF FlashOK
  <1>2. CASE C = {} /\ acked'[k] = Deleted
    BY <1>2 DEF FlashOK
  <1> QED BY <1>1, <1>2

LEMMA FlashSame ==
  ASSUME NEW k, Copies(k)' = Copies(k), \A l \in Copies(k) : ObjAt(l)' = ObjAt(l), acked'[k] = acked[k],
         FlashOK(k)
  PROVE  FlashOK(k)'
  <1>1. PICK C : C = Copies(k) /\ C = Copies(k)'
    OBVIOUS
  <1>2. (C = {} /\ acked[k] = Deleted) \/ \E n : AtBest(C, k, n)
    BY <1>1 DEF FlashOK
  <1>3. ASSUME NEW n, AtBest(C, k, n) PROVE AtBest(C, k, n)'
    BY <1>1, <1>3, BestSame
  <1>4. (C = {} /\ acked'[k] = Deleted) \/ \E n : AtBest(C, k, n)'
    BY <1>2, <1>3
  <1> QED BY <1>1, <1>4, FlashThen

LEMMA MemoryThen ==
  ASSUME NEW k, NEW C, C = Held(k)', NEW n, n = inodes'[k].location,
         IF HasInode(k)' THEN AtBest(C, k, n)' ELSE acked'[k] = Deleted
  PROVE  MemoryOK(k)'
  <1>1. ASSUME AtBest(C, k, n)' PROVE AtBest(Held(k), k, inodes[k].location)'
    BY <1>1 DEF AtBest, Wins, Newer, ReadBefore, ObjAt
  <1> QED BY <1>1 DEF MemoryOK

LEMMA MemorySame ==
  ASSUME NEW k, Held(k)' = Held(k), \A l \in Held(k) : ObjAt(l)' = ObjAt(l), acked'[k] = acked[k],
         inodes'[k] = inodes[k], MemoryOK(k)
  PROVE  MemoryOK(k)'
  <1>1. PICK C : C = Held(k) /\ C = Held(k)'
    OBVIOUS
  <1>2. PICK n : n = inodes[k].location /\ n = inodes'[k].location
    OBVIOUS
  <1>3. HasInode(k)' <=> HasInode(k)
    BY DEF HasInode
  <1>4. IF HasInode(k) THEN AtBest(C, k, n) ELSE acked[k] = Deleted
    BY <1>1, <1>2 DEF MemoryOK
  <1>5. AtBest(C, k, n) => AtBest(C, k, n)'
    BY <1>1, BestSame
  <1> QED BY <1>1, <1>2, <1>3, <1>4, <1>5, MemoryThen

NorfsKeeps == FlashKeeps /\ MemoryKeeps

(* A step that leaves alone what is read and what is held. *)
LEMMA KeepsSteady ==
  ASSUME NorfsKeeps, ~Exposed, Active, UNCHANGED <<acked, overtaken, inodes>>,
         ObjectsIn(Finished)' = ObjectsIn(Finished), Live' = Live,
         \A l \in Live \cup ObjectsIn(Finished) : ObjAt(l)' = ObjAt(l)
  PROVE  NorfsKeeps'
  <1>1. ASSUME NEW k \in Keys \ overtaken' PROVE FlashOK(k)' /\ MemoryOK(k)'
    <2>1. k \in Keys \ overtaken /\ acked'[k] = acked[k] /\ inodes'[k] = inodes[k]
      OBVIOUS
    <2>2. FlashOK(k) /\ MemoryOK(k)
      BY <2>1 DEF NorfsKeeps, FlashKeeps, MemoryKeeps
    <2>3. Copies(k)' = Copies(k) /\ \A l \in Copies(k) : ObjAt(l)' = ObjAt(l)
      BY DEF Copies
    <2>4. Held(k)' = Held(k) /\ \A l \in Held(k) : ObjAt(l)' = ObjAt(l)
      BY DEF Held
    <2> QED BY <2>1, <2>2, <2>3, <2>4, FlashSame, MemorySame
  <1> QED BY <1>1 DEF NorfsKeeps, FlashKeeps, MemoryKeeps

LEMMA KeepsMount ==
  ASSUME NorfsBase, VersionsNear, NorfsKeeps, norfs_mount_fs
  PROVE  NorfsKeeps'
  <1>1. NorfsTypeOK /\ norfs_pc = "idle" /\ UNCHANGED <<acked, overtaken>>
    BY DEF NorfsBase, norfs_mount_fs, Mount, promised
  <1>2. ~Exposed
    BY <1>1 DEF Exposed
  <1>3. PICK free \in SUBSET NorBlocks : free = NorBlocks \ Finished
    OBVIOUS
  <1>4. PICK ix \in Index : ix = MountedIndex /\ Built(ix, ObjectsIn(Finished))
    BY <1>1, MountBuilds
  <1>5. Mount(free, ix) /\ acked' \in [Keys -> Values \cup {Deleted}] /\ inodes' = ix.inodes
    BY <1>1, <1>3, <1>4 DEF norfs_mount_fs, NorfsTypeOK, Mount
  <1>6. /\ Live' = ObjectsIn(Finished)'
        /\ \A l : l \in Live' <=> l \in ObjectsIn(Finished) /\ l[1] \notin free
        /\ \A l \in Live' : ObjAt(l)' = ObjAt(l)
    BY <1>3, <1>5, MountBlocks
  <1>7. Live' = ObjectsIn(Finished)
    <2>1. \A l \in ObjectsIn(Finished) : l[1] \in Finished
      BY <1>1, LiveIs
    <2> QED BY <1>3, <1>6, <2>1
  <1>8. ASSUME NEW k \in Keys \ overtaken' PROVE FlashOK(k)' /\ MemoryOK(k)'
    <2>1. k \in Keys \ overtaken /\ k \in Keys /\ acked'[k] = acked[k]
      BY <1>1
    <2>2. FlashOK(k)
      BY <1>2, <2>1 DEF NorfsKeeps, FlashKeeps
    <2>3. Copies(k)' = Copies(k) /\ \A l \in Copies(k) : ObjAt(l)' = ObjAt(l)
      BY <1>6, <1>7 DEF Copies
    <2>4. Held(k)' = Copies(k)
      BY <1>6, <1>7 DEF Copies, Held
    <2>5. FlashOK(k)'
      BY <2>1, <2>2, <2>3, FlashSame
    <2>6. PICK i : i = MountedIndex.inodes[k] /\ i = inodes'[k]
      BY <1>4, <1>5
    <2>7. /\ i.reference_count = 0 => acked[k] = Deleted
          /\ i.reference_count > 0 => AtBest(Copies(k), k, i.location)
          /\ i.reference_count \in Nat
      BY <1>1, <2>1, <2>2, <2>6, FlashFound, MountedBest
    <2>8. HasInode(k)' <=> i.reference_count > 0
      BY <2>6 DEF HasInode
    <2>9. PICK C, n : C = Copies(k) /\ C = Held(k)' /\ n = i.location /\ n = inodes'[k].location
      BY <2>4, <2>6
    <2>10. IF HasInode(k)' THEN AtBest(C, k, n)' ELSE acked'[k] = Deleted
      <3>1. CASE HasInode(k)'
        <4>1. AtBest(C, k, n)
          BY <2>7, <2>8, <2>9, <3>1
        <4>2. AtBest(C, k, n)'
          BY <2>1, <2>3, <2>9, <4>1, BestSame
        <4> QED BY <3>1, <4>2
      <3>2. CASE ~HasInode(k)'
        BY <2>1, <2>7, <2>8, <3>2
      <3> QED BY <3>1, <3>2
    <2>11. MemoryOK(k)'
      BY <2>9, <2>10, MemoryThen
    <2> QED BY <2>5, <2>11
  <1> QED BY <1>8 DEF NorfsKeeps, FlashKeeps, MemoryKeeps

LEMMA KeepsWipe ==
  ASSUME NorfsBase, norfs_wipe_fs
  PROVE  NorfsKeeps'
  <1>1. NorfsTypeOK
    BY DEF NorfsBase
  <1>2. PICK free \in SUBSET NorBlocks : free = NorBlocks
    OBVIOUS
  <1>3. PICK ix \in Index : ix = EmptyIndex
    BY EmptyIsIndex
  <1>4. Mount(free, ix) /\ acked' \in [Keys -> Values \cup {Deleted}] /\ \A k \in Keys : acked'[k] = Deleted
    BY <1>2, <1>3 DEF norfs_wipe_fs
  <1>5. /\ Live' = ObjectsIn(Finished)'
        /\ \A l : l \in Live' <=> l \in ObjectsIn(Finished) /\ l[1] \notin free
    BY <1>2, <1>4, MountBlocks
  <1>6. Live' = {}
    <2>1. \A l \in ObjectsIn(Finished) : l[1] \in NorBlocks
      BY <1>1, LiveIs, KeptBlocks
    <2> QED BY <1>2, <1>5, <2>1
  <1>7. ASSUME NEW k \in Keys PROVE FlashOK(k)' /\ MemoryOK(k)'
    <2>1. Copies(k)' = {}
      BY <1>5, <1>6 DEF Copies
    <2>2. inodes'[k].reference_count = 0
      BY <1>3, <1>4 DEF Mount, EmptyIndex, NoInode
    <2>3. ~HasInode(k)'
      BY <2>2 DEF HasInode
    <2>4. acked'[k] = Deleted
      BY <1>4
    <2> QED BY <2>1, <2>3, <2>4 DEF FlashOK, MemoryOK
  <1> QED BY <1>7 DEF NorfsKeeps, FlashKeeps, MemoryKeeps

LEMMA KeepsForget ==
  ASSUME NorfsBase, VersionsNear, NorfsForget, Settle, UNCHANGED blocks
  PROVE  NorfsKeeps'
  <1>1. NorfsTypeOK /\ ~Active'
    BY ForgetBlocks DEF NorfsBase
  <1>2. ASSUME NEW k \in Keys PROVE FlashOK(k)'
    <2>1. acked'[k] = Recovered(k)
      BY DEF Settle
    <2>2. Copies(k)' = Copies(k) /\ \A l : ObjAt(l)' = ObjAt(l)
      <3>1. Finished' = Finished /\ blocks' = blocks
        BY DEF Finished
      <3>2. ObjectsIn(Finished) = PlacesOf(blocks, Finished) /\ ObjectsIn(Finished)' = PlacesOf(blocks', Finished')
        BY DEF ObjectsIn, PlacesOf
      <3>3. ObjectsIn(Finished)' = ObjectsIn(Finished)
        BY <3>1, <3>2
      <3>4. \A l : ObjAt(l)' = ObjAt(l)
        BY <3>1 DEF ObjAt
      <3> QED BY <3>3, <3>4 DEF Copies
    <2>3. PICK i : i = MountedIndex.inodes[k]
      OBVIOUS
    <2>4. /\ i.reference_count \in Nat
          /\ i.reference_count = 0 => Copies(k) = {}
          /\ i.reference_count > 0 => i.location \in Copies(k) /\ Wins(i.location, Copies(k))
      BY <1>1, <2>3, MountedBest
    <2>5. PICK C, n : C = Copies(k) /\ C = Copies(k)' /\ n = i.location
      BY <2>2
    <2>6. CASE i.reference_count = 0
      <3>1. C = {} /\ acked'[k] = Deleted
        BY <2>1, <2>3, <2>4, <2>5, <2>6 DEF Recovered
      <3> QED BY <2>5, <3>1, FlashThen
    <2>7. CASE i.reference_count # 0
      <3>1. n \in C /\ Wins(n, C)
        BY <2>4, <2>5, <2>7
      <3>2. ObjAt(n).value = acked'[k]
        BY <2>1, <2>3, <2>5, <2>7 DEF Recovered
      <3>3. \A l \in C : /\ Newer(n, l)' <=> Newer(n, l)
                         /\ Newer(l, n)' <=> Newer(l, n)
                         /\ ReadBefore(l, n)' <=> ReadBefore(l, n)
        BY <2>2 DEF Newer, ReadBefore
      <3>4. Wins(n, C)'
        BY <3>1, <3>3 DEF Wins
      <3>5. AtBest(C, k, n)'
        BY <2>2, <3>2, <3>4 DEF AtBest
      <3> QED BY <2>5, <3>5, FlashThen
    <2> QED BY <2>6, <2>7
  <1> QED BY <1>1, <1>2 DEF NorfsKeeps, FlashKeeps, MemoryKeeps

LEMMA KeepsErase ==
  ASSUME NorfsBase, NorfsKeeps, erase_block
  PROVE  NorfsKeeps'
  <1>1. Live' = Live /\ Active /\ Exposed' /\ \A l \in Live : ObjAt(l)' = ObjAt(l)
    BY EraseBlocks
  <1>2. UNCHANGED <<acked, overtaken, inodes>>
    BY DEF erase_block, promised
  <1>3. ASSUME NEW k \in Keys \ overtaken' PROVE MemoryOK(k)'
    <2>1. k \in Keys \ overtaken /\ acked'[k] = acked[k] /\ inodes'[k] = inodes[k]
      BY <1>2
    <2>2. MemoryOK(k)
      BY <1>1, <2>1 DEF NorfsKeeps, MemoryKeeps
    <2>3. Held(k)' = Held(k) /\ \A l \in Held(k) : ObjAt(l)' = ObjAt(l)
      BY <1>1 DEF Held
    <2> QED BY <2>1, <2>2, <2>3, MemorySame
  <1> QED BY <1>1, <1>3 DEF NorfsKeeps, FlashKeeps, MemoryKeeps

LEMMA KeepsFinish ==
  ASSUME NorfsBase, NorfsKeeps, finish_block
  PROVE  NorfsKeeps'
  <1>1. Live' = Live /\ ObjectsIn(Finished)' = Live /\ Active /\ \A l \in Live : ObjAt(l)' = ObjAt(l)
    BY FinishBlocks
  <1>2. UNCHANGED <<acked, overtaken, inodes>>
    BY DEF finish_block, promised
  <1>3. Exact
    BY <1>1 DEF NorfsBase, InodesExact
  <1>4. ASSUME NEW k \in Keys \ overtaken' PROVE FlashOK(k)' /\ MemoryOK(k)'
    <2>1. k \in Keys \ overtaken /\ k \in Keys /\ acked'[k] = acked[k] /\ inodes'[k] = inodes[k]
      BY <1>2
    <2>2. MemoryOK(k)
      BY <1>1, <2>1 DEF NorfsKeeps, MemoryKeeps
    <2>3. Held(k)' = Held(k) /\ \A l \in Held(k) : ObjAt(l)' = ObjAt(l)
      BY <1>1 DEF Held
    <2>4. Copies(k)' = Held(k)
      BY <1>1 DEF Held, Copies
    <2>5. PICK C, n : C = Held(k) /\ C = Copies(k)' /\ n = inodes[k].location
      BY <2>4
    <2>6. CASE HasInode(k)
      <3>1. AtBest(C, k, n)
        BY <2>2, <2>5, <2>6 DEF MemoryOK
      <3>2. AtBest(C, k, n)'
        BY <2>1, <2>3, <2>5, <3>1, BestSame
      <3>3. FlashOK(k)'
        BY <2>5, <3>2, FlashThen
      <3> QED BY <2>1, <2>2, <2>3, <3>3, MemorySame
    <2>7. CASE ~HasInode(k)
      <3>1. acked'[k] = Deleted
        BY <2>1, <2>2, <2>7 DEF MemoryOK
      <3>2. C = {}
        <4>1. Cardinality(C) \in Nat /\ IsFiniteSet(C) /\ inodes[k].reference_count = Cardinality(C)
          BY <1>3, <2>1, <2>5, HeldFinite DEF Exact
        <4>2. Cardinality(C) = 0
          BY <2>7, <4>1 DEF HasInode
        <4> QED BY <4>1, <4>2, FS_EmptySet
      <3>3. FlashOK(k)'
        BY <2>5, <3>1, <3>2, FlashThen
      <3> QED BY <2>1, <2>2, <2>3, <3>3, MemorySame
    <2> QED BY <2>6, <2>7
  <1> QED BY <1>4 DEF NorfsKeeps, FlashKeeps, MemoryKeeps

(* The flash keeps an object that is stored with a version that is newer. *)
LEMMA FlashPut ==
  ASSUME NorfsBase, NorfsKeeps, Storing
  PROVE  /\ \A k \in Keys \ overtaken' : FlashOK(k)'
         /\ \A k, h, C : k = putting.key /\ k \notin overtaken' /\ h = Here /\ C = Copies(k)' =>
              AtBest(C, k, h)'
         /\ \A k \in Keys \ overtaken' : k # putting.key => k \notin overtaken /\ acked'[k] = acked[k]
  <1>1. /\ NorfsTypeOK /\ Live = ObjectsIn(Finished) /\ norfs_pc = "write"
        /\ ObjectsIn(Finished)' = Live \cup {Here}
        /\ \A l \in Live : ObjAt(l)' = ObjAt(l)
        /\ \A h : h = Here => ObjAt(h)' = putting
    BY StoringBlocks DEF NorfsBase, Storing, put_writes, put_uses_freed_inode
  <1>2. PICK h : h = Here /\ h \notin Live /\ h[1] \in Nat /\ h[2] \in Nat
    BY <1>1, HereIs
  <1>3. PICK k0 \in Keys : k0 = putting.key /\ putting \in NorObject /\ putting.version \in 0 .. VersionModulus - 1
    BY <1>1, StoringIs, StoringType DEF NorObject
  <1>4. ObjAt(h)' = putting
    BY <1>1, <1>2
  <1>5. /\ acked' = [acked EXCEPT ![k0] = putting.value]
        /\ overtaken' = IF \A l \in Copies(k0) : VERSION_GREATER_THAN(putting.version, ObjAt(l).version)
                        THEN overtaken \ {k0} ELSE overtaken \cup {k0}
    BY <1>3 DEF Storing, put_writes, put_uses_freed_inode, Acknowledge
  <1>6. acked'[k0] = putting.value /\ \A m \in Keys \ {k0} : acked'[m] = acked[m]
    BY <1>1, <1>5 DEF NorfsTypeOK
  <1>7. ~Exposed
    BY <1>1 DEF Exposed
  <1>8. ASSUME NEW k \in Keys \ overtaken', k # k0
        PROVE  FlashOK(k)' /\ k \notin overtaken /\ acked'[k] = acked[k]
    <2>1. k \in Keys \ overtaken /\ acked'[k] = acked[k]
      BY <1>5, <1>6, <1>8
    <2>2. FlashOK(k)
      BY <1>7, <2>1 DEF NorfsKeeps, FlashKeeps
    <2>3. ObjAt(h)'.key # k
      BY <1>3, <1>4, <1>8
    <2>4. Copies(k)' = Copies(k) /\ \A l \in Copies(k) : ObjAt(l)' = ObjAt(l)
      BY <1>1, <1>2, <2>3 DEF Copies
    <2> QED BY <2>1, <2>2, <2>4, FlashSame
  <1>9. ASSUME k0 \notin overtaken', NEW C, C = Copies(k0)' PROVE AtBest(C, k0, h)'
    <2>1. \A l \in Copies(k0) : VERSION_GREATER_THAN(putting.version, ObjAt(l).version)
      BY <1>5, <1>9
    <2>2. ObjAt(h)'.key = k0
      BY <1>3, <1>4
    <2>3. C = Copies(k0) \cup {h}
      <3>1. Copies(k0)' = Copies(k0) \cup {h}
        BY <1>1, <1>2, <2>2 DEF Copies
      <3> QED BY <1>9, <3>1
    <2>4. ASSUME NEW l \in Copies(k0) PROVE Newer(h, l)' /\ ~Newer(l, h)'
      <3>1. l \in Live /\ ObjAt(l)' = ObjAt(l)
        BY <1>1 DEF Copies
      <3>2. l \in ObjectsIn(NorBlocks)
        BY <1>1, <3>1, LiveObject
      <3>3. ObjAt(l).version \in 0 .. VersionModulus - 1
        BY <1>1, <3>2, ObjectIs
      <3>4. VERSION_GREATER_THAN(putting.version, ObjAt(l).version)
        BY <2>1
      <3>5. ~VERSION_GREATER_THAN(ObjAt(l).version, putting.version)
        BY <1>3, <3>3, <3>4, NotBoth
      <3> QED BY <1>4, <3>1, <3>4, <3>5 DEF Newer
    <2>5. ~ReadBefore(h, h)' /\ ~Newer(h, h)'
      <3>1. ~ReadBefore(h, h)'
        BY <1>2 DEF ReadBefore
      <3>2. ~VERSION_GREATER_THAN(putting.version, putting.version)
        BY <1>3, NotItself
      <3> QED BY <1>4, <3>1, <3>2 DEF Newer
    <2>6. Wins(h, C)'
      BY <2>3, <2>4, <2>5 DEF Wins
    <2> QED BY <1>4, <1>6, <2>6 DEF AtBest
  <1>10. ASSUME k0 \notin overtaken' PROVE FlashOK(k0)'
    <2>1. PICK C : C = Copies(k0)'
      OBVIOUS
    <2>2. AtBest(C, k0, h)'
      BY <1>9, <1>10, <2>1
    <2> QED BY <2>1, <2>2, FlashThen
  <1>11. \A k \in Keys \ overtaken' : FlashOK(k)'
    BY <1>8, <1>10
  <1> QED BY <1>2, <1>3, <1>8, <1>9, <1>11

LEMMA KeepsPut ==
  ASSUME NorfsBase, NorfsKeeps, put_writes
  PROVE  NorfsKeeps'
  <1>0. Storing
    BY DEF Storing
  <1>1. /\ NorfsTypeOK /\ Active /\ Live = ObjectsIn(Finished)
        /\ Live' = Live \cup {Here} /\ ObjectsIn(Finished)' = Live \cup {Here}
        /\ \A l \in Live : ObjAt(l)' = ObjAt(l)
        /\ \A h : h = Here => ObjAt(h)' = putting
    BY <1>0, StoringBlocks DEF NorfsBase
  <1>2. PICK h : h = Here
    OBVIOUS
  <1>3. PICK k0 \in Keys : k0 = putting.key
    BY <1>1, PutWritesIs
  <1>4. ObjAt(h)' = putting
    BY <1>1, <1>2
  <1>5. PICK e \in Inode : e.location = h /\ e.reference_count = inodes[k0].reference_count + 1
                           /\ inodes' = [inodes EXCEPT ![k0] = e]
    BY <1>1, <1>2, <1>3, PutWritesIs
  <1>6. inodes'[k0] = e /\ \A m \in Keys \ {k0} : inodes'[m] = inodes[m]
    BY <1>1, <1>5 DEF NorfsTypeOK
  <1>7. /\ \A k \in Keys \ overtaken' : FlashOK(k)'
        /\ \A k \in Keys \ overtaken' : k # k0 => k \notin overtaken /\ acked'[k] = acked[k]
    BY <1>0, <1>3, FlashPut
  <1>8. ASSUME NEW k \in Keys \ overtaken', k # k0 PROVE MemoryOK(k)'
    <2>1. k \in Keys \ overtaken /\ acked'[k] = acked[k] /\ inodes'[k] = inodes[k]
      BY <1>6, <1>7, <1>8
    <2>2. MemoryOK(k)
      BY <1>1, <2>1 DEF NorfsKeeps, MemoryKeeps
    <2>3. ObjAt(h)'.key # k
      BY <1>3, <1>4, <1>8
    <2>4. Held(k)' = Held(k) /\ \A l \in Held(k) : ObjAt(l)' = ObjAt(l)
      BY <1>1, <1>2, <2>3 DEF Held
    <2> QED BY <2>1, <2>2, <2>4, MemorySame
  <1>9. ASSUME k0 \notin overtaken' PROVE MemoryOK(k0)'
    <2>1. PICK C : C = Copies(k0)' /\ C = Held(k0)'
      BY <1>1 DEF Copies, Held
    <2>2. AtBest(C, k0, h)'
      BY <1>0, <1>2, <1>3, <1>9, <2>1, FlashPut
    <2>3. HasInode(k0)' /\ h = inodes'[k0].location
      BY <1>1, <1>5, <1>6 DEF HasInode, NorfsTypeOK, Inode
    <2> QED BY <2>1, <2>2, <2>3, MemoryThen
  <1> QED BY <1>7, <1>8, <1>9 DEF NorfsKeeps, FlashKeeps, MemoryKeeps

(* A put that has broken the memory leaves the flash. *)
LEMMA KeepsBroken ==
  ASSUME NorfsBase, NorfsKeeps, put_uses_freed_inode \/ put_over_header
  PROVE  NorfsKeeps'
  <1>1. norfs_pc' = "broken"
    BY DEF put_uses_freed_inode, put_over_header
  <1>2. ~Active'
    BY <1>1 DEF Active
  <1>3. CASE put_uses_freed_inode
    <2>1. Storing
      BY <1>3 DEF Storing
    <2> QED BY <1>2, <2>1, FlashPut DEF NorfsKeeps, FlashKeeps, MemoryKeeps
  <1>4. CASE put_over_header
    <2>1. PICK k0 \in Keys : /\ overtaken' = overtaken \cup {k0}
                             /\ \A m \in Keys \ {k0} : acked'[m] = acked[m]
      BY <1>4, OverHeader
    <2>2. /\ ~Exposed /\ ObjectsIn(Finished)' = ObjectsIn(Finished)
          /\ \A l \in ObjectsIn(Finished) : ObjAt(l)' = ObjAt(l)
      BY <1>4, OverHeader
    <2>3. ASSUME NEW k \in Keys \ overtaken' PROVE FlashOK(k)'
      <3>1. k \in Keys \ overtaken /\ acked'[k] = acked[k]
        BY <2>1
      <3>2. FlashOK(k)
        BY <2>2, <3>1 DEF NorfsKeeps, FlashKeeps
      <3>3. Copies(k)' = Copies(k) /\ \A l \in Copies(k) : ObjAt(l)' = ObjAt(l)
        BY <2>2 DEF Copies
      <3> QED BY <3>1, <3>2, <3>3, FlashSame
    <2> QED BY <1>2, <2>3 DEF NorfsKeeps, FlashKeeps, MemoryKeeps
  <1> QED BY <1>3, <1>4

(* The version after a is newer than any that is not newer than a. *)
LEMMA CopyNewest ==
  ASSUME NEW a \in 0 .. VersionModulus - 1, NEW b \in 0 .. VersionModulus - 1,
         NEW low \in 0 .. VersionModulus - 1, NEW c, c = (a + 1) % VersionModulus,
         (a - low) % VersionModulus < VersionModulus \div 2,
         (b - low) % VersionModulus < VersionModulus \div 2,
         (c - low) % VersionModulus < VersionModulus \div 2,
         ~VERSION_GREATER_THAN(b, a)
  PROVE  VERSION_GREATER_THAN(c, b) /\ ~VERSION_GREATER_THAN(b, c)
  <1>1. c \in 0 .. VersionModulus - 1 /\ VERSION_GREATER_THAN(c, a)
    BY NextVersion
  <1>2. PICK x \in Nat : x = (a - low) % VersionModulus
    BY Offsets
  <1>3. PICK y \in Nat : y = (b - low) % VersionModulus
    BY Offsets
  <1>4. PICK z \in Nat : z = (c - low) % VersionModulus
    BY <1>1, Offsets
  <1>5. ~(y > x)
    BY <1>2, <1>3, ComparesFrom
  <1>6. z > x
    BY <1>1, <1>2, <1>4, ComparesFrom
  <1>7. z > y
    BY <1>5, <1>6
  <1>8. VERSION_GREATER_THAN(c, b)
    BY <1>1, <1>3, <1>4, <1>7, ComparesFrom
  <1> QED BY <1>1, <1>8, NotBoth

LEMMA KeepsCollect ==
  ASSUME NorfsBase, VersionsNear', NorfsKeeps, collect_garbage_object
  PROVE  NorfsKeeps'
  <1>1. PICK x, k0 : x = Collected /\ k0 = ObjAt(x).key
    OBVIOUS
  <1>2. NorfsTypeOK /\ Active /\ Exact /\ norfs_pc = "collect" /\ x \in Live /\ k0 \in Keys
        /\ x \in ObjectsIn(NorBlocks) /\ x \in Held(k0)
    BY <1>1, CollectedIs DEF NorfsBase, InodesExact, Held
  <1>3. /\ ObjectsIn(Finished)' = ObjectsIn(Finished)
        /\ \A l \in ObjectsIn(NorBlocks) : ObjAt(l)' = ObjAt(l) /\ l \in ObjectsIn(NorBlocks)'
        /\ IF Copying(x, k0) THEN Live' = (Live \ {x}) \cup {Here} ELSE Live' = Live \ {x}
        /\ Copying(x, k0) => \A h : h = Here => CopyOf(ObjAt(x), ObjAt(h)') /\ h \in ObjectsIn(NorBlocks)'
    BY <1>1, CollectBlocks
  <1>4. \A l \in Live \cup ObjectsIn(Finished) : ObjAt(l)' = ObjAt(l) /\ l \in ObjectsIn(NorBlocks)
    BY <1>2, <1>3, FinishedWithin
  <1>5. UNCHANGED <<acked, overtaken>>
    BY DEF collect_garbage_object, promised
  <1>6. ~Exposed
    BY <1>2 DEF Exposed
  <1>7. \A m \in Keys \ {k0} : inodes'[m] = inodes[m]
    <2>1. inodes \in [Keys -> Inode] /\ \E e : inodes' = [inodes EXCEPT ![k0] = e]
      BY <1>1, <1>2, CollectCases DEF NorfsTypeOK, Copying, Dropping, Skipping
    <2> QED BY <2>1
  <1>8. ASSUME NEW k \in Keys \ overtaken' PROVE FlashOK(k)'
    <2>1. FlashOK(k) /\ acked'[k] = acked[k]
      BY <1>5, <1>6, <1>8 DEF NorfsKeeps, FlashKeeps
    <2>2. Copies(k)' = Copies(k) /\ \A l \in Copies(k) : ObjAt(l)' = ObjAt(l)
      BY <1>3, <1>4 DEF Copies
    <2> QED BY <2>1, <2>2, FlashSame
  <1>9. ASSUME NEW k \in Keys \ overtaken', k # k0 PROVE MemoryOK(k)'
    <2>1. MemoryOK(k) /\ acked'[k] = acked[k] /\ inodes'[k] = inodes[k]
      BY <1>2, <1>5, <1>7, <1>9 DEF NorfsKeeps, MemoryKeeps
    <2>2. Held(k)' = Held(k)
      <3>1. CASE Copying(x, k0)
        <4>1. PICK h : h = Here /\ Live' = (Live \ {x}) \cup {h} /\ ObjAt(h)'.key = ObjAt(x).key
          BY <1>3, <3>1 DEF CopyOf
        <4> QED BY <1>1, <1>2, <1>4, <1>9, <4>1, HeldMoved
      <3>2. CASE ~Copying(x, k0)
        <4>1. Live' = Live \ {x}
          BY <1>3, <3>2
        <4> QED BY <1>1, <1>2, <1>4, <1>9, <4>1, HeldLess
      <3> QED BY <3>1, <3>2
    <2>3. \A l \in Held(k) : ObjAt(l)' = ObjAt(l)
      BY <1>4 DEF Held
    <2> QED BY <2>1, <2>2, <2>3, MemorySame
  <1>10. ASSUME k0 \notin overtaken' PROVE MemoryOK(k0)'
    <2>1. MemoryOK(k0) /\ acked'[k0] = acked[k0]
      BY <1>2, <1>5, <1>10 DEF NorfsKeeps, MemoryKeeps
    <2>2. HasInode(k0)
      <3>1. Cardinality(Held(k0)) \in Nat /\ IsFiniteSet(Held(k0)) /\ Cardinality(Held(k0)) # 0
        BY <1>2, HeldFinite, FS_EmptySet
      <3>2. inodes[k0].reference_count = Cardinality(Held(k0))
        BY <1>2 DEF Exact
      <3> QED BY <3>1, <3>2 DEF HasInode
    <2>3. PICK n : n = inodes[k0].location /\ AtBest(Held(k0), k0, n)
      BY <2>1, <2>2 DEF MemoryOK
    <2>4. inodes \in [Keys -> Inode]
      BY <1>2 DEF NorfsTypeOK
    <2>5. CASE Copying(x, k0)
      <3>1. PICK h : /\ h = Here /\ h \notin Live /\ h[1] \in Nat /\ h[2] \in Nat
                     /\ Live' = (Live \ {x}) \cup {h} /\ CopyOf(ObjAt(x), ObjAt(h)')
                     /\ h \in ObjectsIn(NorBlocks)'
        BY <1>2, <1>3, <2>5, HereIs
      <3>2. PICK C : C = (Held(k0) \ {x}) \cup {h} /\ C = Held(k0)'
        <4>1. ObjAt(h)'.key = ObjAt(x).key
          BY <3>1 DEF CopyOf
        <4> QED BY <1>1, <1>2, <1>4, <3>1, <4>1, HeldMoved
      <3>3. n = x
        BY <2>3, <2>5 DEF Copying
      <3>4. PICK low \in 0 .. VersionModulus - 1 :
              \A l \in ObjectsIn(NorBlocks)' :
                ObjAt(l)'.key = k0 => (ObjAt(l)'.version - low) % VersionModulus < VersionModulus \div 2
        BY <1>2 DEF VersionsNear
      <3>5. PICK a \in 0 .. VersionModulus - 1 : a = ObjAt(x).version
        BY <1>2, ObjectIs
      <3>6. PICK c \in 0 .. VersionModulus - 1 : c = ObjAt(h)'.version /\ c = (a + 1) % VersionModulus
        BY <3>1, <3>5 DEF CopyOf, NorObject
      <3>7. (a - low) % VersionModulus < VersionModulus \div 2
        <4>1. x \in ObjectsIn(NorBlocks)' /\ ObjAt(x)' = ObjAt(x)
          BY <1>2, <1>3
        <4> QED BY <1>1, <3>4, <3>5, <4>1
      <3>8. (c - low) % VersionModulus < VersionModulus \div 2
        <4>1. ObjAt(h)'.key = k0
          BY <1>1, <3>1 DEF CopyOf
        <4> QED BY <3>1, <3>4, <3>6, <4>1
      <3>9. ASSUME NEW l \in Held(k0) \ {x} PROVE Newer(h, l)' /\ ~Newer(l, h)'
        <4>1. l \in Live /\ ObjAt(l).key = k0 /\ ObjAt(l)' = ObjAt(l) /\ l \in ObjectsIn(NorBlocks)
          BY <1>4 DEF Held
        <4>2. PICK b \in 0 .. VersionModulus - 1 : b = ObjAt(l).version
          BY <1>2, <4>1, ObjectIs
        <4>3. (b - low) % VersionModulus < VersionModulus \div 2
          <5>1. l \in ObjectsIn(NorBlocks)'
            BY <1>3, <4>1
          <5> QED BY <3>4, <4>1, <4>2, <5>1
        <4>4. ~VERSION_GREATER_THAN(b, a)
          <5>1. ~Newer(l, x)
            BY <2>3, <3>3 DEF AtBest, Wins
          <5> QED BY <3>5, <4>2, <5>1 DEF Newer
        <4>5. VERSION_GREATER_THAN(c, b) /\ ~VERSION_GREATER_THAN(b, c)
          BY <3>6, <3>7, <3>8, <4>3, <4>4, CopyNewest
        <4> QED BY <3>6, <4>1, <4>2, <4>5 DEF Newer
      <3>10. ~ReadBefore(h, h)' /\ ~Newer(h, h)'
        <4>1. ~ReadBefore(h, h)'
          BY <3>1 DEF ReadBefore
        <4>2. ~VERSION_GREATER_THAN(c, c)
          BY NotItself
        <4> QED BY <3>6, <4>1, <4>2 DEF Newer
      <3>11. Wins(h, C)'
        BY <3>2, <3>9, <3>10 DEF Wins
      <3>12. ObjAt(h)'.value = acked'[k0]
        BY <2>1, <2>3, <3>1, <3>3 DEF CopyOf, AtBest
      <3>13. AtBest(C, k0, h)'
        BY <3>11, <3>12 DEF AtBest
      <3>14. PICK e \in Inode : e.location = h /\ e.reference_count = inodes[k0].reference_count
                                /\ inodes' = [inodes EXCEPT ![k0] = e]
        BY <2>5, <3>1 DEF Copying
      <3>15. inodes'[k0] = e
        BY <1>2, <2>4, <3>14
      <3>16. HasInode(k0)' /\ h = inodes'[k0].location
        BY <2>2, <3>14, <3>15 DEF HasInode
      <3> QED BY <3>2, <3>13, <3>16, MemoryThen
    <2>6. CASE Dropping(x, k0)
      <3>1. n = x /\ ObjAt(x).value = Deleted /\ inodes' = [inodes EXCEPT ![k0] = NoInode]
        BY <2>3, <2>6 DEF Dropping, LastTrace
      <3>2. inodes'[k0] = NoInode
        BY <1>2, <2>4, <3>1
      <3>3. ~HasInode(k0)'
        BY <3>2 DEF HasInode, NoInode
      <3>4. acked'[k0] = Deleted
        BY <2>1, <2>3, <3>1 DEF AtBest
      <3> QED BY <3>3, <3>4 DEF MemoryOK
    <2>7. CASE Skipping(x, k0)
      <3>1. PICK e \in Inode : e.location = n /\ inodes' = [inodes EXCEPT ![k0] = e] /\ n # x
        BY <2>3, <2>7 DEF Skipping
      <3>2. inodes'[k0].location = n
        BY <1>2, <2>4, <3>1
      <3>3. Live' = Live \ {x}
        <4>1. ~Copying(x, k0)
          BY <2>7 DEF Skipping, Copying
        <4> QED BY <1>3, <4>1
      <3>4. PICK C : C = Held(k0) \ {x} /\ C = Held(k0)'
        BY <1>1, <1>2, <1>4, <3>3, HeldLess
      <3>5. n \in C
        BY <2>3, <3>1, <3>4 DEF AtBest, Wins
      <3>6. AtBest(C, k0, n)
        BY <2>3, <3>4, <3>5 DEF AtBest, Wins
      <3>7. \A l \in C : ObjAt(l)' = ObjAt(l)
        BY <1>4, <3>4 DEF Held
      <3>8. AtBest(C, k0, n)'
        BY <2>1, <3>6, <3>7, BestSame
      <3>9. HasInode(k0)'
        <4>1. Exact'
          BY ExactCollect
        <4>2. inodes'[k0].reference_count = Cardinality(C) /\ IsFiniteSet(C)
          <5>1. IsFiniteSet(Held(k0))
            BY <1>2, HeldFinite
          <5>2. IsFiniteSet(C)
            BY <3>4, <5>1, FS_Subset
          <5> QED BY <1>2, <3>4, <4>1, <5>2 DEF Exact
        <4>3. Cardinality(C) \in Nat /\ Cardinality(C) # 0
          BY <3>5, <4>2, FS_EmptySet, FS_CardinalityType
        <4> QED BY <4>2, <4>3 DEF HasInode
      <3> QED BY <3>2, <3>4, <3>8, <3>9, MemoryThen
    <2> QED BY <1>1, <2>5, <2>6, <2>7, CollectCases
  <1> QED BY <1>2, <1>5, <1>8, <1>9, <1>10 DEF NorfsKeeps, FlashKeeps, MemoryKeeps

LEMMA NorfsKeepsInit ==
  ASSUME NorfsInit
  PROVE  NorfsKeeps
  <1>1. ~Active
    BY DEF NorfsInit, Unmounted, Active
  <1>2. ASSUME NEW k \in Keys PROVE FlashOK(k)
    <2>1. Finished = {}
      BY DEF NorfsInit, Finished, Empty
    <2>2. Copies(k) = {}
      BY <2>1 DEF Copies, ObjectsIn
    <2>3. acked[k] = Deleted
      BY DEF NorfsInit
    <2> QED BY <2>2, <2>3 DEF FlashOK
  <1> QED BY <1>1, <1>2 DEF NorfsKeeps, FlashKeeps, MemoryKeeps

LEMMA NorfsKeepsStep ==
  ASSUME NorfsBase, VersionsNear, VersionsNear', NorfsKeeps, [NorfsNext]_norfsvars
  PROVE  NorfsKeeps'
  <1>1. NorfsTypeOK
    BY DEF NorfsBase
  <1>2. ASSUME norfs_unmount_fs \/ norfs_power_fails PROVE NorfsKeeps'
    <2>1. NorfsForget /\ Settle /\ UNCHANGED blocks
      BY <1>2 DEF norfs_unmount_fs, norfs_power_fails
    <2> QED BY <2>1, KeepsForget
  <1>3. ASSUME Aside, Active, Active', NorfsTypeOK', UNCHANGED <<acked, overtaken>>,
               norfs_pc \in {"idle", "space", "write"} \/ norfs_pc' \notin {"idle", "space", "write"}
        PROVE  NorfsKeeps'
    <2>1. Live' = Live /\ ObjectsIn(Finished)' = ObjectsIn(Finished) /\ \A l : ObjAt(l)' = ObjAt(l)
      BY <1>3, AsideBlocks
    <2>2. ~Exposed /\ inodes' = inodes
      BY <1>3 DEF Aside, Exposed
    <2> QED BY <1>3, <2>1, <2>2, KeepsSteady
  <1>4. ASSUME NEW k \in Keys, NEW v \in Values \cup {Deleted}, norfs_put_obj_iovec(k, v) PROVE NorfsKeeps'
    <2>1. NorfsTypeOK'
      BY <1>4, PutType
    <2>2. Aside /\ norfs_pc = "idle" /\ norfs_pc' = "space" /\ fs_mounted /\ UNCHANGED <<acked, overtaken>>
      BY <1>4 DEF norfs_put_obj_iovec, Aside, memvars, promised
    <2>3. Active /\ Active'
      BY <2>2 DEF Active
    <2> QED BY <1>3, <2>1, <2>2, <2>3
  <1>5. ASSUME find_space_for_object PROVE NorfsKeeps'
    <2>1. NorfsTypeOK'
      BY <1>1, <1>5, SpaceType
    <2>2. Aside /\ norfs_pc = "space" /\ norfs_pc' \in {"write", "open"} /\ UNCHANGED <<acked, overtaken>>
      BY <1>5 DEF find_space_for_object, Aside, memvars, promised
    <2>3. Active /\ Active'
      BY <2>2 DEF Active
    <2> QED BY <1>3, <2>1, <2>2, <2>3
  <1>6. ASSUME initialize_next_block PROVE NorfsKeeps'
    <2>1. /\ Active /\ Live' = Live /\ ObjectsIn(Finished)' = ObjectsIn(Finished)
          /\ \A l \in Live \cup ObjectsIn(Finished) : ObjAt(l)' = ObjAt(l)
      BY <1>6, OpenedBlock, OpenBlocks
    <2>2. ~Exposed /\ UNCHANGED <<acked, overtaken, inodes>>
      BY <1>6 DEF initialize_next_block, Exposed, promised
    <2> QED BY <2>1, <2>2, KeepsSteady
  <1>7. ASSUME UNCHANGED norfsvars PROVE NorfsKeeps'
    <2>1. UNCHANGED <<blocks, fs_mounted, write_block, inodes, norfs_pc, next_obj, acked, overtaken>>
      BY <1>7 DEF norfsvars, memvars, pcvars, promised
    <2>2. /\ Active' <=> Active
          /\ Exposed' <=> Exposed
          /\ \A l : ObjAt(l)' = ObjAt(l)
      BY <2>1 DEF Active, Exposed, ObjAt
    <2>3. Live' = Live /\ ObjectsIn(Finished)' = ObjectsIn(Finished)
      <3>1. Kept' = Kept /\ Finished' = Finished /\ \A l : Passed(l)' <=> Passed(l)
        BY <2>1 DEF Kept, Finished, Opening, Passed, garbage_block
      <3>2. /\ ObjectsIn(Kept)' = PlacesOf(blocks', Kept') /\ ObjectsIn(Kept) = PlacesOf(blocks, Kept)
            /\ ObjectsIn(Finished)' = PlacesOf(blocks', Finished') /\ ObjectsIn(Finished) = PlacesOf(blocks, Finished)
        BY DEF ObjectsIn, PlacesOf
      <3>3. ObjectsIn(Kept)' = ObjectsIn(Kept) /\ ObjectsIn(Finished)' = ObjectsIn(Finished)
        BY <2>1, <3>1, <3>2
      <3> QED BY <3>1, <3>3 DEF Live
    <2>4. ASSUME NEW k \in Keys
          PROVE  (FlashOK(k) => FlashOK(k)') /\ (MemoryOK(k) => MemoryOK(k)')
      <3>1. Copies(k)' = Copies(k) /\ Held(k)' = Held(k)
        BY <2>2, <2>3 DEF Copies, Held
      <3>2. FlashOK(k) => FlashOK(k)'
        BY <2>1, <2>2, <3>1, FlashSame
      <3>3. MemoryOK(k) => MemoryOK(k)'
        BY <2>1, <2>2, <3>1, MemorySame
      <3> QED BY <3>2, <3>3
    <2> QED BY <2>1, <2>2, <2>4 DEF NorfsKeeps, FlashKeeps, MemoryKeeps
  <1> QED BY <1>2, <1>4, <1>5, <1>6, <1>7, KeepsMount, KeepsWipe, KeepsErase, KeepsFinish, KeepsPut,
              KeepsBroken, KeepsCollect
          DEF NorfsNext

(* As long as the versions of an object's copies on the flash are within   *)
(* half the range of the version numbers, a mount after a failure of the   *)
(* power finds what norfs last stored, deletions included.  The three      *)
(* exceptions are those that CrashKeepsObjects names: the window between   *)
(* the erasure of the collected block and the finished mark, objects whose *)
(* version a collection overtook, and objects put over a block's header.   *)
THEOREM NorfsCrashKeepsObjects == NorfsSpec /\ []VersionsNear => []CrashKeepsObjects
  <1>1. NorfsBase /\ VersionsNear /\ NorfsKeeps => CrashKeepsObjects
    <2> SUFFICES ASSUME NorfsBase, VersionsNear, NorfsKeeps, ~Exposed, NEW k \in Keys \ overtaken
                 PROVE  Recovered(k) = acked[k]
      BY DEF CrashKeepsObjects
    <2>1. NorfsTypeOK /\ FlashOK(k)
      BY DEF NorfsBase, NorfsKeeps, FlashKeeps
    <2> QED BY <2>1, FlashFound
  <1> QED BY <1>1, NorfsBaseAlways, NorfsKeepsInit, NorfsKeepsStep, PTL DEF NorfsSpec
=============================================================================
