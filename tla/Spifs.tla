-------------------------------- MODULE Spifs --------------------------------
(***************************************************************************)
(* lib/fs/spifs/spifs.c: a flat file system on a flash device, with a      *)
(* table of contents at either end.  A change of the table is written over *)
(* the older of the two with a higher generation.                          *)
(*                                                                         *)
(* Every operation runs under the file system's mutex, so one is in        *)
(* progress at a time; what it does to the device is split into steps, any *)
(* of which may fail, and between which the power may.  A page is the unit *)
(* of the model: what is in it is reduced to whose data it is, a length is *)
(* a number of pages.  A table with a wrong checksum has generation        *)
(* CORRUPT_TOC.  The block device is external.                             *)
(***************************************************************************)
EXTENDS Integers, Sequences, SequencesExt, FiniteSets

CONSTANTS
  Names,           (* file names                                          *)
  Dirs,            (* dircookies                                          *)
  page_count,      (* pages of the device                                 *)
  toc_pages,       (* pages of a table of contents                        *)
  num_entries,     (* entries of a table, those of the tables included    *)
  Lengths,         (* lengths asked for, in pages                         *)
  MaxGeneration    (* bound: no operation begins with this generation     *)

ASSUME SpifsAssumption ==
  /\ {page_count, toc_pages, num_entries, MaxGeneration} \subseteq Nat \ {0}
  /\ Lengths \subseteq Nat
  /\ page_count >= 2 * toc_pages
  /\ num_entries > 2
  (* a name stands for a node of the list, so a file is never one of the tables *)
  /\ Names \cap {"front-toc", "back-toc", "closed"} = {}

VARIABLES
  toc,           (* on the device: [generation, files] of either table    *)
  page,          (* on the device: whose data a page holds                *)
  spifs_mounted, (* spifs_mount has succeeded                             *)
  generation,    (* spifs->generation                                     *)
  toc_position,  (* spifs->toc_position                                   *)
  files,         (* spifs->files                                          *)
  cookies,       (* next_file of each open dircookie, by name             *)
  op,            (* the operation in progress: [kind, at, file, left]     *)
  exists,        (* history: files created and not asked to be removed    *)
  stored,        (* history: pages of theirs that have been written and   *)
                 (* not begun to be written again                         *)
  saved,         (* history: their lengths in a table that was written    *)
  formatted      (* history: the last spifs_format has returned NO_ERROR  *)

spifsvars == <<toc, page, spifs_mounted, generation, toc_position, files, cookies, op,
               exists, stored, saved, formatted>>

FRONT_TOC == "front-toc"
BACK_TOC  == "back-toc"
CORRUPT_TOC == 0
Closed == "closed"

Entry(n, at, cap, len) == [name |-> n, page_idx |-> at, capacity |-> cap, length |-> len]
TocFiles == << Entry(FRONT_TOC, 0, toc_pages, toc_pages),
               Entry(BACK_TOC, page_count - toc_pages, toc_pages, toc_pages) >>

PagesOf(f) == f.page_idx .. f.page_idx + f.capacity - 1
Idle == [kind |-> "none", at |-> "none", file |-> TocFiles[1], left |-> {}]
TornToc == [generation |-> CORRUPT_TOC, files |-> <<>>]

(* A formatted device. *)
SpifsInit ==
  /\ toc = [t \in {FRONT_TOC, BACK_TOC} |->
              [generation |-> IF t = FRONT_TOC THEN 3 ELSE 2, files |-> TocFiles]]
  /\ page = [p \in 0 .. page_count - 1 |-> "erased"]
  /\ spifs_mounted = FALSE
  /\ generation = 0
  /\ toc_position = FRONT_TOC
  /\ files = <<>>
  /\ cookies = [d \in Dirs |-> Closed]
  /\ op = Idle
  /\ exists = {}
  /\ stored = [n \in Names |-> {}]
  /\ saved = [n \in Names |-> 0]
  /\ formatted = TRUE
-----------------------------------------------------------------------------
find_file(n) == \E i \in 2 .. Len(files) - 1 : files[i].name = n

(* Its place in the list, the file itself, and the list without it. *)
IndexOf(n) == CHOOSE i \in DOMAIN files : files[i].name = n
TheFile(n) == files[IndexOf(n)]
OtherFiles(n) == RemoveAt(files, IndexOf(n))

(* The list with file n of length len. *)
SetLength(n, len) ==
  [i \in DOMAIN files |-> IF files[i].name = n THEN [files[i] EXCEPT !.length = len] ELSE files[i]]

(* The first gap between two files that is long enough, or NO_OPEN_RUNS. *)
NO_OPEN_RUNS == 0
find_open_run(cap) ==
  LET gaps == {i \in 1 .. Len(files) - 1 :
                 files[i + 1].page_idx - (files[i].page_idx + files[i].capacity) >= cap}
      i == CHOOSE i \in gaps : \A j \in gaps : i <= j
  IN  IF gaps = {} THEN NO_OPEN_RUNS ELSE files[i].page_idx + files[i].capacity

consistency_check(fs) ==
  \A i \in 1 .. Len(fs) - 1 : fs[i + 1].page_idx > fs[i].page_idx + fs[i].capacity - 1

(* Before the first file that begins behind it. *)
spifs_add_ascending(f) ==
  LET behind == {i \in DOMAIN files : files[i].page_idx > f.page_idx}
  IN  IF behind = {} THEN Append(files, f)
      ELSE InsertAt(files, CHOOSE i \in behind : \A j \in behind : i <= j, f)

device == <<toc, page>>
handle == <<spifs_mounted, generation, toc_position>>
history == <<exists, stored, saved, formatted>>

(* An operation on the mounted file system takes the lock. *)
Enter == spifs_mounted /\ op = Idle
Begin == Enter /\ generation < MaxGeneration
-----------------------------------------------------------------------------
(* Mutant: the table that is in use is the one written over. *)
Target_InUse == toc_position

(* spifs_commit_toc: the other table gets the next generation.             *)
Target == IF toc_position = FRONT_TOC THEN BACK_TOC ELSE FRONT_TOC
NewToc == [generation |-> generation + 1, files |-> files]

(* The residue of an operation whose commit has failed: a file that was    *)
(* being created is forgotten; what a removal, a write or a truncation has *)
(* changed in memory stays as it is.                                       *)
commit_fails ==
  /\ op' = Idle
  /\ files' = CASE op.kind = "create" -> OtherFiles(op.file.name)
                [] op.kind \in {"format", "format_again"} -> <<>>
                [] OTHER -> files
  /\ UNCHANGED <<page, handle, cookies, history>>

(* The pages of the table are erased and written one by one; until the     *)
(* last one is there the checksum is wrong.                                *)
commit_writes ==
  /\ op.at = "commit"
  /\ \/ /\ toc' = [toc EXCEPT ![Target] = TornToc]
        /\ op' = [op EXCEPT !.at = "writing"]
        /\ UNCHANGED <<page, handle, files, cookies, history>>
     \/ UNCHANGED toc /\ commit_fails

commit_ends ==
  /\ op.at = "writing"
  /\ toc' = [toc EXCEPT ![Target] = NewToc]
  /\ generation' = generation + 1
  /\ toc_position' = Target
  /\ op' = IF op.kind = "format" THEN [op EXCEPT !.kind = "format_again", !.at = "commit"] ELSE Idle
  /\ files' = IF op.kind = "format_again" THEN <<>> ELSE files
  /\ exists' = IF op.kind = "create" THEN exists \cup {op.file.name} ELSE exists
  /\ saved' = [n \in Names |-> IF find_file(n) THEN TheFile(n).length ELSE saved[n]]
  /\ formatted' = (formatted \/ op.kind = "format_again")
  /\ UNCHANGED <<page, spifs_mounted, cookies, stored>>

(* An error is reported, although the last page may have been written. *)
commit_ends_badly ==
  /\ op.at = "writing"
  /\ toc' \in {toc, [toc EXCEPT ![Target] = NewToc]}
  /\ commit_fails

(* spifs_format, to the first of its two commits. *)
spifs_format ==
  /\ ~spifs_mounted
  /\ op = Idle
  /\ op' = [kind |-> "format", at |-> "commit", file |-> TocFiles[1], left |-> {}]
  /\ generation' = 1
  /\ toc_position' = FRONT_TOC
  /\ files' = TocFiles
  /\ exists' = {}
  /\ stored' = [n \in Names |-> {}]
  /\ saved' = [n \in Names |-> 0]
  /\ formatted' = FALSE
  /\ UNCHANGED <<device, spifs_mounted, cookies>>

(* The table that spifs_mount takes. *)
Newest ==
  IF toc[FRONT_TOC].generation > toc[BACK_TOC].generation THEN FRONT_TOC ELSE BACK_TOC

(* The files that have to be there and that table t has where the newest   *)
(* table has them.                                                         *)
InBoth(t) ==
  {n \in exists : \E i \in DOMAIN toc[t].files, j \in DOMAIN toc[Newest].files :
     LET f == toc[t].files[i]  g == toc[Newest].files[j]
     IN  f.name = n /\ g.name = n /\ f.page_idx = g.page_idx /\ f.capacity = g.capacity}

(* The older table t is taken: what only the newer one has is given up. *)
RollBack(t) ==
  /\ exists' = InBoth(t)
  /\ stored' = [n \in Names |-> IF n \in InBoth(t) THEN stored[n] ELSE {}]
  /\ saved' = [n \in Names |->
       IF \E i \in DOMAIN toc[t].files : toc[t].files[i].name = n /\ toc[t].files[i].length >= saved[n]
       THEN saved[n] ELSE 0]
  /\ UNCHANGED formatted

(* spifs_mount takes table t: the newest, or the other one if an error in  *)
(* reading the newest makes get_toc_generation return CORRUPT_TOC for it.  *)
(* A mount that fails changes nothing.                                     *)
spifs_mount(t) ==
  /\ ~spifs_mounted
  /\ op = Idle
  /\ toc[t].generation # CORRUPT_TOC
  /\ consistency_check(toc[t].files)
  /\ spifs_mounted' = TRUE
  /\ toc_position' = t
  /\ generation' = toc[t].generation
  /\ files' = toc[t].files
  /\ IF t = Newest THEN UNCHANGED history ELSE RollBack(t)
  /\ UNCHANGED <<device, cookies, op>>

Forget ==
  /\ spifs_mounted' = FALSE
  /\ generation' = 0
  /\ toc_position' = FRONT_TOC
  /\ files' = <<>>
  /\ cookies' = [d \in Dirs |-> Closed]
  /\ op' = Idle
  /\ UNCHANGED <<device, history>>

(* spifs_unmount; its caller has closed the directories. *)
spifs_unmount == Enter /\ (\A d \in Dirs : cookies[d] = Closed) /\ Forget

(* The power fails, in whatever operation. *)
power_fails == (spifs_mounted \/ op # Idle) /\ Forget
-----------------------------------------------------------------------------
spifs_create(n, len) ==
  LET cap == IF len = 0 THEN 1 ELSE len
      open_run == find_open_run(cap)
  IN  /\ Begin
      /\ ~find_file(n)
      /\ Len(files) < num_entries
      /\ open_run # NO_OPEN_RUNS
      /\ op' = [kind |-> "create", at |-> "erase", file |-> Entry(n, open_run, cap, len), left |-> {}]
      /\ UNCHANGED <<device, handle, files, cookies, history>>

(* bio_erase of the pages of the new file; on an error some are erased. *)
create_erases ==
  /\ op.at = "erase"
  /\ \/ /\ page' = [p \in DOMAIN page |-> IF p \in PagesOf(op.file) THEN "erased" ELSE page[p]]
        /\ files' = spifs_add_ascending(op.file)
        /\ op' = [op EXCEPT !.at = "commit"]
     \/ /\ \E S \in SUBSET PagesOf(op.file) :
             page' = [p \in DOMAIN page |-> IF p \in S THEN "erased" ELSE page[p]]
        /\ op' = Idle
        /\ UNCHANGED files
  /\ UNCHANGED <<toc, handle, cookies, history>>

(* The name of the file after that of name n in the list. *)
NextName(n) == files[IndexOf(n) + 1].name

(* Mutant: the directories that are being read are not looked at. *)
spifs_remove_KeepsCookies(n) ==
  /\ Begin
  /\ find_file(n)
  /\ files' = OtherFiles(n)
  /\ op' = [kind |-> "remove", at |-> "commit", file |-> TheFile(n), left |-> {}]
  /\ exists' = exists \ {n}
  /\ stored' = [stored EXCEPT ![n] = {}]
  /\ saved' = [saved EXCEPT ![n] = 0]
  /\ UNCHANGED <<device, handle, cookies, formatted>>

(* spifs_remove up to the commit.  Nobody has the file open. *)
spifs_remove(n) ==
  /\ Begin
  /\ find_file(n)
  /\ cookies' = [d \in Dirs |-> IF cookies[d] = n THEN NextName(n) ELSE cookies[d]]
  /\ files' = OtherFiles(n)
  /\ op' = [kind |-> "remove", at |-> "commit", file |-> TheFile(n), left |-> {}]
  /\ exists' = exists \ {n}
  /\ stored' = [stored EXCEPT ![n] = {}]
  /\ saved' = [saved EXCEPT ![n] = 0]
  /\ UNCHANGED <<device, handle, formatted>>

(* spifs_write of the pages from a to b of file n, up to the first page:   *)
(* the length grows in memory before anything is written.                  *)
spifs_write(n, a, b) ==
  /\ Begin
  /\ find_file(n)
  /\ b <= TheFile(n).capacity
  /\ LET f == TheFile(n)
         grows == b > f.length
     IN  /\ files' = IF grows THEN SetLength(n, b) ELSE files
         /\ op' = [kind |-> IF grows THEN "grow" ELSE "write", at |-> "page", file |-> f,
                   left |-> f.page_idx + a - 1 .. f.page_idx + b - 1]
  /\ UNCHANGED <<device, handle, cookies, history>>

NextPage == CHOOSE p \in op.left : \A q \in op.left : p <= q

(* spifs_write_page of the next page: bio_erase, on a device that needs    *)
(* it.  A page that is not all new is read before.  Either call may fail.  *)
erase_page ==
  LET p == NextPage
      n == op.file.name
  IN  /\ op.at = "page"
      /\ \/ op' = Idle /\ UNCHANGED <<page, stored>>
         \/ /\ page' \in {page, [page EXCEPT ![p] = "erased"]}
            /\ stored' = [stored EXCEPT ![n] = @ \ {p}]
            /\ op' \in {Idle, [op EXCEPT !.at = "rewrite"]}
      /\ UNCHANGED <<toc, handle, files, cookies, exists, saved, formatted>>

(* ... and bio_write_block, after which the next page or the table is due. *)
write_page ==
  LET p == NextPage
      n == op.file.name
      left == op.left \ {p}
  IN  /\ op.at = "rewrite"
      /\ \/ /\ page' = [page EXCEPT ![p] = n]
            /\ stored' = [stored EXCEPT ![n] = IF n \in exists THEN @ \cup {p} ELSE @]
            /\ op' = IF left # {} THEN [op EXCEPT !.left = left, !.at = "page"]
                     ELSE IF op.kind = "grow" THEN [op EXCEPT !.left = {}, !.at = "commit"] ELSE Idle
         \/ /\ page' \in {page, [page EXCEPT ![p] = "erased"], [page EXCEPT ![p] = n]}
            /\ op' = Idle
            /\ UNCHANGED stored
      /\ UNCHANGED <<toc, handle, files, cookies, exists, saved, formatted>>

spifs_truncate(n, len) ==
  /\ Begin
  /\ find_file(n)
  /\ len <= TheFile(n).length
  /\ files' = SetLength(n, len)
  /\ op' = [kind |-> "truncate", at |-> "commit", file |-> TheFile(n), left |-> {}]
  /\ saved' = [saved EXCEPT ![n] = IF len < @ THEN len ELSE @]
  /\ UNCHANGED <<device, handle, cookies, exists, stored, formatted>>

spifs_opendir(d) ==
  /\ Enter
  /\ cookies[d] = Closed
  /\ cookies' = [cookies EXCEPT ![d] = NextName(FRONT_TOC)]
  /\ UNCHANGED <<device, handle, files, op, history>>

spifs_readdir(d) ==
  /\ Enter
  /\ cookies[d] \notin {Closed, BACK_TOC}
  /\ cookies' = [cookies EXCEPT ![d] = NextName(cookies[d])]
  /\ UNCHANGED <<device, handle, files, op, history>>

spifs_closedir(d) ==
  /\ Enter
  /\ cookies[d] # Closed
  /\ cookies' = [cookies EXCEPT ![d] = Closed]
  /\ UNCHANGED <<device, handle, files, op, history>>

SpifsNext ==
  \/ spifs_format \/ spifs_unmount \/ power_fails
  \/ \E t \in {FRONT_TOC, BACK_TOC} : spifs_mount(t)
  \/ commit_writes \/ commit_ends \/ commit_ends_badly
  \/ create_erases \/ erase_page \/ write_page
  \/ \E n \in Names :
       \/ spifs_remove(n)
       \/ \E len \in Lengths : spifs_create(n, len) \/ spifs_truncate(n, len)
       \/ \E a, b \in 1 .. page_count : a <= b /\ spifs_write(n, a, b)
  \/ \E d \in Dirs : spifs_opendir(d) \/ spifs_readdir(d) \/ spifs_closedir(d)

SpifsSpec == SpifsInit /\ [][SpifsNext]_spifsvars
-----------------------------------------------------------------------------
(* Whenever the power fails, and whatever calls have failed before, the    *)
(* device can be mounted again, an unfinished format apart, no two files   *)
(* share a page, and every file whose creation was reported and whose      *)
(* removal was not asked for is there, not shorter than the last table     *)
(* that was reported written had it, with its own data in every page that  *)
(* was written and that spifs_write_page has not begun to write again.     *)
(* After a mount that could not read the newer table this is promised only *)
(* of what the older one had as well.                                      *)
CrashKeepsFiles ==
  LET fs == toc[Newest].files
  IN  /\ formatted => toc[Newest].generation # CORRUPT_TOC
      /\ consistency_check(fs)
      /\ \A n \in exists : \E i \in DOMAIN fs :
           /\ fs[i].name = n
           /\ fs[i].length >= saved[n]
           /\ \A p \in stored[n] : p \in PagesOf(fs[i]) /\ page[p] = n

(* A directory that is being read stands at a file that is still there,    *)
(* whatever has been removed meanwhile.                                    *)
CookiesAlive ==
  \A d \in Dirs : cookies[d] = Closed \/ \E i \in DOMAIN files : files[i].name = cookies[d]
=============================================================================
