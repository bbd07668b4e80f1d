------------------------------ MODULE Installer ------------------------------
(***************************************************************************)
(* What the installation does to the memory card and the NAND: the work of *)
(* the on_enter handlers of app/aiseirigh/states, from mount_ms to finish, *)
(* run one after the other by the state machine (module StateMachine has   *)
(* the threads).  Every call that can fail does so at any time, the power  *)
(* can go at any step, and the user can then start again on what the       *)
(* interrupted attempt left behind.                                        *)
(*                                                                         *)
(* FatFs, lflash and the crypto engine are external.  A path is the number *)
(* of its flash partition followed by the names on the way down.           *)
(***************************************************************************)
EXTENDS Ipl, TLC

CONSTANTS
  Table,        (* the PSAR's table: a sequence of [type, path]           *)
  Encrypted,    (* the IPL is encrypted: every model but the 01G          *)
  MAX_RETRY     (* attempts at f_mkdir: 5                                 *)

ASSUME InstallerAssumption ==
  /\ Table \in Seq([type : {"directory", "file", "personalised", "ipl"}, path : Seq(Nat)])
  /\ Encrypted \in BOOLEAN
  /\ MAX_RETRY \in Nat \ {0}

Flashes == 0 .. 3
Records == 0 .. 4    (* the MBR and the boot records of the four partitions *)

VARIABLES
  st,          (* the current state's name, "off" before the menu          *)
  i,           (* the loop counter of its handler                          *)
  retry,       (* create_directories: the inner loop's counter             *)
  failed,      (* create_directories: result # FR_OK                       *)
  card,        (* the updater on the memory card: "genuine" or "other"     *)
  opened,      (* psar_open has succeeded, self test included              *)
  directories, (* app_state->directories                                   *)
  mounted,     (* the flash partitions that are mounted                    *)
  records,     (* on the NAND: the boot records that are whole             *)
  formatted,   (* on the NAND: the partitions with a file system           *)
  made,        (* on the NAND: the directories                             *)
  file,        (* on the NAND: "absent", "partial" or "whole", per entry   *)
  touched      (* history: this attempt has changed the NAND               *)

volatile == <<i, retry, failed, card, opened, directories, mounted>>
flash == <<records, formatted, made, file>>
installervars == <<st, volatile, flash, touched, iplvars>>

Off ==
  /\ st' = "off"
  /\ i' = 1
  /\ retry' = 0
  /\ failed' = FALSE
  /\ opened' = FALSE
  /\ directories' = <<>>
  /\ mounted' = {}
  /\ touched' = FALSE

InstallerInit ==
  /\ st = "off"
  /\ i = 1
  /\ retry = 0
  /\ failed = FALSE
  /\ card \in {"genuine", "other"}
  /\ opened = FALSE
  /\ directories = <<>>
  /\ mounted = {}
  /\ records = {}
  /\ formatted = {}
  /\ made = {}
  /\ file = [k \in DOMAIN Table |-> "absent"]
  /\ touched = FALSE
  /\ IplInit

(* The outcome of a handler or of one of its iterations. *)
Goto(s) == st' = s /\ i' = 1
Continue == i' = i + 1 /\ UNCHANGED st
-----------------------------------------------------------------------------
(* The power fails, or the user switches the device off.  What the NAND    *)
(* holds is what the next attempt finds as old.                            *)
power_off ==
  /\ st # "off"
  /\ Off
  /\ UNCHANGED <<flash, card>>
  /\ nand' = [b \in Blocks |-> IF nand[b] = Erased THEN Erased ELSE Old]
  /\ ipl_pc' = "idle"
  /\ block_num' = 0
  /\ num_written' = 0
  /\ block_index' = <<>>
  /\ written' = FALSE
  /\ res' = 0
  /\ unerased' = {}
  /\ UNCHANGED <<bad, pages>>

(* The user puts in a card and starts the installation from the menu. *)
press_x ==
  /\ st = "off"
  /\ Goto("mount_ms")
  /\ card' \in {"genuine", "other"}
  /\ UNCHANGED <<retry, failed, opened, directories, mounted, flash, touched, iplvars>>

mount_ms ==
  /\ st = "mount_ms"
  /\ \/ Goto("check_updater")
     \/ Goto("error")
  /\ UNCHANGED <<retry, failed, card, opened, directories, mounted, flash, touched, iplvars>>

(* file_sha1_calc and the comparison with the known digest. *)
check_updater ==
  /\ st = "check_updater"
  /\ \/ card = "genuine" /\ Goto("process_psar")
     \/ Goto("error")
  /\ UNCHANGED <<retry, failed, card, opened, directories, mounted, flash, touched, iplvars>>

(* strcmp on paths: names are compared from the left, and a path comes     *)
(* before every path it is a prefix of.                                    *)
Before(p, q) ==
  \/ Len(p) < Len(q) /\ SubSeq(q, 1, Len(p)) = p
  \/ \E k \in DOMAIN p \cap DOMAIN q :
       p[k] < q[k] /\ SubSeq(p, 1, k - 1) = SubSeq(q, 1, k - 1)

(* The directories that psar_read_each_directory hands out. *)
TableDirectories ==
  LET IsDir(e) == e.type = "directory"
      dirs == SelectSeq(Table, IsDir)
  IN  [k \in DOMAIN dirs |-> dirs[k].path]

qsort == SortSeq(TableDirectories, Before)

(* What is asked of qsort, which is external: every directory and nothing  *)
(* else, in the order of the comparison.                                   *)
ASSUME QsortSorts ==
  /\ qsort \in Seq(Seq(Nat))
  /\ {qsort[k] : k \in DOMAIN qsort}
       = {Table[k].path : k \in {j \in DOMAIN Table : Table[j].type = "directory"}}
  /\ \A j, k \in DOMAIN qsort : j < k => ~Before(qsort[k], qsort[j])

(* Mutant: the directories in the order of the table. *)
ReadDirectories_Unsorted == TableDirectories

(* app_state->directories: sorted before they are made. *)
ReadDirectories == qsort

Parent(p) == SubSeq(p, 1, Len(p) - 1)

(* The update's table holds whole trees: with a directory its parent, up   *)
(* to the ones of a partition's root.                                      *)
ASSUME TableHasParents ==
  \A k \in DOMAIN Table : Table[k].type = "directory" =>
    \/ Len(Table[k].path) = 2
    \/ /\ Len(Table[k].path) > 2
       /\ \E j \in DOMAIN Table :
            Table[j].type = "directory" /\ Table[j].path = Parent(Table[k].path)

HasIpl == \E k \in DOMAIN Table : Table[k].type = "ipl"

(* psar_init, psar_open, psar_read_each_directory and qsort.  The self     *)
(* test fails if an encrypted IPL is missing or does not decrypt.          *)
process_psar ==
  /\ st = "process_psar"
  /\ \/ /\ Encrypted => HasIpl
        /\ opened' = TRUE
        /\ directories' = ReadDirectories
        /\ Goto("partition_flash")
     \/ Goto("error") /\ UNCHANGED <<opened, directories>>
  /\ UNCHANGED <<retry, failed, card, mounted, flash, touched, iplvars>>

(* One lflash_write_sectors of fdisk: the MBR first, then a boot record    *)
(* per partition.                                                          *)
partition_flash ==
  /\ st = "partition_flash"
  /\ touched' = TRUE
  /\ \/ /\ records' = records \cup {i - 1}
        /\ IF i - 1 = 4 THEN Goto("format_flash") ELSE Continue
     \/ records' = records \ {i - 1} /\ Goto("error")
  /\ UNCHANGED <<retry, failed, card, opened, directories, mounted, formatted, made, file, iplvars>>

OnFlash(p, f) == p # <<>> /\ p[1] = f

(* f_mkfs of one partition, "flash3" first. *)
format_flash ==
  /\ st = "format_flash"
  /\ touched' = TRUE
  /\ LET f == 4 - i IN
       /\ made' = {d \in made : ~OnFlash(d, f)}
       /\ file' = [k \in DOMAIN Table |->
                     IF OnFlash(Table[k].path, f) THEN "absent" ELSE file[k]]
       /\ \/ /\ formatted' = formatted \cup {f}
             /\ IF f = 0 THEN Goto("mount_flash") ELSE Continue
          \/ formatted' = formatted \ {f} /\ Goto("error")
  /\ UNCHANGED <<retry, failed, card, opened, directories, mounted, records, iplvars>>

(* f_mount of flash0, then of flash1. *)
mount_flash ==
  /\ st = "mount_flash"
  /\ \/ /\ i - 1 \in formatted
        /\ mounted' = mounted \cup {i - 1}
        /\ IF i - 1 = 1 THEN Goto("create_directories") ELSE Continue
     \/ Goto("error") /\ UNCHANGED mounted
  /\ UNCHANGED <<retry, failed, card, opened, directories, flash, touched, iplvars>>

(* FatFs can create p: its volume is mounted and its directory is there.   *)
CanCreate(p) == p[1] \in mounted /\ (Len(p) = 2 \/ Parent(p) \in made)

(* Mutant: the result is that of the last directory. *)
create_directory_LastResult ==
  /\ st = "create_directories"
  /\ i <= Len(directories)
  /\ touched' = TRUE
  /\ \/ /\ CanCreate(directories[i]) /\ directories[i] \notin made
        /\ made' = made \cup {directories[i]}
        /\ failed' = FALSE
     \/ UNCHANGED made /\ failed' = TRUE
  /\ Continue
  /\ UNCHANGED <<retry, card, opened, directories, mounted, records, formatted, file, iplvars>>

(* One f_mkdir.  It can fail after the directory has been made, and then   *)
(* every further try is answered FR_EXIST.                                 *)
create_directory ==
  /\ st = "create_directories"
  /\ i <= Len(directories)
  /\ touched' = TRUE
  /\ LET d == directories[i] IN
       \/ /\ CanCreate(d) /\ d \notin made
          /\ made' = made \cup {d}
          /\ retry' = 0
          /\ Continue
          /\ UNCHANGED failed
       \/ /\ \/ UNCHANGED made
             \/ CanCreate(d) /\ made' = made \cup {d}
          /\ IF retry + 1 < MAX_RETRY
             THEN retry' = retry + 1 /\ UNCHANGED <<failed, st, i>>
             ELSE retry' = 0 /\ failed' = TRUE /\ Continue
  /\ UNCHANGED <<card, opened, directories, mounted, records, formatted, file, iplvars>>

create_directories_end ==
  /\ st = "create_directories"
  /\ i > Len(directories)
  /\ Goto(IF failed THEN "error" ELSE "flash_files")
  /\ UNCHANGED <<retry, failed, card, opened, directories, mounted, flash, touched, iplvars>>

(* psar_read_each_file: a directory is passed over ... *)
flash_skip ==
  /\ st = "flash_files"
  /\ i \in DOMAIN Table
  /\ Table[i].type = "directory"
  /\ Continue
  /\ UNCHANGED <<retry, failed, card, opened, directories, mounted, flash, touched, iplvars>>

(* ... a file that cannot be read, or an IPL that cannot be decrypted,     *)
(* ends the installation ...                                               *)
flash_read_error ==
  /\ st = "flash_files"
  /\ i \in DOMAIN Table
  /\ Table[i].type # "directory"
  /\ ipl_pc = "idle"
  /\ Goto("error")
  /\ UNCHANGED <<retry, failed, card, opened, directories, mounted, flash, touched, iplvars>>

(* ... flash_file opens, personalises, writes and closes a normal file:    *)
(* f_write may stop short with FR_OK, when the volume is full ...          *)
flash_file ==
  /\ st = "flash_files"
  /\ i \in DOMAIN Table
  /\ Table[i].type \in {"file", "personalised"}
  /\ touched' = TRUE
  /\ \/ /\ CanCreate(Table[i].path)
        /\ \E r \in {"partial", "whole"} : file' = [file EXCEPT ![i] = r]
        /\ Continue
     \/ /\ \/ UNCHANGED file
           \/ CanCreate(Table[i].path) /\ file' = [file EXCEPT ![i] = "partial"]
        /\ Goto("error")
  /\ UNCHANGED <<retry, failed, card, opened, directories, mounted, records, formatted, made, iplvars>>

(* ... and the boot loader goes through clear_ipl and write_ipl, whose     *)
(* result on_read_psar_file drops.                                         *)
flash_ipl ==
  /\ st = "flash_files"
  /\ i \in DOMAIN Table
  /\ Table[i].type = "ipl"
  /\ ipl_pc # "done"
  /\ IplNext
  /\ touched' = TRUE
  /\ UNCHANGED <<st, volatile, flash>>

flash_ipl_returns ==
  /\ st = "flash_files"
  /\ i \in DOMAIN Table
  /\ ipl_pc = "done"
  /\ ipl_pc' = "idle"
  /\ Continue
  /\ UNCHANGED <<retry, failed, card, opened, directories, mounted, flash, touched,
                 nand, bad, pages, block_num, num_written, block_index, written, res, unerased>>

flash_files_end ==
  /\ st = "flash_files"
  /\ i > Len(Table)
  /\ Goto("finish")
  /\ UNCHANGED <<retry, failed, card, opened, directories, mounted, flash, touched, iplvars>>

InstallerNext ==
  \/ power_off \/ press_x \/ mount_ms \/ check_updater \/ process_psar
  \/ partition_flash \/ format_flash \/ mount_flash
  \/ create_directory \/ create_directories_end
  \/ flash_skip \/ flash_read_error \/ flash_file \/ flash_ipl \/ flash_ipl_returns
  \/ flash_files_end

InstallerSpec == InstallerInit /\ [][InstallerNext]_installervars
-----------------------------------------------------------------------------
(* Types of the installation's state. *)
InstallerTypeOK ==
  /\ st \in {"off", "mount_ms", "check_updater", "process_psar", "partition_flash",
             "format_flash", "mount_flash", "create_directories", "flash_files",
             "finish", "error"}
  /\ i \in Nat \ {0}
  /\ retry \in 0 .. MAX_RETRY - 1
  /\ failed \in BOOLEAN
  /\ card \in {"genuine", "other"}
  /\ opened \in BOOLEAN
  /\ mounted \subseteq Flashes
  /\ records \subseteq Records
  /\ formatted \subseteq Flashes
  /\ file \in [DOMAIN Table -> {"absent", "partial", "whole"}]
  /\ touched \in BOOLEAN
  /\ IplTypeOK

(* Nothing on the NAND changes before the updater on the card has been     *)
(* recognised, its table read and its boot loader decrypted once.          *)
CheckedBeforeTouched == touched => card = "genuine" /\ opened

(* The order that qsort gives the directories is one in which they can be  *)
(* made: the parent of the next one has been tried before it.              *)
ParentsFirst ==
  st = "create_directories" /\ i <= Len(directories) =>
    LET d == directories[i]
    IN  Len(d) = 2 \/ \E k \in 1 .. i - 1 : directories[k] = Parent(d)

(* The installation touches nothing unchecked and makes directories in an  *)
(* order that works.                                                       *)
InstallerInv == InstallerTypeOK /\ CheckedBeforeTouched /\ ParentsFirst

(* Whatever earlier attempts left behind, "Done." means that the partition *)
(* table is whole, every partition has a file system and every directory   *)
(* and file of the table has been created.                                 *)
FinishMeansFlashed ==
  st = "finish" =>
    /\ records = Records
    /\ formatted = Flashes
    /\ \A k \in DOMAIN Table :
         /\ Table[k].type = "directory" => Table[k].path \in made
         /\ Table[k].type \in {"file", "personalised"} => file[k] # "absent"

(* ipl.c: if block 48 is reached "without writing all the pages then we    *)
(* are in a VERY bad situation and cannot continue".  So the installation  *)
(* does not report "Done." unless the boot loader is in the data blocks.   *)
FinishMeansBootLoader ==
  st = "finish" =>
    \A p \in 0 .. pages - 1 : \E d \in DataBlocks : nand[d] = Chunk((p \div ppb) * ppb)
=============================================================================
