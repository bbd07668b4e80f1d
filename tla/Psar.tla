-------------------------------- MODULE Psar --------------------------------
(***************************************************************************)
(* app/aiseirigh/psar.c: how the updater's container is opened and read.   *)
(* Everything goes through one file position and two work buffers, which   *)
(* the other states and the callbacks write to as well: what a callback is *)
(* given depends on where earlier reads and seeks have left them.          *)
(*                                                                         *)
(* A container is laid out in units: optionally the header of the PBP      *)
(* around it, its own header, the metadata, a block that is skipped, and   *)
(* for every entry a unit with its header and its data.  FatFs, the kirk   *)
(* engine and zlib are external; each call of them may fail.               *)
(***************************************************************************)
EXTENDS Integers, Sequences, SequencesExt

CONSTANTS
  Containers,    (* the files considered: [pbp, firmware, entries]; an    *)
                 (* entry has name, is_file, size, expanded_size, the     *)
                 (* lines, [name, path], of the table it holds if any,    *)
                 (* and at, where its data begins behind that of the      *)
                 (* first one                                             *)
  TableName,     (* the name of this model's table                        *)
  IplEncrypted,  (* the model is not the 01G                              *)
  WorkBuffer,    (* the length of a work buffer                           *)
  SkippedUnits   (* unk_block_size                                        *)

PsarEntry ==
  [name : STRING, is_file : BOOLEAN, size : Nat, expanded_size : Nat, at : Nat,
   lines : Seq([name : STRING, path : STRING])]

(* An entry of a container follows the data of the one before it. *)
LaidOut(entries) ==
  \A k \in DOMAIN entries :
    entries[k].at = IF k = 1 THEN 0 ELSE entries[k - 1].at + entries[k - 1].size + 1

ASSUME PsarAssumption ==
  /\ IplEncrypted \in BOOLEAN
  /\ {WorkBuffer, SkippedUnits} \subseteq Nat
  /\ Containers \subseteq [pbp : BOOLEAN, firmware : STRING, entries : Seq(PsarEntry)]
  /\ \A c \in Containers : LaidOut(c.entries)

VARIABLES
  container,   (* the file                                                *)
  psar_pc,     (* "closed", "header", "metadata", "entries", "table",     *)
               (* "self_test", "open", "directories", "files", "done" or  *)
               (* "failed"                                                *)
  fp,          (* the file position                                       *)
  wb1, wb2,    (* what the work buffers hold: [form, of], of an entry     *)
  list,        (* ph->list: [of, file_offset] of every entry read         *)
  table_copy,  (* build_table_entry_list's copy of the text               *)
  table_list,  (* ph->table_list: the index in list of each line's entry  *)
  pos,         (* the loop counter                                        *)
  handed       (* history: what the callbacks were given, [line, data]    *)

psarvars == <<container, psar_pc, fp, wb1, wb2, list, table_copy, table_list, pos, handed>>

Scratch == [form |-> "scratch", of |-> 0]

PsarInit ==
  /\ container \in Containers
  /\ psar_pc = "closed"
  /\ fp = 0
  /\ wb1 = Scratch
  /\ wb2 = Scratch
  /\ list = <<>>
  /\ table_copy = Scratch
  /\ table_list = <<>>
  /\ pos = 1
  /\ handed = <<>>
-----------------------------------------------------------------------------
Entries == container.entries
Start == IF container.pbp THEN 1 ELSE 0

(* Where the data of the k-th entry begins. *)
DataAt(k) == Start + 3 + SkippedUnits + Entries[k].at

(* What a read of a block at position p delivers, decrypted. *)
BlockAt(p) ==
  IF p = Start + 1 THEN [form |-> "metadata", of |-> 0]
  ELSE IF \E k \in DOMAIN Entries : p = DataAt(k) - 1
  THEN [form |-> "header", of |-> CHOOSE k \in DOMAIN Entries : p = DataAt(k) - 1]
  ELSE IF \E k \in DOMAIN Entries : p = DataAt(k)
  THEN [form |-> "compressed", of |-> CHOOSE k \in DOMAIN Entries : p = DataAt(k)]
  ELSE Scratch

(* The common part of the steps: from a state to a state. *)
Step(from, to) == psar_pc = from /\ psar_pc' = to /\ UNCHANGED container

(* Every call can fail, and so does every check that is not met. *)
psar_fails ==
  /\ psar_pc \notin {"closed", "done", "failed"}
  /\ psar_pc' = "failed"
  /\ UNCHANGED <<container, fp, wb1, wb2, list, table_copy, table_list, pos, handed>>

psar_open ==
  /\ Step("closed", "header")
  /\ fp' = 0
  /\ UNCHANGED <<wb1, wb2, list, table_copy, table_list, pos, handed>>

(* A round of get_header: the header of a PBP leads to that of the PSAR. *)
get_header ==
  /\ \/ fp = Start /\ Step("header", "metadata") /\ fp' = fp + 1
     \/ fp # Start /\ Step("header", "header") /\ fp' = Start
  /\ UNCHANGED <<wb1, wb2, list, table_copy, table_list, pos, handed>>

read_metadata ==
  /\ Step("metadata", "entries")
  /\ BlockAt(fp).form = "metadata"
  /\ wb1' = BlockAt(fp)
  /\ fp' = fp + 1 + SkippedUnits
  /\ UNCHANGED <<wb2, list, table_copy, table_list, pos, handed>>

Fits(entry) == entry.size <= WorkBuffer /\ entry.expanded_size <= WorkBuffer

(* An iteration of read_psar_contents_list: the header goes through wb1.   *)
read_entry ==
  /\ Step("entries", "entries")
  /\ pos <= Len(Entries)
  /\ BlockAt(fp).form = "header"
  /\ wb1' = BlockAt(fp)
  /\ Fits(Entries[wb1'.of])
  /\ list' = Append(list, [of |-> wb1'.of, file_offset |-> fp + 1])
  /\ fp' = fp + 1 + Entries[wb1'.of].size
  /\ pos' = pos + 1
  /\ UNCHANGED <<wb2, table_copy, table_list, handed>>

check_firmware ==
  /\ Step("entries", "table")
  /\ pos > Len(Entries)
  /\ container.firmware = "6.61"
  /\ UNCHANGED <<fp, wb1, wb2, list, table_copy, table_list, pos, handed>>

(* The entries of that name; the first one counts. *)
Named(name) == {k \in DOMAIN list : Entries[list[k].of].name = name}
First(S) == CHOOSE k \in S : \A j \in S : k <= j
lookup_entry_by_name(name) == First(Named(name))

is_entry_a_file(k) == Entries[list[k].of].is_file

(* The block at the offset of entry k goes to wb1 ...                      *)
read_file_by_entry(k) ==
  /\ is_entry_a_file(k)
  /\ BlockAt(list[k].file_offset).form = "compressed"
  /\ wb1' = BlockAt(list[k].file_offset)
  /\ fp' = list[k].file_offset + Entries[list[k].of].size

(* ... and, decompressed, to wb2, where the caller may go on to decrypt it. *)
Expanded(decrypt) == [form |-> IF decrypt THEN "decrypted" ELSE "expanded", of |-> wb1'.of]

Lines(buffer) == Entries[buffer.of].lines

(* The table of the model is decrypted in wb2 and copied, and every line   *)
(* has to name an entry.                                                   *)
build_table_entry_list ==
  /\ Step("table", "self_test")
  /\ Named(TableName) # {}
  /\ read_file_by_entry(lookup_entry_by_name(TableName))
  /\ wb2' = Expanded(TRUE)
  /\ \A i \in DOMAIN Lines(wb2') : Named(Lines(wb2')[i].name) # {}
  /\ table_copy' = wb2'
  /\ table_list' = [i \in DOMAIN Lines(wb2') |-> lookup_entry_by_name(Lines(wb2')[i].name)]
  /\ pos' = 1
  /\ UNCHANGED <<list, handed>>

(* Mutant: the lines are left in the work buffer. *)
Path_InPlace(i) ==
  IF wb2.of # 0 /\ i \in DOMAIN Lines(wb2) THEN Lines(wb2)[i].path ELSE "garbage"

(* A line of the table list points into the copy. *)
Path(i) == Lines(table_copy)[i].path

IplLines == {i \in DOMAIN table_list : is_entry_a_file(table_list[i]) /\ Path(i) = "ipl"}

(* The first boot loader of the table is decrypted once; it must be there. *)
self_test_ipl_decryption ==
  /\ Step("self_test", "open")
  /\ \/ ~IplEncrypted /\ UNCHANGED <<fp, wb1, wb2>>
     \/ /\ IplEncrypted
        /\ IplLines # {}
        /\ read_file_by_entry(table_list[First(IplLines)])
        /\ wb2' = Expanded(TRUE)
  /\ UNCHANGED <<list, table_copy, table_list, pos, handed>>

(* The directories are asked for at once, the files after format_flash has *)
(* used wb1.                                                               *)
begin_directories ==
  /\ Step("open", "directories")
  /\ pos' = 1
  /\ UNCHANGED <<fp, wb1, wb2, list, table_copy, table_list, handed>>

begin_files ==
  /\ Step("directories", "files")
  /\ pos > Len(table_list)
  /\ pos' = 1
  /\ wb1' = Scratch
  /\ UNCHANGED <<fp, wb2, list, table_copy, table_list, handed>>

psar_read_each_directory ==
  /\ Step("directories", "directories")
  /\ pos <= Len(table_list)
  /\ handed' = IF is_entry_a_file(table_list[pos]) THEN handed
               ELSE Append(handed, [line |-> pos, path |-> Path(pos), data |-> Scratch])
  /\ pos' = pos + 1
  /\ UNCHANGED <<fp, wb1, wb2, list, table_copy, table_list>>

(* An iteration of psar_read_each_file with the callback, which may        *)
(* personalise the file where it is, in wb2.                               *)
psar_read_each_file ==
  /\ Step("files", "files")
  /\ pos <= Len(table_list)
  /\ \/ ~is_entry_a_file(table_list[pos]) /\ UNCHANGED <<fp, wb1, wb2, handed>>
     \/ /\ read_file_by_entry(table_list[pos])
        /\ handed' = Append(handed, [line |-> pos, path |-> Path(pos),
                                     data |-> Expanded(IplEncrypted /\ Path(pos) = "ipl")])
        /\ wb2' = Scratch
  /\ pos' = pos + 1
  /\ UNCHANGED <<list, table_copy, table_list>>

end_files ==
  /\ Step("files", "done")
  /\ pos > Len(table_list)
  /\ UNCHANGED <<fp, wb1, wb2, list, table_copy, table_list, pos, handed>>

PsarNext ==
  \/ psar_fails \/ psar_open \/ get_header \/ read_metadata \/ read_entry
  \/ check_firmware \/ build_table_entry_list \/ self_test_ipl_decryption
  \/ begin_directories \/ psar_read_each_directory
  \/ begin_files \/ psar_read_each_file \/ end_files

PsarSpec == PsarInit /\ [][PsarNext]_psarvars
-----------------------------------------------------------------------------
(* What the container says is to be installed, from its contents and not   *)
(* from what was read: a line of the first entry with the table's name is  *)
(* handed over with the first entry it names.                              *)
FirstNamed(name) == First({k \in DOMAIN Entries : Entries[k].name = name})
TheLines == Entries[FirstNamed(TableName)].lines
EntryOf(i) == FirstNamed(TheLines[i].name)

Promised(i) ==
  [line |-> i, path |-> TheLines[i].path,
   data |-> IF Entries[EntryOf(i)].is_file
            THEN [form |-> IF IplEncrypted /\ TheLines[i].path = "ipl" THEN "decrypted" ELSE "expanded",
                  of |-> EntryOf(i)]
            ELSE Scratch]

(* The directories come before the files, either in the table's order. *)
ComesBefore(i, j) ==
  LET file(l) == Entries[EntryOf(l)].is_file
  IN  IF file(i) = file(j) THEN i < j ELSE file(j)

(* Whatever passes through the shared file position and the two work       *)
(* buffers between the reads, the callbacks get what the container says,   *)
(* in its order and without gaps, each path with the data of its own entry *)
(* and only the boot loader decrypted; nothing is left out if it all ends  *)
(* well, and nothing is handed out of a container of another firmware.     *)
DeliversEntries ==
  LET before(n) == {i \in DOMAIN TheLines : ComesBefore(i, handed[n].line)}
      until(n) == {handed[m].line : m \in 1 .. n - 1}
  IN  /\ handed # <<>> => container.firmware = "6.61"
      /\ \A n \in DOMAIN handed :
           /\ handed[n].line \in DOMAIN TheLines
           /\ handed[n] = Promised(handed[n].line)
           /\ until(n) = before(n)
      /\ psar_pc = "done" => {handed[n].line : n \in DOMAIN handed} = DOMAIN TheLines
=============================================================================
