--------------------------------- MODULE Ipl ---------------------------------
(***************************************************************************)
(* app/aiseirigh/ipl.c: clear_ipl and write_ipl.  The boot loader is       *)
(* written to the data blocks of the NAND in chunks of one block, bad      *)
(* blocks skipped, and the list of the blocks used goes to every good      *)
(* index block at the end.  Each NAND operation is a step of its own:      *)
(* the power can fail between any two of them.                             *)
(*                                                                         *)
(* Erasing, writing and the bad-block test are the iplsdk's (external).    *)
(* Page contents are reduced to which chunk a block holds.                 *)
(***************************************************************************)
EXTENDS Integers, Sequences, FiniteSets

CONSTANTS
  FirstIndex, EndIndex,   (* index blocks: 4 to 11, EndIndex = 12         *)
  FirstData, EndData,     (* data blocks: 16 to 47, EndData = 48          *)
  ppb,                    (* pages per block: 32                          *)
  IplPages                (* the values of num_ipl_pages considered       *)

ASSUME IplAssumption ==
  /\ FirstIndex \in Nat /\ EndIndex \in Nat /\ FirstIndex <= EndIndex
  /\ FirstData \in Nat /\ EndData \in Nat
  /\ EndIndex <= FirstData /\ FirstData <= EndData
  /\ ppb \in Nat \ {0}
  /\ IplPages \subseteq Nat

Blocks      == 0 .. EndData - 1
IndexBlocks == FirstIndex .. EndIndex - 1
DataBlocks  == FirstData .. EndData - 1

(* What a block holds: what was there before, nothing, a write that did    *)
(* not verify, the chunk whose first page is p, or the list of blocks s.   *)
Old      == <<"old">>
Erased   == <<"erased">>
Torn     == <<"torn">>
Chunk(p) == <<"chunk", p>>
Index(s) == <<"index", s>>

VARIABLES
  nand,         (* block contents                                         *)
  bad,          (* the blocks emcsm_is_bad_block reports                  *)
  pages,        (* num_ipl_pages                                          *)
  ipl_pc,       (* "idle", "clear", "length", "data", "index", "done"     *)
  block_num,    (* block_num of the current loop                          *)
  num_written,  (* num_written_pages                                      *)
  block_index,  (* the filled part of block_index                         *)
  written,      (* written                                                *)
  res,          (* what write_ipl returned, 0 or -1                       *)
  unerased      (* history: blocks whose erase failed                     *)

iplvars == <<nand, bad, pages, ipl_pc, block_num, num_written, block_index, written, res,
             unerased>>

IplInit ==
  /\ nand = [b \in Blocks |-> Old]
  /\ bad \in SUBSET Blocks
  /\ pages \in IplPages
  /\ ipl_pc = "idle"
  /\ block_num = 0
  /\ num_written = 0
  /\ block_index = <<>>
  /\ written = FALSE
  /\ res = 0
  /\ unerased = {}

(* The call clear_ipl(); write_ipl(...) of flashfilesstate.c. *)
ipl_begin ==
  /\ ipl_pc = "idle"
  /\ ipl_pc' = "clear"
  /\ block_num' = 0
  /\ UNCHANGED <<nand, bad, pages, num_written, block_index, written, res, unerased>>

(* One iteration of clear_ipl: the result of emcsm_erase_block is not      *)
(* looked at.                                                              *)
clear_ipl ==
  /\ ipl_pc = "clear"
  /\ block_num < EndData
  /\ \/ nand' = [nand EXCEPT ![block_num] = Erased] /\ UNCHANGED unerased
     \/ unerased' = unerased \cup {block_num} /\ UNCHANGED nand
  /\ block_num' = block_num + 1
  /\ UNCHANGED <<bad, pages, ipl_pc, num_written, block_index, written, res>>

clear_ipl_returns ==
  /\ ipl_pc = "clear"
  /\ block_num >= EndData
  /\ ipl_pc' = "length"
  /\ UNCHANGED <<nand, bad, pages, block_num, num_written, block_index, written, res, unerased>>

Return(r) ==
  /\ ipl_pc' = "done"
  /\ res' = r

(* The checks on length, then the start of the loop over the data blocks. *)
check_length ==
  /\ ipl_pc = "length"
  /\ IF pages = 0 \/ pages > (EndData - FirstData) * ppb
     THEN Return(-1) /\ UNCHANGED <<block_num, num_written, block_index>>
     ELSE /\ ipl_pc' = "data"
          /\ block_num' = FirstData
          /\ num_written' = 0
          /\ block_index' = <<>>
          /\ UNCHANGED res
  /\ UNCHANGED <<nand, bad, pages, written, unerased>>

(* One iteration of the while loop that looks for the next good block. *)
skip_bad_block ==
  /\ ipl_pc = "data"
  /\ num_written < pages
  /\ \/ block_num >= EndData /\ Return(-1) /\ UNCHANGED block_num
     \/ /\ block_num < EndData
        /\ block_num \in bad
        /\ block_num' = block_num + 1
        /\ UNCHANGED <<ipl_pc, res>>
  /\ UNCHANGED <<nand, bad, pages, num_written, block_index, written, unerased>>

(* Mutants: block_num is not advanced after a write; the result of the     *)
(* write is not looked at.                                                 *)
write_data_block_NoAdvance ==
  /\ ipl_pc = "data"
  /\ num_written < pages
  /\ block_num < EndData
  /\ block_num \notin bad
  /\ block_index' = Append(block_index, block_num)
  /\ nand' = [nand EXCEPT ![block_num] = Chunk(num_written)]
  /\ num_written' = num_written + ppb
  /\ UNCHANGED <<bad, pages, ipl_pc, block_num, written, res, unerased>>

write_data_block_Unchecked ==
  /\ ipl_pc = "data"
  /\ num_written < pages
  /\ block_num < EndData
  /\ block_num \notin bad
  /\ block_index' = Append(block_index, block_num)
  /\ \E c \in {Chunk(num_written), Torn} : nand' = [nand EXCEPT ![block_num] = c]
  /\ block_num' = block_num + 1
  /\ num_written' = num_written + ppb
  /\ UNCHANGED <<bad, pages, ipl_pc, written, res, unerased>>

(* The rest of the iteration: emcsm_write_block_with_verify and its check. *)
write_data_block ==
  /\ ipl_pc = "data"
  /\ num_written < pages
  /\ block_num < EndData
  /\ block_num \notin bad
  /\ block_index' = Append(block_index, block_num)
  /\ \/ /\ nand' = [nand EXCEPT ![block_num] = Chunk(num_written)]
        /\ block_num' = block_num + 1
        /\ num_written' = num_written + ppb
        /\ UNCHANGED <<ipl_pc, res>>
     \/ /\ nand' = [nand EXCEPT ![block_num] = Torn]
        /\ Return(-1)
        /\ UNCHANGED <<block_num, num_written>>
  /\ UNCHANGED <<bad, pages, written, unerased>>

begin_index ==
  /\ ipl_pc = "data"
  /\ num_written >= pages
  /\ ipl_pc' = "index"
  /\ block_num' = FirstIndex
  /\ written' = FALSE
  /\ UNCHANGED <<nand, bad, pages, num_written, block_index, res, unerased>>

(* One iteration of the loop over the index blocks; the result of the      *)
(* write is not looked at.                                                 *)
write_index_block ==
  /\ ipl_pc = "index"
  /\ block_num < EndIndex
  /\ block_num' = block_num + 1
  /\ \/ block_num \in bad /\ UNCHANGED <<nand, written>>
     \/ /\ block_num \notin bad
        /\ \E c \in {Index(block_index), Torn} : nand' = [nand EXCEPT ![block_num] = c]
        /\ written' = TRUE
  /\ UNCHANGED <<bad, pages, ipl_pc, num_written, block_index, res, unerased>>

write_ipl_returns ==
  /\ ipl_pc = "index"
  /\ block_num >= EndIndex
  /\ Return(IF written THEN 0 ELSE -1)
  /\ UNCHANGED <<nand, bad, pages, block_num, num_written, block_index, written, unerased>>

IplStep ==
  \/ clear_ipl \/ clear_ipl_returns \/ check_length \/ skip_bad_block
  \/ write_data_block \/ begin_index \/ write_index_block \/ write_ipl_returns

IplNext == ipl_begin \/ IplStep

IplSpec == IplInit /\ [][IplNext]_iplvars
-----------------------------------------------------------------------------
NumChunks == (pages + ppb - 1) \div ppb

(* Types of the state of the boot loader's update. *)
IplTypeOK ==
  /\ DOMAIN nand = Blocks
  /\ bad \in SUBSET Blocks
  /\ pages \in IplPages
  /\ ipl_pc \in {"idle", "clear", "length", "data", "index", "done"}
  /\ block_num \in 0 .. EndData
  /\ num_written \in Nat
  /\ block_index \in Seq(DataBlocks)
  /\ written \in BOOLEAN
  /\ res \in {0, -1}
  /\ unerased \in SUBSET Blocks

(* At whatever step the power fails, an index block that write_ipl has     *)
(* written names good data blocks, as many as the boot loader needs, that  *)
(* hold its chunks in order.                                               *)
IndexPointsAtChunks ==
  \A b \in Blocks : nand[b][1] = "index" =>
    LET s == nand[b][2]
    IN  /\ Len(s) = NumChunks
        /\ \A i \in DOMAIN s : s[i] \notin bad /\ nand[s[i]] = Chunk((i - 1) * ppb)

(* The blocks are erased index first: an index block of the installation   *)
(* that is being replaced is still there only while all the blocks that it *)
(* can name are, unless its own erase failed, which clear_ipl does not     *)
(* notice.                                                                 *)
OldIndexOldData ==
  \A b \in IndexBlocks \ unerased :
    nand[b] = Old => \A d \in DataBlocks : nand[d] = Old

(* At whatever step the power fails, every index on the NAND, old or new,  *)
(* names blocks that hold what it promises (clear_ipl and write_ipl).      *)
IplInv == IplTypeOK /\ IndexPointsAtChunks /\ OldIndexOldData

(* write_ipl returns 0 only when the whole boot loader is in data blocks.  *)
SuccessMeansWritten ==
  ipl_pc = "done" /\ res = 0 =>
    \A p \in 0 .. pages - 1 : \E d \in DataBlocks : nand[d] = Chunk((p \div ppb) * ppb)
=============================================================================
