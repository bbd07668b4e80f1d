-------------------------------- MODULE Norfs --------------------------------
(***************************************************************************)
(* lib/norfs/norfs.c: versioned objects appended to the blocks of a NOR    *)
(* flash.  A new block is opened with a mark that says that collection has *)
(* started; if too few blocks are free, the live objects of another block  *)
(* are copied into it and that block is erased; then the finished mark is  *)
(* written.  Mounting reads all blocks, and erases those without it.       *)
(*                                                                         *)
(* A step is one thing that happens to the flash, and the power may fail   *)
(* between any two; nothing else makes a write fail (the code says that it *)
(* does not define what happens then).  An object is there when the last   *)
(* word of its header is, so one that was being written is left out.       *)
(* Space is counted in units.                                              *)
(***************************************************************************)
EXTENDS Integers, FiniteSets, Sequences

CONSTANTS
  Keys,          (* the objects' keys                                     *)
  Values,        (* their contents                                        *)
  NUM_BLOCKS,    (* NORFS_NUM_BLOCKS                                      *)
  BLOCK_UNITS,   (* units of a block behind its header                    *)
  OBJ_OFFSET,    (* units of an object's header, and of a deletion        *)
  DATA_UNITS,    (* units of an object with its header                    *)
  VersionWidth,  (* bits of a version (16)                                *)
  MaxCalls       (* bound: calls of put, remove and mount                 *)

MIN_FREE_BLOCKS == 1
AVAILABLE_SPACE == (NUM_BLOCKS * BLOCK_UNITS) \div 2
VersionModulus == 2 ^ VersionWidth

ASSUME NorfsAssumption ==
  /\ {NUM_BLOCKS, BLOCK_UNITS, OBJ_OFFSET, VersionWidth, MaxCalls} \subseteq Nat \ {0}
  /\ NUM_BLOCKS > 1
  /\ VersionModulus \in Nat \ {0}
  /\ DATA_UNITS \in OBJ_OFFSET + 1 .. BLOCK_UNITS \div 2   \* NORFS_MAX_OBJ_LEN
  (* copies of an object that are there together are nearer than half the range *)
  /\ 2 * NUM_BLOCKS * BLOCK_UNITS < VersionModulus * OBJ_OFFSET

VARIABLES
  blocks,        (* on the flash: [header, objs] of each block            *)
  fs_mounted,    (* fs_mounted                                            *)
  write_block, write_offset,   (* write_pointer                           *)
  block_free,    (* the set of blocks whose block_free is set             *)
  num_free_blocks,
  total_remaining_space,
  inodes,        (* inode_list: [location, reference_count] by key        *)
  norfs_pc,      (* "idle", "space", "open", "collect", "erased",         *)
                 (* "finish" or "write"; "broken" once a put has written  *)
                 (* where it must not                                     *)
  caller,        (* who opens the block: "put", "after_put" or "mount"    *)
  putting,       (* the object norfs_put_obj_iovec is storing             *)
  obj_preexists, (* whether it had found an inode for it                  *)
  initial_block, (* find_space_for_object's initial_block_num             *)
  next_obj,      (* collect_block's garbage_read_ptr, as an index; 0 when *)
                 (* no block is collected                                 *)
  calls,         (* the number of calls made                              *)
  acked,         (* history: the last value stored by a call, by key      *)
  overtaken      (* history: the keys whose last version number was not   *)
                 (* newer than that of a copy on the flash, or whose last *)
                 (* object was written over the header of a block         *)

memvars == <<fs_mounted, write_block, write_offset, block_free, num_free_blocks,
             total_remaining_space, inodes>>
pcvars == <<norfs_pc, caller, putting, obj_preexists, initial_block, next_obj>>
promised == <<acked, overtaken>>
norfsvars == <<blocks, memvars, pcvars, calls, promised>>

NorBlocks == 0 .. NUM_BLOCKS - 1
Deleted == "deleted"
NoInode == [location |-> <<0, 0>>, reference_count |-> 0]
NoObject == [key |-> "none", version |-> 0, value |-> Deleted]

Units(o) == IF o.value = Deleted THEN OBJ_OFFSET ELSE DATA_UNITS
Empty(h) == [header |-> h, objs |-> <<>>]

(* The state of the program before a mount. *)
Unmounted ==
  /\ fs_mounted = FALSE
  /\ write_block = 0
  /\ write_offset = 0
  /\ block_free = {}
  /\ num_free_blocks = 0
  /\ total_remaining_space = AVAILABLE_SPACE
  /\ inodes = [k \in Keys |-> NoInode]
  /\ norfs_pc = "idle"
  /\ caller = "none"
  /\ putting = NoObject
  /\ obj_preexists = FALSE
  /\ initial_block = 0
  /\ next_obj = 0

NorfsInit ==
  /\ blocks = [b \in NorBlocks |-> Empty("bad")]
  /\ Unmounted
  /\ calls = 0
  /\ acked = [k \in Keys |-> Deleted]
  /\ overtaken = {}
-----------------------------------------------------------------------------
VERSION_GREATER_THAN(a, b) == (a - b) % VersionModulus \in 1 .. (VersionModulus \div 2) - 1

HasInode(k) == inodes[k].reference_count > 0
ObjAt(l) == blocks[l[1]].objs[l[2]]
Latest(k) == ObjAt(inodes[k].location)

(* A write pointer at the end of a block is in the next one. *)
write_block_num == write_block + (IF write_offset = BLOCK_UNITS THEN 1 ELSE 0)
curr_block_free_space == BLOCK_UNITS - (IF write_offset = BLOCK_UNITS THEN 0 ELSE write_offset)

(* The first free block after block b, round and round. *)
NextFree(b) ==
  LET steps == {j \in 1 .. NUM_BLOCKS : (b + j) % NUM_BLOCKS \in block_free}
  IN  (b + CHOOSE j \in steps : \A l \in steps : j <= l) % NUM_BLOCKS

(* The index after the object at l has been read by a mount. *)
mount_next_obj(ix, l) ==
  LET o == ObjAt(l)
      i == ix.inodes[o.key]
      newer == VERSION_GREATER_THAN(o.version, ObjAt(i.location).version)
  IN  IF i.reference_count = 0
      THEN [inodes |-> [ix.inodes EXCEPT ![o.key] = [location |-> l, reference_count |-> 1]],
            space |-> ix.space - Units(o)]
      ELSE [inodes |-> [ix.inodes EXCEPT ![o.key] =
                          [location |-> IF newer THEN l ELSE i.location,
                           reference_count |-> i.reference_count + 1]],
            space |-> IF newer THEN ix.space + Units(ObjAt(i.location)) - Units(o) ELSE ix.space]

(* The index ix after a mount has read the objects of block b, one by one. *)
mount_block(ix, b) ==
  LET read[j \in 0 .. Len(blocks[b].objs)] ==
        IF j = 0 THEN ix ELSE mount_next_obj(read[j - 1], <<b, j>>)
  IN  read[Len(blocks[b].objs)]

(* The index that a mount builds: the blocks that have the finished mark,  *)
(* in order.                                                               *)
Finished == {b \in NorBlocks : blocks[b].header = "finished"}
EmptyIndex == [inodes |-> [k \in Keys |-> NoInode], space |-> AVAILABLE_SPACE]
MountedIndex ==
  LET through[n \in 0 .. NUM_BLOCKS] ==
        IF n = 0 THEN EmptyIndex
        ELSE IF n - 1 \in Finished THEN mount_block(through[n - 1], n - 1) ELSE through[n - 1]
  IN  through[NUM_BLOCKS]

(* The blocks in `free' are erased and the index is ix; a block is opened, *)
(* the first free one after a random place.                                *)
Mount(free, ix) ==
  /\ norfs_pc = "idle"
  /\ calls < MaxCalls
  /\ calls' = calls + 1
  /\ blocks' = [b \in NorBlocks |-> IF b \in free THEN Empty("free") ELSE blocks[b]]
  /\ block_free' = free
  /\ num_free_blocks' = Cardinality(free)
  /\ inodes' = ix.inodes
  /\ total_remaining_space' = ix.space
  /\ write_block' \in NorBlocks
  /\ write_offset' = 0
  /\ norfs_pc' = "open"
  /\ caller' = "mount"
  /\ fs_mounted' = FALSE
  /\ UNCHANGED <<putting, obj_preexists, initial_block, next_obj>>

norfs_mount_fs ==
  /\ ~fs_mounted
  /\ Mount(NorBlocks \ Finished, MountedIndex)
  /\ UNCHANGED promised

(* Unmounts, erases everything and mounts again. *)
norfs_wipe_fs ==
  /\ Mount(NorBlocks, EmptyIndex)
  /\ acked' = [k \in Keys |-> Deleted]
  /\ overtaken' = {}

NorfsForget ==
  /\ fs_mounted' = FALSE
  /\ write_block' = 0
  /\ write_offset' = 0
  /\ block_free' = {}
  /\ num_free_blocks' = 0
  /\ total_remaining_space' = AVAILABLE_SPACE
  /\ inodes' = [k \in Keys |-> NoInode]
  /\ norfs_pc' = "idle"
  /\ caller' = "none"
  /\ putting' = NoObject
  /\ obj_preexists' = FALSE
  /\ initial_block' = 0
  /\ next_obj' = 0

(* What a mount would find the value of k to be. *)
Recovered(k) ==
  LET i == MountedIndex.inodes[k]
  IN  IF i.reference_count = 0 THEN Deleted ELSE ObjAt(i.location).value

(* Between the erasure of the collected block and the finished mark, the   *)
(* only copies of the objects it held are in a block that a mount erases.  *)
Exposed == norfs_pc \in {"erased", "finish"} /\ next_obj > 0

(* From here on what counts is what a mount will find. *)
Settle ==
  /\ acked' = [k \in Keys |-> Recovered(k)]
  /\ overtaken' = {}

norfs_unmount_fs ==
  /\ fs_mounted
  /\ norfs_pc \in {"idle", "broken"}
  /\ NorfsForget
  /\ Settle
  /\ UNCHANGED <<blocks, calls>>

(* The power fails: the memory is gone, the flash stays. *)
norfs_power_fails ==
  /\ norfs_pc # "idle"
  /\ NorfsForget
  /\ Settle
  /\ UNCHANGED <<blocks, calls>>
-----------------------------------------------------------------------------
(* norfs_put_obj_iovec and norfs_remove_obj up to find_space_for_object. A *)
(* call that is refused changes nothing.                                   *)
norfs_put_obj_iovec(k, v) ==
  /\ fs_mounted
  /\ norfs_pc = "idle"
  /\ calls < MaxCalls
  /\ LET o == [key |-> k, value |-> v,
               version |-> IF HasInode(k) THEN (Latest(k).version + 1) % VersionModulus ELSE 0]
     IN  /\ IF v = Deleted THEN HasInode(k) /\ Latest(k).value # Deleted
                           ELSE Units(o) <= total_remaining_space
         /\ putting' = o
         /\ obj_preexists' = HasInode(k)
  /\ calls' = calls + 1
  /\ initial_block' = write_block_num
  /\ norfs_pc' = "space"
  /\ caller' = "put"
  /\ UNCHANGED <<blocks, memvars, next_obj, promised>>

(* A round of its loop.  A write pointer at the end of a block has a page  *)
(* of free space, which is that of the next block.                         *)
find_space_for_object ==
  /\ norfs_pc = "space"
  /\ norfs_pc' = IF curr_block_free_space >= Units(putting) THEN "write" ELSE "open"
  /\ UNCHANGED <<blocks, memvars, caller, putting, obj_preexists, initial_block, next_obj, calls,
                 promised>>

(* initialize_next_block: a free block gets the started mark. *)
initialize_next_block ==
  /\ norfs_pc = "open"
  /\ block_free # {}
  /\ LET b == NextFree(write_block_num) IN
       /\ blocks' = [blocks EXCEPT ![b] = Empty("started")]
       /\ block_free' = block_free \ {b}
       /\ write_block' = b
  /\ write_offset' = 0
  /\ num_free_blocks' = num_free_blocks - 1
  /\ IF num_free_blocks - 1 < MIN_FREE_BLOCKS
     THEN norfs_pc' = "collect" /\ next_obj' = 1
     ELSE norfs_pc' = "finish" /\ next_obj' = 0
  /\ UNCHANGED <<fs_mounted, total_remaining_space, inodes, caller, putting,
                 obj_preexists, initial_block, calls, promised>>

(* select_garbage_block, for a write pointer in block b. *)
select_garbage_block(b) == (b + 1) % NUM_BLOCKS

garbage_block == select_garbage_block(write_block)

(* The object o is written at the write pointer. *)
write_obj_iovec(o) ==
  /\ blocks' = [blocks EXCEPT ![write_block].objs = Append(@, o)]
  /\ write_offset' = write_offset + Units(o)
Here == <<write_block, Len(blocks[write_block].objs) + 1>>

(* Mutant: a deletion is dropped although older versions are left. *)
LastTrace_Early(o) == o.value = Deleted

(* Object o is a deletion of which no older version is left. *)
LastTrace(o) == o.value = Deleted /\ inodes[o.key].reference_count = 1

(* The next object of the collected block: the latest version is copied,   *)
(* unless it is the last trace of a deletion.  get_inode finds an inode,   *)
(* since the references are exact: the branch without one is not taken.    *)
collect_garbage_object ==
  /\ norfs_pc = "collect"
  /\ next_obj \in DOMAIN blocks[garbage_block].objs
  /\ LET l == <<garbage_block, next_obj>>
         o == ObjAt(l)
         i == inodes[o.key]
         latest == i.location = l
         dropped == latest /\ LastTrace(o)
     IN  /\ IF latest /\ ~dropped
            THEN write_obj_iovec([o EXCEPT !.version = (@ + 1) % VersionModulus])
            ELSE UNCHANGED <<blocks, write_offset>>
         /\ inodes' = [inodes EXCEPT ![o.key] =
              CASE dropped -> NoInode
                [] latest /\ ~dropped -> [i EXCEPT !.location = Here]
                [] OTHER -> [i EXCEPT !.reference_count = @ - 1]]
         /\ total_remaining_space' = total_remaining_space + (IF dropped THEN OBJ_OFFSET ELSE 0)
  /\ next_obj' = next_obj + 1
  /\ UNCHANGED <<fs_mounted, write_block, block_free, num_free_blocks, norfs_pc, caller,
                 putting, obj_preexists, initial_block, calls, promised>>

(* erase_block: the erasure, and the header that makes the block free. *)
erase_block ==
  /\ \/ /\ norfs_pc = "collect"
        /\ next_obj \notin DOMAIN blocks[garbage_block].objs
        /\ blocks' = [blocks EXCEPT ![garbage_block] = Empty("bad")]
        /\ norfs_pc' = "erased"
        /\ UNCHANGED <<block_free, num_free_blocks>>
     \/ /\ norfs_pc = "erased"
        /\ blocks' = [blocks EXCEPT ![garbage_block] = Empty("free")]
        /\ block_free' = block_free \cup {garbage_block}
        /\ num_free_blocks' = num_free_blocks + 1
        /\ norfs_pc' = "finish"
  /\ UNCHANGED <<fs_mounted, write_block, write_offset, total_remaining_space, inodes,
                 caller, putting, obj_preexists, initial_block, next_obj, calls, promised>>

(* The finished mark, and the return of initialize_next_block to its       *)
(* caller.  find_space_for_object gives up when it has been round.         *)
finish_block ==
  /\ norfs_pc = "finish"
  /\ blocks' = [blocks EXCEPT ![write_block].header = "finished"]
  /\ fs_mounted' = TRUE
  /\ norfs_pc' = IF caller = "put" /\ write_block_num # initial_block THEN "space" ELSE "idle"
  /\ next_obj' = 0
  /\ UNCHANGED <<write_block, write_offset, block_free, num_free_blocks,
                 total_remaining_space, inodes, caller, putting, obj_preexists, initial_block, calls,
                 promised>>

(* The objects in the blocks B, and the copies of k that a mount reads. *)
ObjectsIn(B) == UNION {{<<b, j>> : j \in DOMAIN blocks[b].objs} : b \in B}
Copies(k) == {l \in ObjectsIn(Finished) : ObjAt(l).key = k}

(* Mutant: a new version is not counted. *)
NewReference_Uncounted(i) ==
  [location |-> Here, reference_count |-> IF i = NoInode THEN 1 ELSE i.reference_count]

(* Inode i once its object has been put at the write pointer. *)
NewReference(i) == [location |-> Here, reference_count |-> i.reference_count + 1]

(* What the call has stored, and whether a mount will see that it is newer.*)
Acknowledge(k, v) ==
  /\ acked' = [acked EXCEPT ![k] = v]
  /\ overtaken' =
       IF \A l \in Copies(k) : VERSION_GREATER_THAN(putting.version, ObjAt(l).version)
       THEN overtaken \ {k} ELSE overtaken \cup {k}

(* A collection has freed the inode that the call had looked up. *)
InodeFreed == obj_preexists /\ ~HasInode(putting.key)

(* The rest of norfs_put_obj_iovec: the object, with the version that was  *)
(* chosen before space was found for it, and its inode; a write pointer    *)
(* that fell off the block needs a new one.                                *)
put_writes ==
  /\ norfs_pc = "write"
  /\ write_offset # BLOCK_UNITS
  /\ ~InodeFreed
  /\ LET k == putting.key IN
       /\ inodes' = [inodes EXCEPT ![k] = NewReference(@)]
       /\ total_remaining_space' =
            total_remaining_space - Units(putting) + (IF HasInode(k) THEN Units(Latest(k)) ELSE 0)
       /\ Acknowledge(k, putting.value)
  /\ write_obj_iovec(putting)
  /\ norfs_pc' = IF write_offset' = BLOCK_UNITS THEN "open" ELSE "idle"
  /\ caller' = "after_put"
  /\ UNCHANGED <<fs_mounted, write_block, block_free, num_free_blocks, putting, obj_preexists,
                 initial_block, next_obj, calls>>

(* The same with an inode that has been freed: the object is stored, and   *)
(* what happens to the memory is not defined.                              *)
put_uses_freed_inode ==
  /\ norfs_pc = "write"
  /\ write_offset # BLOCK_UNITS
  /\ InodeFreed
  /\ write_obj_iovec(putting)
  /\ Acknowledge(putting.key, putting.value)
  /\ norfs_pc' = "broken"
  /\ UNCHANGED <<fs_mounted, write_block, block_free, num_free_blocks, inodes,
                 total_remaining_space, caller, putting, obj_preexists, initial_block, next_obj, calls>>

(* The same after a collection that has filled the block exactly: the      *)
(* write pointer is at the header of the next block, or behind the last    *)
(* one.  The call returns NO_ERROR, and a mount will find a bad header.    *)
put_over_header ==
  /\ norfs_pc = "write"
  /\ write_offset = BLOCK_UNITS
  /\ blocks' = [b \in NorBlocks |->
       IF b = write_block_num THEN [blocks[b] EXCEPT !.header = "bad"] ELSE blocks[b]]
  /\ acked' = [acked EXCEPT ![putting.key] = putting.value]
  /\ overtaken' = overtaken \cup {putting.key}
  /\ norfs_pc' = "broken"
  /\ UNCHANGED <<memvars, caller, putting, obj_preexists, initial_block, next_obj, calls>>

(* From "broken" on only the loss of the memory is modelled, by power or   *)
(* by norfs_unmount_fs, and so what these two calls do to it is left out.  *)
NorfsNext ==
  \/ norfs_mount_fs
  \/ norfs_wipe_fs
  \/ norfs_unmount_fs
  \/ norfs_power_fails
  \/ \E k \in Keys, v \in Values \cup {Deleted} : norfs_put_obj_iovec(k, v)
  \/ find_space_for_object
  \/ initialize_next_block
  \/ collect_garbage_object
  \/ erase_block
  \/ finish_block
  \/ put_writes
  \/ put_uses_freed_inode
  \/ put_over_header

NorfsSpec == NorfsInit /\ [][NorfsNext]_norfsvars
-----------------------------------------------------------------------------
(* Whatever has been stored is what a mount would find if the power failed *)
(* now, deletions included: no collection of a block brings an older       *)
(* version or a deleted object back.  The exceptions are an object whose   *)
(* version a collection overtook while it was being put, an object put     *)
(* over the header of a block, and the window in which                     *)
(* initialize_next_block has erased the collected block and not yet        *)
(* written the finished mark.                                              *)
CrashKeepsObjects == Exposed \/ \A k \in Keys \ overtaken : Recovered(k) = acked[k]

(* Between calls every inode has as many references as there are copies of *)
(* its object on the flash: with one too few, collect_garbage_object would *)
(* drop a deletion while an older version is still there to come back.     *)
ReferencesExact ==
  fs_mounted /\ norfs_pc = "idle"
    => \A k \in Keys : inodes[k].reference_count = Cardinality(Copies(k))

(* "File system can be unmounted.  All data is stored." (norfs.h): what    *)
(* was put is what a mount finds after an unmount.                         *)
AllDataIsStored == fs_mounted /\ norfs_pc = "idle" => \A k \in Keys : Recovered(k) = acked[k]
=============================================================================
