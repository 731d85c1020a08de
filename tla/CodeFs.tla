------------------------------- MODULE CodeFs -------------------------------
(***************************************************************************)
(* CodeFS, src/kernel/codefs.c and codefs_mkfs.c: the formatter, the mount *)
(* and the one write call that has callers (codefs_write_file, on files    *)
(* the formatter created).  Every block written to the disk is a step of   *)
(* its own: the machine may stop between any two, or a write may fail.     *)
(*                                                                         *)
(* A block number is its bit in the block bitmap.  A file is as long as    *)
(* the blocks it fills; size 0 stands for CODEFS_INLINE_MAX bytes or less, *)
(* kept in the inode.  The inode bitmap never changes after the format,    *)
(* the counters of the superblock and the journal are read by nothing:     *)
(* they are left out.  Calls are made by one thread, one after the other.  *)
(***************************************************************************)
EXTENDS Integers, FiniteSets, Sequences

CONSTANTS
  Files,         (* the regular files of the formatted tree                *)
  TOTAL,         (* sb.blocks_count: the bits alloc_block looks at         *)
  MAX_EXTENTS,   (* CODEFS_MAX_EXTENTS                                     *)
  MAX_LEN,       (* bound of the model: blocks in the longest write        *)
  MAX_WRITES,    (* bound of the model: calls of codefs_write_file         *)
  MAX_CRASHES,   (* bound of the model: power losses                       *)
  MAX_ERRORS     (* bound of the model: failed transfers                   *)

ASSUME BoundsAssumption ==
  /\ Files # {}
  /\ TOTAL \in Nat /\ TOTAL >= 2
  /\ MAX_EXTENTS \in Nat /\ MAX_LEN \in Nat /\ MAX_WRITES \in Nat
  /\ MAX_CRASHES \in Nat /\ MAX_ERRORS \in Nat

VARIABLES
  dSuper,        (* disk: a superblock with magic and CRC is there         *)
  dInode,        (* disk: the inode of each file                           *)
  dBitmap,       (* disk: the blocks marked in the block bitmap            *)
  dData,         (* disk: what each data block holds                       *)
  ready,         (* a mount has succeeded since the boot or the format     *)
  bitmap,        (* block_bitmap, in memory                                *)
  pc,            (* what the call in progress does next; "idle": none      *)
  op,            (* the locals of the call in progress                     *)
  store,         (* history: the last content each file was given          *)
  lost,          (* history: files a fault left with some other content    *)
  exposed,       (* history: blocks in use that a mount found unmarked     *)
  window,        (* history: some transfer failed, or power was lost       *)
                 (*   between the inode and the bitmap of one write        *)
  writes, crashes, errors

disk    == <<dSuper, dInode, dBitmap, dData>>
faults  == <<crashes, errors>>
history == <<store, lost, exposed>>
vars    == <<dSuper, dInode, dBitmap, dData, ready, bitmap, pc, op,
             store, lost, exposed, window, writes, crashes, errors>>

Blocks == 0 .. TOTAL - 1
Dirs   == {0, 1}             (* root_blk and etc_blk                       *)

(* What a block holds: part k of the v-th write, or a directory.           *)
Part(v, k) == [v |-> v, k |-> k]
DirData    == Part(0, 1)
Empty      == [size |-> 0, data |-> 0, ext |-> << >>]

ExtentBlocks(ino) == {ino.ext[i] : i \in 1 .. Len(ino.ext)}
InUse             == Dirs \cup UNION {ExtentBlocks(dInode[f]) : f \in Files}

(* The locals of no call.                                                  *)
NoCall == [file |-> CHOOSE f \in Files : TRUE, v |-> 0, need |-> 0,
           done |-> 0, ino |-> Empty, status |-> "ok"]

Writing    == pc \in {"ensure", "data", "inode", "bitmap"}
Formatting == pc \in {"mkfs_inodes", "mkfs_dir", "mkfs_bitmap", "mkfs_super"}

(* A transfer succeeds, or fails within the bound: then nothing changed.   *)
Succeeds == UNCHANGED <<errors, window>>
Fails    == /\ errors < MAX_ERRORS
            /\ errors' = errors + 1
            /\ window' = TRUE

Init ==
  /\ dSuper = FALSE
  /\ dInode = [f \in Files |-> Empty]
  /\ dBitmap = {}
  /\ dData = [b \in Blocks |-> Part(0, 0)]
  /\ ready = FALSE /\ bitmap = {}
  /\ pc = "idle"
  /\ op = NoCall
  /\ store = [f \in Files |-> Part(0, 0)]
  /\ lost = {} /\ exposed = {} /\ window = FALSE
  /\ writes = 0 /\ crashes = 0 /\ errors = 0

----------------------------------------------------------------------------
(* codefs_mkfs: inode table, the two directories, the bitmaps, and last    *)
(* the superblock.  A volume that stood there before is overwritten.       *)

Format ==
  /\ pc = "idle"
  /\ pc' = "mkfs_inodes"
  /\ ready' = FALSE
  /\ op' = NoCall
  /\ UNCHANGED <<disk, bitmap, history, window, writes, faults>>

(* goto fail: what has been written stays.                                 *)
FormatFails ==
  /\ Formatting
  /\ Fails
  /\ pc' = "idle"
  /\ op' = NoCall
  /\ lost' = IF pc = "mkfs_inodes" THEN lost ELSE Files
  /\ UNCHANGED <<disk, ready, bitmap, store, exposed, writes, crashes>>

FormatInodes ==
  /\ pc = "mkfs_inodes"
  /\ dInode' = [f \in Files |-> Empty]
  /\ pc' = "mkfs_dir"
  /\ lost' = Files
  /\ UNCHANGED <<dSuper, dBitmap, dData, ready, bitmap, op, store, exposed,
                 window, writes, faults>>

FormatDir ==
  /\ pc = "mkfs_dir"
  /\ dData' = [dData EXCEPT ![op.done] = DirData]
  /\ op' = IF op.done = 1 THEN NoCall ELSE [op EXCEPT !.done = 1]
  /\ pc' = IF op.done = 1 THEN "mkfs_bitmap" ELSE pc
  /\ UNCHANGED <<dSuper, dInode, dBitmap, ready, bitmap, history, window,
                 writes, faults>>

FormatBitmap ==
  /\ pc = "mkfs_bitmap"
  /\ dBitmap' = Dirs
  /\ pc' = "mkfs_super"
  /\ UNCHANGED <<dSuper, dInode, dData, ready, bitmap, op, history, window,
                 writes, faults>>

FormatSuper ==
  /\ pc = "mkfs_super"
  /\ dSuper' = TRUE
  /\ pc' = "idle"
  /\ store' = [f \in Files |-> Part(0, 0)]
  /\ lost' = {} /\ exposed' = {}
  /\ UNCHANGED <<dInode, dBitmap, dData, ready, bitmap, op, window, writes,
                 faults>>

----------------------------------------------------------------------------
(* codefs_mount.  A failed read of the bitmap goes unnoticed: the call     *)
(* goes on with whatever the new buffer held.                              *)

MountWith(marks) ==
  /\ pc = "idle" /\ ~ready /\ dSuper
  /\ ready' = TRUE
  /\ bitmap' = marks
  /\ exposed' = exposed \cup (InUse \ marks)
  /\ UNCHANGED <<disk, pc, op, store, lost, writes, crashes>>

Mount     == MountWith(dBitmap) /\ Succeeds
MountBlind == \E marks \in SUBSET Blocks : MountWith(marks) /\ Fails

(* The power goes: memory and the call in progress are gone.  The file     *)
(* being written keeps its old content unless a block of it was written    *)
(* in place or its inode was.                                              *)
Crash ==
  /\ crashes < MAX_CRASHES
  /\ crashes' = crashes + 1
  /\ ready' = FALSE /\ bitmap' = {} /\ pc' = "idle" /\ op' = NoCall
  /\ lost' = IF Writing /\ \/ pc = "bitmap"
                           \/ pc # "ensure" /\ op.done > 0 /\ dInode[op.file].size > 0
             THEN lost \cup {op.file} ELSE lost
  /\ window' = (window \/ (pc = "bitmap" /\ op.need > 0))
  /\ UNCHANGED <<disk, store, exposed, writes, errors>>

----------------------------------------------------------------------------
(* codefs_write_file.  The path is resolved through the directory blocks.  *)

WriteFile(f, n) ==
  /\ pc = "idle" /\ ready /\ writes < MAX_WRITES
  /\ \A b \in Dirs : dData[b] = DirData
  /\ writes' = writes + 1
  /\ op' = [file |-> f, v |-> writes + 1, need |-> n, done |-> 0,
            ino |-> IF n = 0
                    THEN [dInode[f] EXCEPT !.size = 0, !.data = writes + 1]
                    ELSE dInode[f],
            status |-> "ok"]
  /\ pc' = IF n = 0 THEN "inode" ELSE "ensure"
  /\ UNCHANGED <<disk, ready, bitmap, history, window, faults>>

(* Faulty variant, for mutation: the copy on the disk is searched.         *)
FirstFreeOnDisk(b) == /\ b \in Blocks \ dBitmap
                      /\ \A c \in Blocks \ dBitmap : b <= c

(* alloc_block: the lowest bit that is clear.                              *)
FirstFree(b) == /\ b \in Blocks \ bitmap
                /\ \A c \in Blocks \ bitmap : b <= c

(* Faulty variant, for mutation: the bit is not set.                       *)
Unmarked(b) == bitmap

Marked(b) == bitmap \cup {b}

(* ensure_blocks, one extent of one block at a time.                       *)
EnsureBlock ==
  /\ pc = "ensure" /\ Len(op.ino.ext) < op.need
  /\ Len(op.ino.ext) < MAX_EXTENTS
  /\ \E b \in 0 .. TOTAL :
       /\ FirstFree(b)
       /\ bitmap' = Marked(b)
       /\ op' = [op EXCEPT !.ino.ext = Append(@, b)]
  /\ UNCHANGED <<disk, ready, pc, history, window, writes, faults>>

(* return -1: the bits set so far stay set.                                *)
EnsureFails ==
  /\ pc = "ensure" /\ Len(op.ino.ext) < op.need
  /\ Len(op.ino.ext) >= MAX_EXTENTS \/ Blocks \subseteq bitmap
  /\ pc' = "idle" /\ op' = NoCall
  /\ UNCHANGED <<disk, ready, bitmap, history, window, writes, faults>>

EnsureDone ==
  /\ pc = "ensure" /\ Len(op.ino.ext) >= op.need
  /\ op' = [op EXCEPT !.ino.size = op.need]
  /\ pc' = "data"
  /\ UNCHANGED <<disk, ready, bitmap, history, window, writes, faults>>

(* One data block; the result of write_block is not looked at.             *)
WriteData ==
  /\ pc = "data"
  /\ \/ /\ Succeeds
        /\ dData' = [dData EXCEPT ![op.ino.ext[op.done + 1]] = Part(op.v, op.done)]
        /\ op' = [op EXCEPT !.done = @ + 1]
     \/ /\ Fails
        /\ op' = [op EXCEPT !.done = @ + 1, !.status = "error"]
        /\ UNCHANGED dData
  /\ pc' = IF op.done + 1 = op.need THEN "inode" ELSE pc
  /\ UNCHANGED <<dSuper, dInode, dBitmap, ready, bitmap, history, writes,
                 crashes>>

(* Faulty variant, for mutation: the inode goes to the neighbour's slot.   *)
InodeTableShifted ==
  [dInode EXCEPT ![CHOOSE f \in Files : f # op.file] = op.ino]

(* The inode table after write_inode.                                      *)
InodeTable == [dInode EXCEPT ![op.file] = op.ino]

(* write_inode; its result is not looked at either.                        *)
WriteInode ==
  /\ pc = "inode"
  /\ pc' = "bitmap"
  /\ \/ Succeeds /\ dInode' = InodeTable /\ UNCHANGED op
     \/ Fails /\ op' = [op EXCEPT !.status = "error"] /\ UNCHANGED dInode
  /\ UNCHANGED <<dSuper, dBitmap, dData, ready, bitmap, history, writes,
                 crashes>>

(* Faulty variant, for mutation: the bitmap is written by codefs_sync only.*)
BitmapKept(marks) == dBitmap

(* The bitmap on the disk after flush_bitmap.                              *)
BitmapFlushed(marks) == marks

(* flush_bitmap, which a short file does without, and the return.          *)
FinishWrite ==
  /\ pc = "bitmap"
  /\ \/ Succeeds /\ dBitmap' = IF op.need = 0 THEN dBitmap ELSE BitmapFlushed(bitmap)
     \/ op.need > 0 /\ Fails /\ UNCHANGED dBitmap
  /\ pc' = "idle" /\ op' = NoCall
  /\ store' = [store EXCEPT ![op.file] = Part(op.v, op.need)]
  /\ lost' = IF op.status = "error" THEN lost \cup {op.file} ELSE lost \ {op.file}
  /\ UNCHANGED <<dSuper, dInode, dData, ready, bitmap, exposed, writes,
                 crashes>>

(* codefs_sync: the bitmap again (the superblock holds only counters).     *)
Sync ==
  /\ pc = "idle" /\ ready
  /\ \/ Succeeds /\ dBitmap' = BitmapFlushed(bitmap)
     \/ Fails /\ UNCHANGED dBitmap
  /\ UNCHANGED <<dSuper, dInode, dData, ready, bitmap, pc, op, history, writes,
                 crashes>>

Next ==
  \/ Format \/ FormatFails \/ FormatInodes \/ FormatDir \/ FormatBitmap \/ FormatSuper
  \/ Mount \/ MountBlind \/ Crash \/ Sync
  \/ \E f \in Files, n \in 0 .. MAX_LEN : WriteFile(f, n)
  \/ EnsureBlock \/ EnsureFails \/ EnsureDone
  \/ WriteData \/ WriteInode \/ FinishWrite

Spec == Init /\ [][Next]_vars

----------------------------------------------------------------------------
Inode   == [size : 0 .. MAX_LEN, data : 0 .. MAX_WRITES, ext : Seq(Blocks)]
Cell    == [v : 0 .. MAX_WRITES, k : Nat]
Content == [v : 0 .. MAX_WRITES, k : 0 .. MAX_LEN]
Call    == [file : Files, v : 0 .. MAX_WRITES, need : 0 .. MAX_LEN,
            done : 0 .. MAX_LEN + 1, ino : Inode, status : {"ok", "error"}]

TypeOK ==
  /\ dSuper \in BOOLEAN /\ ready \in BOOLEAN /\ window \in BOOLEAN
  /\ dInode \in [Files -> Inode]
  /\ \A f \in Files : dInode[f].size <= Len(dInode[f].ext)
  /\ dBitmap \subseteq Blocks /\ bitmap \subseteq Blocks
  /\ exposed \subseteq Blocks /\ lost \subseteq Files
  /\ dData \in [Blocks -> Cell]
  /\ store \in [Files -> Content]
  /\ pc \in {"idle", "mkfs_inodes", "mkfs_dir", "mkfs_bitmap", "mkfs_super",
             "ensure", "data", "inode", "bitmap"}
  /\ op \in Call
  /\ writes \in 0 .. MAX_WRITES /\ crashes \in 0 .. MAX_CRASHES
  /\ errors \in 0 .. MAX_ERRORS

(* What codefs_read_file would return is the content f was last given.     *)
ReadsBack(f) ==
  LET ino == dInode[f] IN
  /\ ino.size = store[f].k
  /\ IF ino.size = 0
     THEN ino.data = store[f].v
     ELSE \A k \in 0 .. ino.size - 1 : dData[ino.ext[k + 1]] = Part(store[f].v, k)

(* No call is at work on f, and no fault cut one short or fell on it.      *)
Settled(f) == f \notin lost /\ ~(Writing /\ op.file = f)

(* Two positions in the extents of the files name one block only if a      *)
(* mount once found that block in use and unmarked: nothing else makes     *)
(* alloc_block hand out a block twice, whatever is refused, cut short,     *)
(* formatted again or fails.                                               *)
OneOwner ==
  \A f, g \in Files :
    \A i \in 1 .. Len(dInode[f].ext), j \in 1 .. Len(dInode[g].ext) :
      (dInode[f].ext[i] = dInode[g].ext[j] /\ <<f, i>> # <<g, j>>)
        => dInode[f].ext[i] \in exposed

(* The bitmap in memory marks every block that some inode on the disk      *)
(* names, exposed ones apart.                                              *)
UseIsMarked == ready => InUse \subseteq bitmap \cup exposed

(* A mount finds an unmarked block in use only after a failed transfer or  *)
(* after the power went between the inode and the bitmap of one write: at  *)
(* any other moment, in the middle of a format of a live volume included,  *)
(* the order of the writes keeps the disk sound.                           *)
OnlyTheWindowExposes == exposed # {} => window

(* A file no fault fell on reads back as it was last written, and the      *)
(* directories stand, as long as no block of theirs was exposed: refused   *)
(* writes, writes of the other files, crashes and new mounts do not show.  *)
IntactFilesReadBack ==
  (dSuper /\ ~Formatting) =>
    /\ \A f \in Files :
         (Settled(f) /\ ExtentBlocks(dInode[f]) \cap exposed = {}) => ReadsBack(f)
    /\ \A b \in Dirs \ exposed : dData[b] = DirData

(* What "Simple journal for crash recovery" (codefs.c:9) promises: after a *)
(* loss of power, a file that was not being written reads back as it was   *)
(* last written.  Meant for MAX_ERRORS = 0.                                *)
OtherFilesSurvive ==
  (dSuper /\ ~Formatting) => \A f \in Files : Settled(f) => ReadsBack(f)
=============================================================================
