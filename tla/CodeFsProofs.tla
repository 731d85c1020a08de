---------------------------- MODULE CodeFsProofs ----------------------------
(***************************************************************************)
(* Proofs about CodeFS, for any files, partition and bounds: the invariant *)
(* that ties the inodes on the disk, the call in progress and the two      *)
(* copies of the bitmap together, and from it the properties that the run  *)
(* codefs checks.                                                          *)
(***************************************************************************)
EXTENDS CodeFs, SequenceTheorems, TLAPS

Positions(t, f) == 1 .. Len(t[f].ext)

(* In the inode table t, no block has two places, and none is a            *)
(* directory's, but for the blocks of E.                                   *)
Sound(t, E) ==
  /\ \A f, g \in Files : \A i \in Positions(t, f), j \in Positions(t, g) :
       (t[f].ext[i] = t[g].ext[j] /\ ~(f = g /\ i = j)) => t[f].ext[i] \in E
  /\ \A f \in Files : \A i \in Positions(t, f) :
       t[f].ext[i] \in Dirs => t[f].ext[i] \in E

(* Every block in use, if t is the inode table, is in M.                   *)
MarkedIn(t, M) ==
  /\ \A f \in Files : \A i \in Positions(t, f) : t[f].ext[i] \in M
  /\ Dirs \subseteq M

OwnerInv == Sound(dInode, exposed)

MarkInv == ready => MarkedIn(dInode, bitmap \cup exposed)

(* The same of the inode table as the call in progress means to leave it.  *)
CallInv ==
  Writing =>
    /\ ready
    /\ Sound(InodeTable, exposed)
    /\ MarkedIn(InodeTable, bitmap \cup exposed)
    /\ op.need = 0 => op.ino.ext = dInode[op.file].ext

(* A mount would find every block in use marked.                           *)
DiskInv ==
  (dSuper /\ ~window /\ ~(pc = "bitmap" /\ op.need > 0))
    => MarkedIn(dInode, dBitmap \cup exposed)

Rewritten == pc \in {"mkfs_dir", "mkfs_bitmap", "mkfs_super"}

FormatInv ==
  /\ Formatting => ~ready
  /\ Rewritten => lost = Files /\ \A f \in Files : dInode[f] = Empty
  /\ pc = "mkfs_super" => dBitmap = Dirs
  /\ (pc = "mkfs_dir" /\ op.done = 1) => dData[0] = DirData
  /\ pc = "mkfs_inodes" => op.done = 0
  /\ pc = "mkfs_dir" => op.done \in {0, 1}
  /\ pc \in {"mkfs_bitmap", "mkfs_super"} => \A b \in Dirs : dData[b] = DirData

DirInv == dSuper => \A b \in Dirs \ exposed : dData[b] = DirData

Fresh(ino) == \A i \in 1 .. Len(ino.ext) : ino.ext[i] \notin exposed

(* The call in progress has begun to change what f reads as.               *)
Disturbed(f) ==
  /\ Writing /\ op.file = f
  /\ \/ pc = "bitmap"
     \/ pc # "ensure" /\ op.done > 0 /\ dInode[f].size > 0

ReadInv ==
  (dSuper /\ ~Rewritten) =>
    \A f \in Files : (f \notin lost /\ ~Disturbed(f) /\ Fresh(dInode[f])) => ReadsBack(f)

(* How far the call in progress has come.                                  *)
ProgressInv ==
  /\ pc = "ensure" => op.need > 0 /\ op.done = 0
  /\ pc \in {"data", "inode", "bitmap"} =>
       op.ino.size = op.need /\ op.need <= Len(op.ino.ext)
  /\ pc = "data" => op.done < op.need
  /\ (pc \in {"inode", "bitmap"}) => op.done = op.need
  /\ (pc \in {"inode", "bitmap"} /\ op.need = 0) => op.ino.data = op.v
  /\ (pc = "bitmap" /\ op.status = "ok") => dInode[op.file] = op.ino

DataInv ==
  (pc \in {"data", "inode", "bitmap"} /\ op.status = "ok" /\ Fresh(op.ino)) =>
    \A k \in 0 .. op.done - 1 : dData[op.ino.ext[k + 1]] = Part(op.v, k)

IInv == /\ TypeOK /\ OwnerInv /\ MarkInv /\ CallInv /\ DiskInv /\ FormatInv
        /\ OnlyTheWindowExposes
        /\ DirInv /\ ReadInv /\ ProgressInv /\ DataInv

----------------------------------------------------------------------------
LEMMA NoCallType == NoCall \in Call
  BY BoundsAssumption, EmptySeq DEF NoCall, Inode, Empty, Call

LEMMA EmptyType == Empty \in Inode /\ Empty.size <= Len(Empty.ext)
  BY BoundsAssumption, EmptySeq DEF Empty, Inode

(* What changing one field of an inode or of a call keeps.                 *)
LEMMA InodeUpdate ==
  ASSUME NEW i \in Inode
  PROVE  /\ \A n \in 0 .. MAX_LEN : [i EXCEPT !.size = n] \in Inode
         /\ \A v \in 0 .. MAX_WRITES : [i EXCEPT !.size = 0, !.data = v] \in Inode
         /\ \A b \in Blocks : [i EXCEPT !.ext = Append(@, b)] \in Inode
<1>1. \A n \in 0 .. MAX_LEN : [i EXCEPT !.size = n] \in Inode
  BY DEF Inode
<1>2. \A v \in 0 .. MAX_WRITES : [i EXCEPT !.size = 0, !.data = v] \in Inode
  <2>1. 0 \in 0 .. MAX_LEN
    BY BoundsAssumption
  <2> QED BY <2>1 DEF Inode
<1>3. \A b \in Blocks : [i EXCEPT !.ext = Append(@, b)] \in Inode
  BY AppendProperties DEF Inode
<1> QED BY <1>1, <1>2, <1>3

LEMMA CallUpdate ==
  ASSUME NEW c \in Call
  PROVE  /\ \A d \in 0 .. MAX_LEN + 1 :
              /\ [c EXCEPT !.done = d] \in Call
              /\ [c EXCEPT !.done = d, !.status = "error"] \in Call
         /\ [c EXCEPT !.status = "error"] \in Call
         /\ \A n \in 0 .. MAX_LEN : [c EXCEPT !.ino.size = n] \in Call
         /\ \A b \in Blocks : [c EXCEPT !.ino.ext = Append(@, b)] \in Call
<1>1. \A d \in 0 .. MAX_LEN + 1 : /\ [c EXCEPT !.done = d] \in Call
                                 /\ [c EXCEPT !.done = d, !.status = "error"] \in Call
  BY DEF Call
<1>2. [c EXCEPT !.status = "error"] \in Call
  BY DEF Call
<1>3. \A i \in Inode : [c EXCEPT !.ino = i] \in Call
  BY DEF Call
<1>4. c.ino \in Inode
  BY DEF Call
<1>5. ASSUME NEW n \in 0 .. MAX_LEN PROVE [c EXCEPT !.ino.size = n] \in Call
  BY <1>3, <1>4, InodeUpdate DEF Call
<1>6. ASSUME NEW b \in Blocks PROVE [c EXCEPT !.ino.ext = Append(@, b)] \in Call
  BY <1>3, <1>4, InodeUpdate DEF Call
<1> QED BY <1>1, <1>2, <1>5, <1>6

LEMMA InUseType == TypeOK => InUse \subseteq Blocks
<1> SUFFICES ASSUME TypeOK PROVE InUse \subseteq Blocks
  OBVIOUS
<1>1. \A f \in Files : ExtentBlocks(dInode[f]) \subseteq Blocks
  BY ElementOfSeq DEF ExtentBlocks, Inode, TypeOK
<1>2. Dirs \subseteq Blocks
  BY BoundsAssumption DEF Dirs, Blocks
<1> QED BY <1>1, <1>2 DEF InUse

(* The counters and the flag of the faults.                                *)
FaultType == errors \in 0 .. MAX_ERRORS /\ window \in BOOLEAN

LEMMA TransferType ==
  ASSUME FaultType, Succeeds \/ Fails PROVE FaultType'
<1>1. CASE Succeeds
  BY <1>1 DEF FaultType, Succeeds
<1>2. CASE Fails
  BY <1>2, BoundsAssumption DEF FaultType, Fails
<1> QED BY <1>1, <1>2

(* The type invariant is kept by every step.                               *)
LEMMA TypeStep == TypeOK /\ FormatInv /\ ProgressInv /\ [Next]_vars => TypeOK'
<1> SUFFICES ASSUME TypeOK, FormatInv, ProgressInv, [Next]_vars PROVE TypeOK'
  OBVIOUS
<1>a. FaultType /\ op \in Call /\ InUse \subseteq Blocks
  BY InUseType DEF TypeOK, FaultType
<1> USE DEF TypeOK
<1>1. CASE Format
  BY <1>1, NoCallType DEF Format, disk, history, faults
<1>2. CASE FormatFails
  <2>1. FaultType'
    BY <1>2, <1>a, TransferType DEF FormatFails
  <2> QED BY <1>2, <2>1, NoCallType DEF FormatFails, FaultType, disk
<1>3. CASE FormatInodes
  BY <1>3, EmptyType DEF FormatInodes, faults
<1>4. CASE FormatDir
  <2>1. op.done \in {0, 1} /\ op.done \in Blocks
    BY <1>4, BoundsAssumption DEF FormatDir, FormatInv, Blocks
  <2>2. DirData \in Cell
    BY BoundsAssumption DEF DirData, Part, Cell
  <2>3. dData' \in [Blocks -> Cell]
    BY <1>4, <2>1, <2>2 DEF FormatDir
  <2>4. op' \in Call
    <3>1. 1 \in 0 .. MAX_LEN + 1
      BY BoundsAssumption
    <3>2. [op EXCEPT !.done = 1] \in Call
      BY <1>a, <3>1, CallUpdate
    <3> QED BY <1>4, <3>2, NoCallType DEF FormatDir
  <2>5. pc' \in {"mkfs_bitmap", "mkfs_dir"}
    BY <1>4 DEF FormatDir
  <2> QED BY <1>4, <2>3, <2>4, <2>5 DEF FormatDir, history, faults
<1>5. CASE FormatBitmap
  <2>1. Dirs \subseteq Blocks
    BY BoundsAssumption DEF Dirs, Blocks
  <2> QED BY <1>5, <2>1 DEF FormatBitmap, history, faults
<1>6. CASE FormatSuper
  <2>1. Part(0, 0) \in Content
    BY BoundsAssumption DEF Part, Content
  <2> QED BY <1>6, <2>1 DEF FormatSuper, faults
<1>7. ASSUME NEW marks \in SUBSET Blocks, MountWith(marks), Succeeds \/ Fails
      PROVE  TypeOK'
  <2>1. FaultType'
    BY <1>7, <1>a, TransferType
  <2>2. exposed' \subseteq Blocks /\ bitmap' \subseteq Blocks
    BY <1>7, <1>a DEF MountWith
  <2> QED BY <1>7, <2>1, <2>2 DEF MountWith, FaultType, disk
<1>8. CASE Mount \/ MountBlind
  BY <1>8, <1>7 DEF Mount, MountBlind
<1>9. CASE Crash
  <2>1. lost' \subseteq Files /\ crashes' \in 0 .. MAX_CRASHES
    BY <1>9, BoundsAssumption DEF Crash, Call
  <2>2. window' \in BOOLEAN
    BY <1>9 DEF Crash
  <2> QED BY <1>9, <2>1, <2>2, NoCallType DEF Crash, disk
<1>10. CASE Sync
  <2>1. FaultType'
    BY <1>10, <1>a, TransferType DEF Sync
  <2>2. dBitmap' \subseteq Blocks
    BY <1>10 DEF Sync, BitmapFlushed
  <2> QED BY <1>10, <2>1, <2>2 DEF Sync, FaultType, history
<1>11. ASSUME NEW f \in Files, NEW n \in 0 .. MAX_LEN, WriteFile(f, n)
       PROVE TypeOK'
  <2>1. writes + 1 \in 0 .. MAX_WRITES
    BY <1>11, BoundsAssumption DEF WriteFile
  <2>2. op' \in Call
    <3>1. dInode[f] \in Inode /\ [dInode[f] EXCEPT !.size = 0, !.data = writes + 1] \in Inode
      BY <2>1, InodeUpdate
    <3> QED BY <1>11, <2>1, <3>1, BoundsAssumption DEF WriteFile, Call
  <2> QED BY <1>11, <2>1, <2>2 DEF WriteFile, disk, history, faults
<1>12. CASE EnsureBlock
  <2> PICK b \in 0 .. TOTAL : FirstFree(b) /\ bitmap' = Marked(b)
                              /\ op' = [op EXCEPT !.ino.ext = Append(@, b)]
    BY <1>12 DEF EnsureBlock
  <2>1. b \in Blocks /\ bitmap' \subseteq Blocks
    BY DEF FirstFree, Marked
  <2>2. op' \in Call
    BY <1>a, <2>1, CallUpdate
  <2> QED BY <1>12, <2>1, <2>2 DEF EnsureBlock, disk, history, faults
<1>13. CASE EnsureFails
  BY <1>13, NoCallType DEF EnsureFails, disk, history, faults
<1>14. CASE EnsureDone
  <2>1. op' \in Call
    <3>1. op.need \in 0 .. MAX_LEN
      BY DEF Call
    <3> QED BY <1>14, <1>a, <3>1, CallUpdate DEF EnsureDone
  <2> QED BY <1>14, <2>1 DEF EnsureDone, disk, history, faults
<1>15. CASE WriteData
  <2>1. /\ op.done \in Nat /\ op.need \in 0 .. MAX_LEN
        /\ op.done < op.need /\ op.need <= Len(op.ino.ext)
    BY <1>15, BoundsAssumption DEF WriteData, ProgressInv, Call
  <2>2. op.ino.ext[op.done + 1] \in Blocks
    <3>1. op.ino.ext \in Seq(Blocks)
      BY DEF Call, Inode
    <3> QED BY <2>1, <3>1, ElementOfSeq
  <2>3. Part(op.v, op.done) \in Cell
    BY <2>1 DEF Part, Cell, Call
  <2>4. dData' \in [Blocks -> Cell]
    BY <1>15, <2>2, <2>3 DEF WriteData
  <2>5. op' \in Call
    <3>1. op.done + 1 \in 0 .. MAX_LEN + 1
      BY <2>1, BoundsAssumption
    <3> QED BY <1>15, <1>a, <3>1, CallUpdate, ZenonT(60) DEF WriteData
  <2>6. FaultType'
    BY <1>15, <1>a, TransferType DEF WriteData
  <2>7. pc' \in {"inode", "data"}
    BY <1>15 DEF WriteData
  <2> QED BY <1>15, <2>4, <2>5, <2>6, <2>7 DEF WriteData, FaultType, history
<1>16. CASE WriteInode
  <2>1. op.ino \in Inode /\ op.file \in Files
    BY DEF Call
  <2>2. op.ino.size <= Len(op.ino.ext)
    BY <1>16 DEF WriteInode, ProgressInv
  <2>3. dInode' \in [Files -> Inode]
    BY <1>16, <2>1 DEF WriteInode, InodeTable
  <2>4. \A f \in Files : dInode'[f].size <= Len(dInode'[f].ext)
    BY <1>16, <2>1, <2>2 DEF WriteInode, InodeTable
  <2>5. op' \in Call
    BY <1>16, <1>a, CallUpdate DEF WriteInode
  <2>6. FaultType'
    BY <1>16, <1>a, TransferType DEF WriteInode
  <2> QED BY <1>16, <2>3, <2>4, <2>5, <2>6 DEF WriteInode, FaultType, history
<1>17. CASE FinishWrite
  <2>1. Part(op.v, op.need) \in Content /\ op.file \in Files
    BY DEF Part, Content, Call
  <2>2. store' \in [Files -> Content]
    BY <1>17, <2>1 DEF FinishWrite
  <2>3. dBitmap' \subseteq Blocks /\ lost' \subseteq Files
    BY <1>17, <2>1 DEF FinishWrite, BitmapFlushed
  <2>4. FaultType'
    BY <1>17, <1>a, TransferType DEF FinishWrite
  <2> QED BY <1>17, <2>2, <2>3, <2>4, NoCallType DEF FinishWrite, FaultType
<1>18. CASE UNCHANGED vars
  BY <1>18 DEF vars
<1> QED
  BY <1>1, <1>2, <1>3, <1>4, <1>5, <1>6, <1>8, <1>9, <1>10, <1>11, <1>12,
     <1>13, <1>14, <1>15, <1>16, <1>17, <1>18 DEF Next

----------------------------------------------------------------------------
(* The block table: which file owns what.                                  *)

LEMMA SoundMono ==
  ASSUME NEW t, NEW E, NEW F, Sound(t, E), E \subseteq F
  PROVE  Sound(t, F)
  BY DEF Sound

LEMMA EmptySound ==
  ASSUME NEW t, \A f \in Files : t[f] = Empty
  PROVE  /\ \A E : Sound(t, E)
         /\ \A M : Dirs \subseteq M => MarkedIn(t, M)
<1>1. \A f \in Files : Positions(t, f) = {}
  BY EmptySeq DEF Positions, Empty
<1> QED BY <1>1 DEF Sound, MarkedIn

LEMMA SameExtents ==
  ASSUME NEW t, NEW u, \A f \in Files : u[f].ext = t[f].ext
  PROVE  /\ \A E : Sound(t, E) => Sound(u, E)
         /\ \A M : MarkedIn(t, M) => MarkedIn(u, M)
<1>1. \A f \in Files : Positions(u, f) = Positions(t, f)
  BY DEF Positions
<1>2. ASSUME NEW E, Sound(t, E) PROVE Sound(u, E)
  BY <1>1, <1>2 DEF Sound
<1>3. ASSUME NEW M, MarkedIn(t, M) PROVE MarkedIn(u, M)
  BY <1>1, <1>3 DEF MarkedIn
<1> QED BY <1>2, <1>3

(* A block that nothing marks can be given to a file.                      *)
LEMMA AppendSound ==
  ASSUME NEW t \in [Files -> Inode], NEW u \in [Files -> Inode],
         NEW E, NEW M, NEW h \in Files, NEW b \in Blocks,
         Sound(t, E), MarkedIn(t, M \cup E), b \notin M,
         u[h].ext = Append(t[h].ext, b),
         \A f \in Files : f # h => u[f] = t[f]
  PROVE  Sound(u, E) /\ MarkedIn(u, M \cup {b} \cup E)
<1>1. t[h].ext \in Seq(Blocks)
  BY DEF Inode
<1>2. /\ Len(u[h].ext) = Len(t[h].ext) + 1
      /\ \A i \in 1 .. Len(t[h].ext) : u[h].ext[i] = t[h].ext[i]
      /\ u[h].ext[Len(t[h].ext) + 1] = b
      /\ Len(t[h].ext) \in Nat
  BY <1>1, AppendProperties, LenProperties
<1>3. /\ \A i \in Positions(u, h) : i \in Positions(t, h) \/ i = Len(t[h].ext) + 1
      /\ \A f \in Files : f # h => Positions(u, f) = Positions(t, f)
  BY <1>2 DEF Positions
<1> DEFINE New(f, i) == f = h /\ i = Len(t[h].ext) + 1
<1>4. ASSUME NEW f \in Files, NEW i \in Positions(u, f)
      PROVE  IF New(f, i) THEN u[f].ext[i] = b
             ELSE i \in Positions(t, f) /\ u[f].ext[i] = t[f].ext[i]
  BY <1>2, <1>3 DEF Positions
<1>5. ASSUME NEW f \in Files, NEW i \in Positions(t, f), t[f].ext[i] = b
      PROVE  b \in E
  BY <1>5 DEF MarkedIn
<1>6. ASSUME NEW f \in Files, NEW g \in Files,
             NEW i \in Positions(u, f), NEW j \in Positions(u, g),
             u[f].ext[i] = u[g].ext[j], ~(f = g /\ i = j)
      PROVE  u[f].ext[i] \in E
  <2>1. CASE New(f, i) /\ New(g, j)
    BY <1>6, <2>1
  <2>2. CASE New(f, i) /\ ~New(g, j)
    BY <1>4, <1>5, <1>6, <2>2
  <2>3. CASE ~New(f, i) /\ New(g, j)
    BY <1>4, <1>5, <1>6, <2>3
  <2>4. CASE ~New(f, i) /\ ~New(g, j)
    BY <1>4, <1>6, <2>4 DEF Sound
  <2> QED BY <2>1, <2>2, <2>3, <2>4
<1>7. ASSUME NEW f \in Files, NEW i \in Positions(u, f), u[f].ext[i] \in Dirs
      PROVE  u[f].ext[i] \in E
  <2>1. CASE New(f, i)
    BY <1>4, <1>7, <2>1 DEF MarkedIn
  <2>2. CASE ~New(f, i)
    BY <1>4, <1>7, <2>2 DEF Sound
  <2> QED BY <2>1, <2>2
<1>8. \A f \in Files : \A i \in Positions(u, f) : u[f].ext[i] \in M \cup {b} \cup E
  BY <1>4 DEF MarkedIn
<1> QED BY <1>6, <1>7, <1>8 DEF Sound, MarkedIn

(* What InUse says, said place by place.                                   *)
LEMMA InUseMarked ==
  ASSUME NEW M PROVE InUse \subseteq M <=> MarkedIn(dInode, M)
  BY DEF InUse, MarkedIn, Positions, ExtentBlocks

(* Ownership is kept by every step.                                        *)
LEMMA OwnStep ==
  TypeOK /\ TypeOK' /\ OwnerInv /\ MarkInv /\ CallInv /\ FormatInv /\ ProgressInv /\ [Next]_vars
    => OwnerInv' /\ MarkInv' /\ CallInv'
<1> SUFFICES ASSUME TypeOK, TypeOK', OwnerInv, MarkInv, CallInv, FormatInv, ProgressInv, [Next]_vars
             PROVE  OwnerInv' /\ MarkInv' /\ CallInv'
  OBVIOUS
<1> USE DEF OwnerInv, MarkInv
<1>a. op \in Call /\ op.file \in Files /\ op.ino \in Inode /\ dInode \in [Files -> Inode]
  BY DEF TypeOK, Call
<1>b. op' \in Call /\ op'.file \in Files /\ op'.ino \in Inode /\ dInode' \in [Files -> Inode]
  BY DEF TypeOK, Call
<1>c. InodeTable \in [Files -> Inode] /\ InodeTable' \in [Files -> Inode]
  BY <1>a, <1>b DEF InodeTable
<1>1. ASSUME UNCHANGED <<dInode, bitmap, exposed, ready>>, ~Writing' PROVE OwnerInv' /\ MarkInv' /\ CallInv'
  BY <1>1 DEF CallInv
<1>2. ASSUME UNCHANGED <<dInode, exposed>>, ~ready', ~Writing' PROVE OwnerInv' /\ MarkInv' /\ CallInv'
  BY <1>2 DEF CallInv
<1>3. CASE Format
  BY <1>2, <1>3 DEF Format, disk, history, Writing
<1>4. CASE FormatFails
  BY <1>1, <1>4 DEF FormatFails, disk, Writing
<1>5. CASE FormatInodes
  <2>1. \A f \in Files : dInode'[f] = Empty
    BY <1>5 DEF FormatInodes
  <2>2. Sound(dInode', exposed')
    BY <2>1, EmptySound
  <2> QED BY <1>5, <2>2 DEF FormatInodes, FormatInv, Formatting, CallInv, Writing
<1>6. CASE FormatDir
  BY <1>1, <1>6 DEF FormatDir, history, Writing
<1>7. CASE FormatBitmap
  BY <1>1, <1>7 DEF FormatBitmap, history, Writing
<1>8. CASE FormatSuper
  <2>1. \A f \in Files : dInode'[f] = Empty
    BY <1>8 DEF FormatSuper, FormatInv, Rewritten
  <2>2. Sound(dInode', exposed')
    BY <2>1, EmptySound
  <2> QED BY <1>8, <2>2 DEF FormatSuper, FormatInv, Formatting, CallInv, Writing
<1>9. ASSUME NEW marks, MountWith(marks) PROVE OwnerInv' /\ MarkInv' /\ CallInv'
  <2>1. dInode' = dInode /\ exposed \subseteq exposed' /\ InUse \subseteq marks \cup exposed'
    BY <1>9 DEF MountWith, disk
  <2>2. Sound(dInode', exposed')
    BY <2>1, SoundMono
  <2>3. MarkedIn(dInode', bitmap' \cup exposed')
    BY <1>9, <2>1, InUseMarked DEF MountWith
  <2> QED BY <1>9, <2>2, <2>3 DEF MountWith, CallInv, Writing
<1>10. CASE Crash
  BY <1>2, <1>10 DEF Crash, disk, Writing
<1>11. CASE Sync
  BY <1>1, <1>11 DEF Sync, history, Writing
<1>12. ASSUME NEW f \in Files, NEW n \in 0 .. MAX_LEN, WriteFile(f, n)
       PROVE  OwnerInv' /\ MarkInv' /\ CallInv'
  <2>1. /\ op'.file = f /\ op'.ino.ext = dInode[f].ext
        /\ dInode' = dInode /\ exposed' = exposed /\ bitmap' = bitmap /\ ready /\ ready'
    BY <1>12, <1>a DEF WriteFile, disk, history, Inode
  <2>2. \A h \in Files : InodeTable'[h].ext = dInode[h].ext
    BY <2>1, <1>a, <1>b DEF InodeTable
  <2>3. Sound(InodeTable', exposed') /\ MarkedIn(InodeTable', bitmap' \cup exposed')
    BY <2>1, <2>2, SameExtents
  <2> QED BY <2>1, <2>3 DEF CallInv
<1>13. CASE EnsureBlock
  <2> PICK b \in 0 .. TOTAL : FirstFree(b) /\ bitmap' = Marked(b)
                              /\ op' = [op EXCEPT !.ino.ext = Append(@, b)]
    BY <1>13 DEF EnsureBlock
  <2>1. b \in Blocks /\ b \notin bitmap /\ bitmap' = bitmap \cup {b}
    BY DEF FirstFree, Marked
  <2>2. /\ ready /\ ready' /\ dInode' = dInode /\ exposed' = exposed
        /\ Sound(InodeTable, exposed) /\ MarkedIn(InodeTable, bitmap \cup exposed)
    BY <1>13 DEF EnsureBlock, CallInv, Writing, disk, history
  <2>3. op'.file = op.file /\ op'.ino.ext = Append(op.ino.ext, b) /\ op'.need = op.need
    BY <1>a DEF Call, Inode
  <2>4. /\ InodeTable'[op.file].ext = Append(InodeTable[op.file].ext, b)
        /\ \A f \in Files : f # op.file => InodeTable'[f] = InodeTable[f]
    BY <1>a, <1>b, <2>2, <2>3 DEF InodeTable
  <2>5. Sound(InodeTable', exposed') /\ MarkedIn(InodeTable', bitmap' \cup exposed')
    <3> DEFINE t == InodeTable
               u == InodeTable'
    <3>1. /\ t \in [Files -> Inode] /\ u \in [Files -> Inode]
          /\ u[op.file].ext = Append(t[op.file].ext, b)
          /\ \A f \in Files : f # op.file => u[f] = t[f]
          /\ Sound(t, exposed) /\ MarkedIn(t, bitmap \cup exposed)
      BY <1>c, <2>2, <2>4
    <3> HIDE DEF t, u
    <3>2. Sound(u, exposed) /\ MarkedIn(u, bitmap \cup {b} \cup exposed)
      BY <1>a, <2>1, <3>1, AppendSound, ZenonT(60)
    <3> QED BY <2>1, <2>2, <3>2 DEF u
  <2>6. MarkedIn(dInode', bitmap' \cup exposed')
    BY <2>1, <2>2 DEF MarkedIn
  <2>7. op.need # 0
    BY <1>13 DEF EnsureBlock, ProgressInv
  <2> QED BY <2>2, <2>3, <2>5, <2>6, <2>7 DEF CallInv
<1>14. CASE EnsureFails
  BY <1>1, <1>14 DEF EnsureFails, disk, history, Writing
<1>15. ASSUME UNCHANGED <<dInode, bitmap, exposed, ready>>, Writing,
              op'.file = op.file, op'.ino.ext = op.ino.ext, op'.need = op.need
       PROVE  OwnerInv' /\ MarkInv' /\ CallInv'
  <2>1. \A f \in Files : InodeTable'[f].ext = InodeTable[f].ext
    BY <1>15, <1>a, <1>b DEF InodeTable
  <2>2. Sound(InodeTable', exposed') /\ MarkedIn(InodeTable', bitmap' \cup exposed')
    BY <1>15, <2>1, SameExtents DEF CallInv
  <2> QED BY <1>15, <2>2 DEF CallInv
<1>16. CASE EnsureDone
  <2>1. op'.file = op.file /\ op'.ino.ext = op.ino.ext /\ op'.need = op.need
    BY <1>16, <1>a DEF EnsureDone, Call, Inode
  <2> QED BY <1>15, <1>16, <2>1 DEF EnsureDone, disk, history, Writing
<1>17. CASE WriteData
  <2>1. op'.file = op.file /\ op'.ino = op.ino /\ op'.need = op.need
    BY <1>17, <1>a DEF WriteData, Call
  <2> QED BY <1>15, <1>17, <2>1 DEF WriteData, history, Writing
<1>18. CASE WriteInode
  <2>1. op'.file = op.file /\ op'.ino = op.ino /\ op'.need = op.need
    BY <1>18, <1>a DEF WriteInode, Call
  <2>2. CASE dInode' = dInode
    BY <1>15, <1>18, <2>1, <2>2 DEF WriteInode, history, Writing
  <2>3. CASE dInode' = InodeTable
    <3>1. \A f \in Files : InodeTable'[f] = dInode'[f]
      BY <2>1, <2>3, <1>a, <1>b DEF InodeTable
    <3>2. /\ ready' /\ exposed' = exposed /\ bitmap' = bitmap
          /\ Sound(dInode', exposed') /\ MarkedIn(dInode', bitmap' \cup exposed')
      BY <1>18, <2>3 DEF WriteInode, CallInv, Writing, history
    <3>3. Sound(InodeTable', exposed') /\ MarkedIn(InodeTable', bitmap' \cup exposed')
      BY <3>1, <3>2, SameExtents
    <3>4. op'.ino.ext = dInode'[op'.file].ext
      BY <2>1, <2>3, <1>a DEF InodeTable
    <3> QED BY <3>2, <3>3, <3>4 DEF CallInv
  <2> QED BY <1>18, <2>2, <2>3 DEF WriteInode
<1>19. CASE FinishWrite
  BY <1>1, <1>19 DEF FinishWrite, Writing
<1>20. CASE UNCHANGED vars
  BY <1>20 DEF vars, CallInv, Writing, InodeTable
<1> QED
  BY <1>3, <1>4, <1>5, <1>6, <1>7, <1>8, <1>9, <1>10, <1>11, <1>12, <1>13, <1>14,
     <1>16, <1>17, <1>18, <1>19, <1>20 DEF Next, Mount, MountBlind

(* The two copies of the bitmap: what a mount would find.                  *)
LEMMA DiskStep ==
  TypeOK /\ MarkInv /\ CallInv /\ DiskInv /\ FormatInv /\ OnlyTheWindowExposes /\ [Next]_vars
    => DiskInv' /\ OnlyTheWindowExposes'
<1> SUFFICES ASSUME TypeOK, MarkInv, CallInv, DiskInv, FormatInv, OnlyTheWindowExposes, [Next]_vars
             PROVE  DiskInv' /\ OnlyTheWindowExposes'
  OBVIOUS
<1> USE DEF DiskInv, OnlyTheWindowExposes
<1>1. ASSUME UNCHANGED <<dSuper, dInode, dBitmap, exposed>>, window => window',
             window' \/ ~(pc = "bitmap" /\ op.need > 0)
      PROVE  DiskInv' /\ OnlyTheWindowExposes'
  BY <1>1
<1>2. ASSUME window' PROVE DiskInv' /\ OnlyTheWindowExposes'
  BY <1>2
<1>3. CASE Format
  BY <1>1, <1>3 DEF Format, disk, history
<1>4. CASE FormatFails
  BY <1>2, <1>4 DEF FormatFails, Fails
<1>5. CASE FormatInodes
  <2>1. \A f \in Files : dInode'[f] = Empty
    BY <1>5 DEF FormatInodes
  <2>2. ASSUME dSuper, ~window PROVE MarkedIn(dInode', dBitmap' \cup exposed')
    BY <1>5, <2>1, <2>2, EmptySound DEF FormatInodes, MarkedIn
  <2> QED BY <1>5, <2>2 DEF FormatInodes
<1>6. CASE FormatDir
  BY <1>1, <1>6 DEF FormatDir, history
<1>7. CASE FormatBitmap \/ FormatSuper
  <2>1. \A f \in Files : dInode'[f] = Empty
    BY <1>7 DEF FormatBitmap, FormatSuper, FormatInv, Rewritten
  <2>2. dBitmap' = Dirs
    BY <1>7 DEF FormatBitmap, FormatSuper, FormatInv
  <2>3. MarkedIn(dInode', dBitmap' \cup exposed')
    BY <2>1, <2>2, EmptySound
  <2> QED BY <1>7, <2>3 DEF FormatBitmap, FormatSuper, history
<1>8. CASE Mount
  <2>1. ASSUME ~window PROVE exposed' = {}
    <3>1. exposed = {} /\ MarkedIn(dInode, dBitmap)
      BY <1>8, <2>1 DEF Mount, MountWith
    <3> QED BY <1>8, <3>1, InUseMarked DEF Mount, MountWith
  <2>2. MarkedIn(dInode, dBitmap \cup exposed) => MarkedIn(dInode, dBitmap \cup exposed')
    BY <1>8 DEF Mount, MountWith, MarkedIn
  <2> QED BY <1>8, <2>1, <2>2 DEF Mount, MountWith, Succeeds, disk
<1>9. CASE MountBlind
  BY <1>2, <1>9 DEF MountBlind, Fails
<1>10. CASE Crash
  BY <1>1, <1>10 DEF Crash, disk
<1>11. CASE Sync
  BY <1>2, <1>11 DEF Sync, Succeeds, Fails, BitmapFlushed, MarkInv, history
<1>12. ASSUME NEW f \in Files, NEW n \in 0 .. MAX_LEN, WriteFile(f, n)
       PROVE  DiskInv' /\ OnlyTheWindowExposes'
  BY <1>1, <1>12 DEF WriteFile, disk, history
<1>13. CASE EnsureBlock \/ EnsureFails \/ EnsureDone
  BY <1>1, <1>13 DEF EnsureBlock, EnsureFails, EnsureDone, disk, history
<1>14. CASE WriteData
  BY <1>1, <1>2, <1>14 DEF WriteData, Succeeds, Fails, history
<1>15. CASE WriteInode
  <2>1. CASE Fails
    BY <1>2, <2>1 DEF Fails
  <2>2. CASE Succeeds /\ dInode' = InodeTable
    <3>1. ASSUME op.need = 0 PROVE \A f \in Files : dInode'[f].ext = dInode[f].ext
      BY <1>15, <2>2, <3>1 DEF WriteInode, CallInv, Writing, InodeTable, TypeOK
    <3>2. op.need \in Nat /\ op'.need = op.need
      BY <1>15, BoundsAssumption DEF WriteInode, TypeOK, Call
    <3>3. ASSUME op.need = 0, MarkedIn(dInode, dBitmap \cup exposed)
          PROVE  MarkedIn(dInode', dBitmap \cup exposed)
      BY <3>1, <3>3, SameExtents
    <3> QED BY <1>15, <2>2, <3>2, <3>3 DEF WriteInode, Succeeds, history
  <2> QED BY <1>15, <2>1, <2>2 DEF WriteInode
<1>16. CASE FinishWrite
  <2>1. CASE Fails
    BY <1>2, <2>1 DEF Fails
  <2>2. CASE Succeeds /\ dBitmap' = IF op.need = 0 THEN dBitmap ELSE BitmapFlushed(bitmap)
    <3>1. MarkedIn(dInode, bitmap \cup exposed)
      BY <1>16 DEF FinishWrite, CallInv, Writing, MarkInv
    <3> QED BY <1>16, <2>2, <3>1 DEF FinishWrite, Succeeds, BitmapFlushed
  <2> QED BY <1>16, <2>1, <2>2 DEF FinishWrite
<1>17. CASE UNCHANGED vars
  BY <1>17 DEF vars
<1> QED
  BY <1>3, <1>4, <1>5, <1>6, <1>7, <1>8, <1>9, <1>10, <1>11, <1>12, <1>13, <1>14,
     <1>15, <1>16, <1>17 DEF Next

(* How far a format and a write have come.                                 *)
LEMMA FormatStep ==
  TypeOK /\ FormatInv /\ CallInv /\ [Next]_vars => FormatInv'
<1> SUFFICES ASSUME TypeOK, FormatInv, CallInv, [Next]_vars PROVE FormatInv'
  OBVIOUS
<1>a. 0 \in Blocks /\ 1 \in Blocks /\ Dirs = {0, 1} /\ DOMAIN dData = Blocks
  BY BoundsAssumption DEF Blocks, Dirs, TypeOK
<1> USE DEF FormatInv, Formatting, Rewritten
<1>1. ASSUME pc' \in {"idle", "ensure", "data", "inode", "bitmap"} PROVE FormatInv'
  BY <1>1
<1>2. CASE Format
  BY <1>2 DEF Format, NoCall
<1>3. CASE FormatFails \/ FormatSuper \/ Crash \/ EnsureFails \/ EnsureDone \/ WriteInode \/ FinishWrite
  BY <1>1, <1>3 DEF FormatFails, FormatSuper, Crash, EnsureFails, EnsureDone, WriteInode, FinishWrite
<1>4. CASE FormatInodes
  BY <1>4 DEF FormatInodes
<1>5. CASE FormatDir
  <2>1. CASE op.done = 0
    BY <1>5, <1>a, <2>1 DEF FormatDir, TypeOK, Call, history
  <2>2. CASE op.done = 1
    BY <1>5, <1>a, <2>2 DEF FormatDir, history
  <2> QED BY <1>5, <2>1, <2>2 DEF FormatDir
<1>6. CASE FormatBitmap
  BY <1>6 DEF FormatBitmap, history
<1>7. ASSUME NEW marks, MountWith(marks) PROVE FormatInv'
  BY <1>1, <1>7 DEF MountWith
<1>8. CASE Sync \/ EnsureBlock
  BY <1>1, <1>8 DEF Sync, EnsureBlock
<1>9. ASSUME NEW f \in Files, NEW n \in 0 .. MAX_LEN, WriteFile(f, n) PROVE FormatInv'
  BY <1>1, <1>9 DEF WriteFile
<1>10. CASE WriteData
  BY <1>1, <1>10 DEF WriteData
<1>11. CASE UNCHANGED vars
  BY <1>11 DEF vars
<1> QED
  BY <1>2, <1>3, <1>4, <1>5, <1>6, <1>7, <1>8, <1>9, <1>10, <1>11 DEF Next, Mount, MountBlind

LEMMA ProgressStep ==
  TypeOK /\ ProgressInv /\ [Next]_vars => ProgressInv'
<1> SUFFICES ASSUME TypeOK, ProgressInv, [Next]_vars PROVE ProgressInv'
  OBVIOUS
<1>a. /\ op \in Call /\ op.ino \in Inode /\ op.file \in Files
      /\ op.need \in Nat /\ op.done \in Nat /\ dInode \in [Files -> Inode]
      /\ \A f \in Files : dInode[f].size <= Len(dInode[f].ext)
      /\ \A f \in Files : Len(dInode[f].ext) \in Nat
      /\ Len(op.ino.ext) \in Nat
  <2>1. op \in Call /\ dInode \in [Files -> Inode]
        /\ \A f \in Files : dInode[f].size <= Len(dInode[f].ext)
    BY DEF TypeOK
  <2>2. op.ino \in Inode /\ op.file \in Files /\ op.need \in Nat /\ op.done \in Nat
    BY <2>1, BoundsAssumption DEF Call
  <2>3. \A i \in Inode : Len(i.ext) \in Nat
    BY LenProperties DEF Inode
  <2> QED BY <2>1, <2>2, <2>3
<1> USE DEF ProgressInv
<1>1. ASSUME pc' \in {"idle", "mkfs_inodes", "mkfs_dir", "mkfs_bitmap", "mkfs_super"}
      PROVE  ProgressInv'
  BY <1>1
<1>2. CASE Format \/ FormatFails \/ FormatInodes \/ FormatDir \/ FormatBitmap \/ FormatSuper
  BY <1>1, <1>2 DEF Format, FormatFails, FormatInodes, FormatDir, FormatBitmap, FormatSuper
<1>3. CASE Crash \/ EnsureFails \/ FinishWrite \/ Sync
  BY <1>1, <1>3 DEF Crash, EnsureFails, FinishWrite, Sync
<1>4. ASSUME NEW marks, MountWith(marks) PROVE ProgressInv'
  BY <1>1, <1>4 DEF MountWith
<1>5. ASSUME NEW f \in Files, NEW n \in 0 .. MAX_LEN, WriteFile(f, n) PROVE ProgressInv'
  <2>1. CASE n = 0
    <3>1. op'.ino.size = 0 /\ op'.ino.data = op'.v /\ op'.need = 0 /\ op'.done = 0
      BY <1>5, <1>a, <2>1 DEF WriteFile, Inode
    <3>2. Len(op'.ino.ext) \in Nat
      BY <1>5, <1>a, <2>1 DEF WriteFile, Inode
    <3> QED BY <1>5, <2>1, <3>1, <3>2 DEF WriteFile
  <2>2. CASE n # 0
    BY <1>5, <2>2, BoundsAssumption DEF WriteFile
  <2> QED BY <2>1, <2>2
<1>6. CASE EnsureBlock
  BY <1>6, <1>a DEF EnsureBlock, Call
<1>7. CASE EnsureDone
  <2>1. op'.ino.size = op.need /\ op'.ino.ext = op.ino.ext /\ op'.need = op.need /\ op'.done = op.done
    BY <1>7, <1>a DEF EnsureDone, Call, Inode
  <2> QED BY <1>7, <1>a, <2>1 DEF EnsureDone
<1>8. CASE WriteData
  <2>1. op'.ino = op.ino /\ op'.need = op.need /\ op'.done = op.done + 1 /\ op'.file = op.file
    BY <1>8, <1>a DEF WriteData, Call
  <2> QED BY <1>8, <1>a, <2>1 DEF WriteData
<1>9. CASE WriteInode
  <2>1. op'.ino = op.ino /\ op'.need = op.need /\ op'.done = op.done /\ op'.file = op.file /\ op'.v = op.v
    BY <1>9, <1>a DEF WriteInode, Call
  <2>2. op'.status = "ok" => dInode' = InodeTable
    BY <1>9, <1>a DEF WriteInode, Call
  <2> QED BY <1>9, <1>a, <2>1, <2>2 DEF WriteInode, InodeTable
<1>10. CASE UNCHANGED vars
  BY <1>10 DEF vars
<1> QED
  BY <1>2, <1>3, <1>4, <1>5, <1>6, <1>7, <1>8, <1>9, <1>10 DEF Next, Mount, MountBlind

(* Two places of the file being written name two blocks, none of them a    *)
(* directory's or another file's, if its blocks were never exposed.        *)
LEMMA CallOwns ==
  ASSUME TypeOK, CallInv, Writing, NEW i \in 1 .. Len(op.ino.ext), op.ino.ext[i] \notin exposed
  PROVE  /\ \A j \in 1 .. Len(op.ino.ext) : j # i => op.ino.ext[j] # op.ino.ext[i]
         /\ op.ino.ext[i] \notin Dirs
         /\ \A f \in Files : f # op.file =>
              \A j \in 1 .. Len(dInode[f].ext) : dInode[f].ext[j] # op.ino.ext[i]
<1>1. /\ op.file \in Files /\ InodeTable[op.file] = op.ino
      /\ \A f \in Files : f # op.file => InodeTable[f] = dInode[f]
  BY DEF TypeOK, Call, InodeTable
<1>2. Sound(InodeTable, exposed)
  BY DEF CallInv
<1> QED BY <1>1, <1>2, SMTT(40) DEF Sound, Positions

LEMMA DataStep ==
  TypeOK /\ ProgressInv /\ CallInv /\ DataInv /\ [Next]_vars => DataInv'
<1> SUFFICES ASSUME TypeOK, ProgressInv, CallInv, DataInv, [Next]_vars PROVE DataInv'
  OBVIOUS
<1>a. op \in Call /\ op.ino \in Inode /\ op.need \in Nat /\ op.done \in Nat
  BY BoundsAssumption DEF TypeOK, Call
<1> USE DEF DataInv
<1>1. ASSUME pc' \notin {"data", "inode", "bitmap"} PROVE DataInv'
  BY <1>1
<1>2. CASE Format \/ FormatFails \/ FormatInodes \/ FormatDir \/ FormatBitmap \/ FormatSuper
  BY <1>1, <1>2 DEF Format, FormatFails, FormatInodes, FormatDir, FormatBitmap, FormatSuper
<1>3. CASE Crash \/ EnsureFails \/ FinishWrite \/ Sync \/ EnsureBlock
  BY <1>1, <1>3 DEF Crash, EnsureFails, FinishWrite, Sync, EnsureBlock
<1>4. ASSUME NEW marks, MountWith(marks) PROVE DataInv'
  BY <1>1, <1>4 DEF MountWith
<1>5. ASSUME op'.done = 0 PROVE DataInv'
  BY <1>5
<1>6. ASSUME NEW f \in Files, NEW n \in 0 .. MAX_LEN, WriteFile(f, n) PROVE DataInv'
  BY <1>5, <1>6 DEF WriteFile
<1>7. CASE EnsureDone
  <2>1. op'.done = op.done /\ op.done = 0
    BY <1>7, <1>a DEF EnsureDone, ProgressInv, Call
  <2> QED BY <1>5, <2>1
<1>8. CASE WriteData
  <2>1. /\ op'.ino = op.ino /\ op'.done = op.done + 1 /\ op'.v = op.v
        /\ op'.status = "ok" => op.status = "ok"
        /\ exposed' = exposed
    BY <1>8, <1>a DEF WriteData, Call, history
  <2>2. SUFFICES ASSUME op'.status = "ok", Fresh(op.ino)
                 PROVE  \A k \in 0 .. op.done : dData'[op.ino.ext[k + 1]] = Part(op.v, k)
    BY <1>a, <2>1 DEF Fresh
  <2> DEFINE b == op.ino.ext[op.done + 1]
  <2>3. /\ op.done < op.need /\ op.need <= Len(op.ino.ext)
        /\ op.done + 1 \in 1 .. Len(op.ino.ext) /\ Len(op.ino.ext) \in Nat
    BY <1>8, <1>a, LenProperties DEF WriteData, ProgressInv, Inode
  <2>4. b \in Blocks /\ b \notin exposed
    BY <1>a, <2>2, <2>3, ElementOfSeq DEF Fresh, Inode
  <2>5. dData' = [dData EXCEPT ![b] = Part(op.v, op.done)]
    BY <1>8, <1>a, <2>2 DEF WriteData, Call
  <2>6. \A k \in 0 .. op.done - 1 : dData[op.ino.ext[k + 1]] = Part(op.v, k)
    BY <1>8, <2>1, <2>2 DEF WriteData
  <2>7. ASSUME NEW k \in 0 .. op.done - 1 PROVE op.ino.ext[k + 1] # b
    <3>1. k + 1 \in 1 .. Len(op.ino.ext) /\ k + 1 # op.done + 1
      BY <1>a, <2>3
    <3> QED BY <1>8, <2>3, <2>4, <3>1, CallOwns DEF WriteData, Writing
  <2>8. dData'[b] = Part(op.v, op.done)
    BY <2>4, <2>5 DEF TypeOK
  <2>9. ASSUME NEW k \in 0 .. op.done - 1 PROVE dData'[op.ino.ext[k + 1]] = Part(op.v, k)
    <3>1. dData'[op.ino.ext[k + 1]] = dData[op.ino.ext[k + 1]]
      <4>1. op.ino.ext[k + 1] \in Blocks
        BY <1>a, <2>3, ElementOfSeq DEF Inode
      <4> QED BY <2>5, <2>7, <4>1 DEF TypeOK
    <3> QED BY <2>6, <3>1
  <2> QED BY <1>a, <2>8, <2>9
<1>9. CASE WriteInode
  <2>1. /\ op'.ino = op.ino /\ op'.done = op.done /\ op'.v = op.v
        /\ op'.status = "ok" => op.status = "ok"
        /\ exposed' = exposed /\ dData' = dData
    BY <1>9, <1>a DEF WriteInode, Call, history
  <2> QED BY <1>9, <2>1 DEF WriteInode, Fresh
<1>10. CASE UNCHANGED vars
  BY <1>10 DEF vars, Fresh
<1> QED
  BY <1>2, <1>3, <1>4, <1>6, <1>7, <1>8, <1>9, <1>10 DEF Next, Mount, MountBlind

(* The directories stand.                                                  *)
LEMMA DirStep ==
  TypeOK /\ ProgressInv /\ CallInv /\ FormatInv /\ DirInv /\ [Next]_vars => DirInv'
<1> SUFFICES ASSUME TypeOK, ProgressInv, CallInv, FormatInv, DirInv, [Next]_vars PROVE DirInv'
  OBVIOUS
<1> USE DEF DirInv
<1>1. ASSUME UNCHANGED <<dSuper, dData>>, exposed \subseteq exposed' PROVE DirInv'
  BY <1>1
<1>2. CASE Format \/ FormatFails \/ FormatInodes \/ FormatBitmap
  BY <1>1, <1>2 DEF Format, FormatFails, FormatInodes, FormatBitmap, disk, history
<1>3. CASE FormatDir
  <2>1. dSuper' = dSuper /\ exposed' = exposed /\ dData' = [dData EXCEPT ![op.done] = DirData]
    BY <1>3 DEF FormatDir, history
  <2>2. \A b \in Blocks : dData'[b] = IF b = op.done THEN DirData ELSE dData[b]
    BY <2>1 DEF TypeOK
  <2>3. Dirs \subseteq Blocks
    BY BoundsAssumption DEF Dirs, Blocks
  <2> QED BY <2>1, <2>2, <2>3
<1>4. CASE FormatSuper
  BY <1>4 DEF FormatSuper, FormatInv
<1>5. ASSUME NEW marks, MountWith(marks) PROVE DirInv'
  BY <1>1, <1>5 DEF MountWith, disk
<1>6. CASE Crash \/ Sync \/ EnsureBlock \/ EnsureFails \/ EnsureDone \/ WriteInode \/ FinishWrite
  BY <1>1, <1>6 DEF Crash, Sync, EnsureBlock, EnsureFails, EnsureDone, WriteInode, FinishWrite,
     disk, history
<1>7. ASSUME NEW f \in Files, NEW n \in 0 .. MAX_LEN, WriteFile(f, n) PROVE DirInv'
  BY <1>1, <1>7 DEF WriteFile, disk, history
<1>8. CASE WriteData
  <2>1. dSuper' = dSuper /\ exposed' = exposed /\ Writing
    BY <1>8 DEF WriteData, history, Writing
  <2>2. op.done + 1 \in 1 .. Len(op.ino.ext)
    <3>1. op.done \in Nat /\ op.need \in Nat /\ Len(op.ino.ext) \in Nat
      BY BoundsAssumption, LenProperties DEF TypeOK, Call, Inode
    <3> QED BY <1>8, <3>1 DEF WriteData, ProgressInv
  <2>3. ASSUME NEW b \in Dirs \ exposed PROVE dData'[b] = dData[b]
    <3>1. op.ino.ext[op.done + 1] # b
      BY <2>1, <2>2, CallOwns
    <3>2. b \in Blocks
      BY BoundsAssumption DEF Dirs, Blocks
    <3> QED BY <1>8, <3>1, <3>2 DEF WriteData, TypeOK
  <2> QED BY <2>1, <2>3
<1>9. CASE UNCHANGED vars
  BY <1>9 DEF vars
<1> QED
  BY <1>2, <1>3, <1>4, <1>5, <1>6, <1>7, <1>8, <1>9 DEF Next, Mount, MountBlind

(* Files no fault fell on keep what they were given.                       *)
LEMMA ReadStep ==
  TypeOK /\ TypeOK' /\ ProgressInv /\ CallInv /\ FormatInv /\ DataInv /\ ReadInv /\ [Next]_vars => ReadInv'
<1> SUFFICES ASSUME TypeOK, TypeOK', ProgressInv, CallInv, FormatInv, DataInv, ReadInv, [Next]_vars
             PROVE  ReadInv'
  OBVIOUS
<1>a. /\ op \in Call /\ op.file \in Files /\ op.ino \in Inode
      /\ op.need \in Nat /\ op.done \in Nat
  BY BoundsAssumption DEF TypeOK, Call
<1>b. \A f \in Files : /\ dInode[f].ext \in Seq(Blocks) /\ dInode[f].size \in Nat
                       /\ Len(dInode[f].ext) \in Nat /\ dInode[f].size <= Len(dInode[f].ext)
  <2>1. \A i \in Inode : i.ext \in Seq(Blocks) /\ i.size \in Nat /\ Len(i.ext) \in Nat
    BY BoundsAssumption, LenProperties DEF Inode
  <2> QED BY <2>1 DEF TypeOK
<1>1. ASSUME UNCHANGED <<dSuper, dInode, dData, store>>, exposed \subseteq exposed',
             Rewritten => Rewritten' \/ lost' = Files,
             \A f \in Files : (f \notin lost' /\ ~Disturbed(f)') => f \notin lost /\ ~Disturbed(f)
      PROVE  ReadInv'
  BY <1>1 DEF ReadInv, ReadsBack, Fresh
<1>2. ASSUME Rewritten' PROVE ReadInv'
  BY <1>2 DEF ReadInv
<1>3. ASSUME UNCHANGED <<dSuper, dInode, dData, store>>, exposed \subseteq exposed',
             lost' = lost, ~Rewritten,
             \A f \in Files : ~Disturbed(f)
      PROVE  ReadInv'
  BY <1>1, <1>3
<1>4. CASE Format
  BY <1>3, <1>4 DEF Format, disk, history, Rewritten, Disturbed, Writing
<1>5. CASE FormatFails
  BY <1>1, <1>5 DEF FormatFails, disk, Rewritten, Formatting, Disturbed, Writing
<1>6. CASE FormatInodes
  BY <1>2, <1>6 DEF FormatInodes, Rewritten
<1>7. CASE FormatDir
  BY <1>2, <1>7 DEF FormatDir, Rewritten
<1>8. CASE FormatBitmap
  BY <1>2, <1>8 DEF FormatBitmap, Rewritten
<1>9. CASE FormatSuper
  <2>1. \A f \in Files : dInode'[f] = Empty /\ store'[f] = Part(0, 0)
    BY <1>9 DEF FormatSuper, FormatInv, Rewritten
  <2> QED BY <2>1 DEF ReadInv, ReadsBack, Empty, Part
<1>10. ASSUME NEW marks, MountWith(marks) PROVE ReadInv'
  BY <1>3, <1>10 DEF MountWith, disk, Rewritten, Disturbed, Writing
<1>11. CASE Crash
  <2>1. ASSUME NEW f \in Files, f \notin lost' PROVE f \notin lost /\ ~Disturbed(f)
    BY <1>11, <2>1 DEF Crash, Disturbed, Writing
  <2>2. Rewritten => lost' = Files
    BY <1>11 DEF Crash, FormatInv, Rewritten, Writing
  <2> QED BY <1>1, <1>11, <2>1, <2>2 DEF Crash, disk
<1>12. CASE Sync
  BY <1>3, <1>12 DEF Sync, history, Rewritten, Disturbed, Writing
<1>13. ASSUME NEW f \in Files, NEW n \in 0 .. MAX_LEN, WriteFile(f, n) PROVE ReadInv'
  BY <1>3, <1>13 DEF WriteFile, disk, history, Rewritten, Disturbed, Writing
<1>14. CASE EnsureBlock \/ EnsureFails \/ EnsureDone
  <2>1. \A f \in Files : ~Disturbed(f)
    BY <1>14 DEF EnsureBlock, EnsureFails, EnsureDone, Disturbed
  <2> QED BY <1>3, <1>14, <2>1 DEF EnsureBlock, EnsureFails, EnsureDone, disk, history, Rewritten
<1>15. CASE WriteData
  <2>1. /\ UNCHANGED <<dSuper, dInode, store, exposed, lost>> /\ ~Rewritten /\ Writing /\ Writing'
        /\ op'.file = op.file /\ op'.done = op.done + 1 /\ pc' # "ensure" /\ pc = "data"
    BY <1>15, <1>a DEF WriteData, history, Rewritten, Writing, Call
  <2>2. op.done + 1 \in 1 .. Len(op.ino.ext)
    <3>1. Len(op.ino.ext) \in Nat
      BY <1>a, LenProperties DEF Inode
    <3> QED BY <1>15, <1>a, <3>1 DEF WriteData, ProgressInv
  <2>3. SUFFICES ASSUME dSuper, NEW f \in Files, f \notin lost, ~Disturbed(f)', Fresh(dInode[f])
                 PROVE  ReadsBack(f)'
    BY <2>1 DEF ReadInv, Fresh
  <2>4. f = op.file => dInode[f].size = 0
    BY <1>a, <1>b, <2>1, <2>3 DEF Disturbed
  <2>5. ~Disturbed(f)
    BY <2>1, <2>4 DEF Disturbed
  <2>6. ReadsBack(f)
    BY <2>1, <2>3, <2>5 DEF ReadInv
  <2>7. CASE f = op.file
    BY <2>1, <2>4, <2>6, <2>7 DEF ReadsBack
  <2>8. CASE f # op.file
    <3>1. ASSUME NEW k \in 0 .. dInode[f].size - 1
          PROVE  dData'[dInode[f].ext[k + 1]] = dData[dInode[f].ext[k + 1]]
      <4>1. k + 1 \in 1 .. Len(dInode[f].ext)
        BY <1>b
      <4>2. dInode[f].ext[k + 1] \in Blocks /\ dInode[f].ext[k + 1] \notin exposed
        BY <1>b, <2>3, <4>1, ElementOfSeq DEF Fresh
      <4>3. op.ino.ext[op.done + 1] # dInode[f].ext[k + 1]
        BY <2>1, <2>2, <2>8, <4>1, <4>2, CallOwns
      <4> QED BY <1>15, <4>2, <4>3 DEF WriteData, TypeOK
    <3> QED BY <2>1, <2>6, <3>1 DEF ReadsBack
  <2> QED BY <2>7, <2>8
<1>16. CASE WriteInode
  <2>1. /\ UNCHANGED <<dSuper, dData, store, exposed, lost>> /\ ~Rewritten
        /\ op'.file = op.file /\ pc' = "bitmap" /\ Writing'
    BY <1>16, <1>a DEF WriteInode, history, Rewritten, Writing, Call
  <2>2. SUFFICES ASSUME dSuper, NEW f \in Files, f \notin lost, ~Disturbed(f)', Fresh(dInode'[f])
                 PROVE  ReadsBack(f)'
    BY <2>1 DEF ReadInv, Fresh
  <2>3. f # op.file
    BY <2>1, <2>2 DEF Disturbed
  <2>4. dInode'[f] = dInode[f]
    BY <1>16, <2>3 DEF WriteInode, InodeTable, TypeOK
  <2>5. ~Disturbed(f)
    BY <2>3 DEF Disturbed
  <2> QED BY <2>1, <2>2, <2>4, <2>5 DEF ReadInv, ReadsBack
<1>17. CASE FinishWrite
  <2>1. /\ UNCHANGED <<dSuper, dInode, dData, exposed>> /\ ~Rewritten /\ pc = "bitmap"
        /\ store' = [store EXCEPT ![op.file] = Part(op.v, op.need)]
        /\ lost' = IF op.status = "error" THEN lost \cup {op.file} ELSE lost \ {op.file}
    BY <1>17 DEF FinishWrite, Rewritten
  <2>2. SUFFICES ASSUME dSuper, NEW f \in Files, f \notin lost', Fresh(dInode[f])
                 PROVE  ReadsBack(f)'
    BY <2>1 DEF ReadInv, Fresh
  <2>3. CASE f # op.file
    <3>1. f \notin lost /\ ~Disturbed(f) /\ store'[f] = store[f]
      BY <2>1, <2>2, <2>3 DEF Disturbed, TypeOK
    <3> QED BY <2>1, <2>2, <3>1 DEF ReadInv, ReadsBack
  <2>4. CASE f = op.file
    <3>1. op.status = "ok"
      BY <1>a, <2>1, <2>2, <2>4 DEF Call
    <3>2. /\ dInode[f] = op.ino /\ op.ino.size = op.need /\ op.done = op.need
          /\ op.need = 0 => op.ino.data = op.v
      BY <2>1, <2>4, <3>1 DEF ProgressInv
    <3>3. store'[f].k = op.need /\ store'[f].v = op.v
      BY <2>1, <2>4, <1>a DEF TypeOK, Part
    <3>4. \A k \in 0 .. op.need - 1 : dData[op.ino.ext[k + 1]] = Part(op.v, k)
      BY <2>1, <2>2, <3>1, <3>2 DEF DataInv, Fresh
    <3> QED BY <2>1, <3>2, <3>3, <3>4 DEF ReadsBack
  <2> QED BY <2>3, <2>4
<1>18. CASE UNCHANGED vars
  BY <1>1, <1>18 DEF vars, Rewritten, Disturbed, Writing
<1> QED
  BY <1>4, <1>5, <1>6, <1>7, <1>8, <1>9, <1>10, <1>11, <1>12, <1>13, <1>14, <1>15,
     <1>16, <1>17, <1>18 DEF Next, Mount, MountBlind

----------------------------------------------------------------------------
LEMMA InitIInv == Init => IInv
<1> SUFFICES ASSUME Init PROVE IInv
  OBVIOUS
<1>1. TypeOK
  <2>1. Part(0, 0) \in Cell /\ Part(0, 0) \in Content
    BY BoundsAssumption DEF Part, Cell, Content
  <2>2. dSuper \in BOOLEAN /\ ready \in BOOLEAN /\ window \in BOOLEAN
    BY DEF Init
  <2>3. /\ dInode \in [Files -> Inode] /\ dData \in [Blocks -> Cell]
        /\ store \in [Files -> Content] /\ op \in Call
    BY <2>1, EmptyType, NoCallType DEF Init
  <2>4. \A f \in Files : dInode[f].size <= Len(dInode[f].ext)
    BY EmptyType DEF Init
  <2>5. writes \in 0 .. MAX_WRITES /\ crashes \in 0 .. MAX_CRASHES /\ errors \in 0 .. MAX_ERRORS
    BY BoundsAssumption DEF Init
  <2> QED BY <2>2, <2>3, <2>4, <2>5 DEF Init, TypeOK
<1>2. \A f \in Files : dInode[f] = Empty
  BY DEF Init
<1>3. OwnerInv
  BY <1>2, EmptySound DEF OwnerInv
<1>4. ReadInv /\ DirInv /\ DiskInv /\ MarkInv /\ OnlyTheWindowExposes
  BY DEF Init, ReadInv, DirInv, DiskInv, MarkInv, OnlyTheWindowExposes
<1>5. CallInv /\ FormatInv /\ ProgressInv /\ DataInv
  BY DEF Init, CallInv, Writing, FormatInv, Formatting, Rewritten, ProgressInv, DataInv
<1> QED BY <1>1, <1>3, <1>4, <1>5 DEF IInv

LEMMA StepIInv == IInv /\ [Next]_vars => IInv'
<1> SUFFICES ASSUME IInv, [Next]_vars PROVE IInv'
  OBVIOUS
<1>1. TypeOK'
  BY TypeStep DEF IInv
<1> QED BY <1>1, OwnStep, DiskStep, FormatStep, ProgressStep, DataStep, DirStep, ReadStep DEF IInv

LEMMA SpecIInv == Spec => []IInv
  BY InitIInv, StepIInv, PTL DEF Spec

(* Every variable of CodeFS keeps its type, for any files, partition and   *)
(* bounds, whatever fails and whenever the power goes.                     *)
THEOREM TypeCorrect == Spec => []TypeOK
<1>1. IInv => TypeOK
  BY DEF IInv
<1> QED BY <1>1, SpecIInv, PTL

(* alloc_block never gives out a block that is in use unless a mount had   *)
(* found it unmarked.                                                      *)
THEOREM BlocksHaveOneOwner == Spec => []OneOwner
<1>1. IInv => OneOwner
  <2> SUFFICES ASSUME IInv PROVE OneOwner
    OBVIOUS
  <2>1. Sound(dInode, exposed)
    BY DEF IInv, OwnerInv
  <2> QED BY <2>1 DEF OneOwner, Sound, Positions
<1> QED BY <1>1, SpecIInv, PTL

(* The bitmap in memory marks all that is in use.                          *)
THEOREM InMemoryMarks == Spec => []UseIsMarked
<1>1. IInv => UseIsMarked
  <2> SUFFICES ASSUME IInv PROVE UseIsMarked
    OBVIOUS
  <2>1. ready => MarkedIn(dInode, bitmap \cup exposed)
    BY DEF IInv, MarkInv
  <2> QED BY <2>1, InUseMarked DEF UseIsMarked
<1> QED BY <1>1, SpecIInv, PTL

(* The order in which codefs_mkfs and codefs_write_file write keeps the    *)
(* disk sound at every moment but one: between the inode and the bitmap.   *)
THEOREM WindowIsTheOnlyOne == Spec => []OnlyTheWindowExposes
<1>1. IInv => OnlyTheWindowExposes
  BY DEF IInv
<1> QED BY <1>1, SpecIInv, PTL

(* What codefs_read_file returns is what was last written, for every file  *)
(* no fault fell on and no exposed block belongs to.                       *)
THEOREM ReadsReturnWrites == Spec => []IntactFilesReadBack
<1>1. IInv => IntactFilesReadBack
  <2> SUFFICES ASSUME IInv, dSuper, ~Formatting PROVE
        /\ \A f \in Files :
             (Settled(f) /\ ExtentBlocks(dInode[f]) \cap exposed = {}) => ReadsBack(f)
        /\ \A b \in Dirs \ exposed : dData[b] = DirData
    BY DEF IntactFilesReadBack
  <2>1. ~Rewritten /\ ReadInv /\ DirInv
    BY DEF Rewritten, Formatting, IInv
  <2>2. ASSUME NEW f \in Files, Settled(f), ExtentBlocks(dInode[f]) \cap exposed = {}
        PROVE  ReadsBack(f)
    <3>1. f \notin lost /\ ~Disturbed(f)
      BY <2>2 DEF Settled, Disturbed
    <3>2. Fresh(dInode[f])
      BY <2>2 DEF Fresh, ExtentBlocks
    <3> QED BY <2>1, <3>1, <3>2 DEF ReadInv
  <2> QED BY <2>1, <2>2 DEF DirInv
<1> QED BY <1>1, SpecIInv, PTL
=============================================================================
