-------------------------------- MODULE Nvme --------------------------------
(***************************************************************************)
(* The NVMe driver, src/drivers/nvme.c: a transfer is cut into chunks, and *)
(* each goes through a bounce page, one entry of the I/O submission queue, *)
(* and a poll of the completion queue that gives up after NVME_TIMEOUT     *)
(* rounds.  The controller is external and is taken to do what the driver  *)
(* asks of it: it fetches what the doorbell shows, executes in any order,  *)
(* may refuse a command, and never writes over a completion the driver has *)
(* not yet taken.  One thread calls the driver at a time.  A chunk is one  *)
(* logical block here; identification and the admin queue, which work the  *)
(* same way, are left out.                                                 *)
(***************************************************************************)
EXTENDS Integers, FiniteSets

CONSTANTS
  NVME_QDEPTH,    (* entries of either queue                               *)
  Frames,         (* pages pmm_alloc_pages may hand out                    *)
  LBAS,           (* the disk has blocks 0 .. LBAS-1                       *)
  MAX_COUNT,      (* bound of the model: chunks in one transfer            *)
  MAX_CMDS,       (* bound of the model: commands submitted                *)
  MAX_TIMEOUTS    (* bound of the model: polls that give up                *)

ASSUME BoundsAssumption ==
  /\ NVME_QDEPTH \in Nat /\ NVME_QDEPTH >= 2
  /\ Frames # {} /\ LBAS \in Nat /\ LBAS > 0
  /\ MAX_COUNT \in Nat /\ MAX_CMDS \in Nat /\ MAX_TIMEOUTS \in Nat

VARIABLES
  pc, req,              (* the transfer in progress, and where it is       *)
  bounce, cid, ret,     (* its page, its command, what the wait returned   *)
  sq, tail,             (* nvme_io_sq, nvme_io_tail and the doorbell       *)
  cq, head, phase,      (* nvme_io_cq, nvme_io_head, nvme_io_phase         *)
  next_cid,             (* nvme_io_cid                                     *)
  mem, disk,            (* what each page and each block of the disk hold  *)
  dhead, pending,       (* controller: next entry to fetch; those fetched  *)
  dtail, dphase,        (* controller: next completion, and its phase bit  *)
  served,               (* history: commands executed without an error     *)
  untaken,              (* history: completions posted and not yet taken   *)
  timeouts,             (* history: polls that gave up                     *)
  overrun               (* history: a submission filled the queue up       *)

driver == <<pc, req, bounce, cid, ret, sq, tail, head, phase, next_cid>>
device == <<dhead, pending, dtail, dphase, served>>
vars   == <<pc, req, bounce, cid, ret, sq, tail, cq, head, phase, next_cid,
            mem, disk, dhead, pending, dtail, dphase, served, untaken, timeouts,
            overrun>>

Slots == 0 .. NVME_QDEPTH - 1
Ops   == {"read", "write"}

NoRequest == [op |-> "read", lba |-> 0, count |-> 0, val |-> 0]

Init ==
  /\ pc = "idle" /\ req = NoRequest
  /\ bounce \in Frames /\ cid = 0 /\ ret = 0
  /\ sq = [s \in Slots |-> [cid |-> 0, op |-> "read", lba |-> 0, frame |-> bounce]]
  /\ cq = [s \in Slots |-> [cid |-> 0, ok |-> 1, phase |-> 0]]
  /\ tail = 0 /\ head = 0 /\ phase = 1 /\ next_cid = 1
  /\ mem = [f \in Frames |-> 0] /\ disk = [b \in 0 .. LBAS - 1 |-> 0]
  /\ dhead = 0 /\ pending = {} /\ dtail = 0 /\ dphase = 1
  /\ served = {} /\ untaken = 0 /\ timeouts = 0 /\ overrun = FALSE

----------------------------------------------------------------------------
(* The driver.                                                             *)

(* nvme_read_sectors, nvme_write_sectors; val stands for the data.  Outside *)
(* a call and outside a round the locals have no value: 0 stands for that. *)
Transfer(op, lba, count) ==
  /\ pc = "idle" /\ next_cid + count <= MAX_CMDS + 1
  /\ req' = [op |-> op, lba |-> lba, count |-> count,
             val |-> IF op = "write" THEN next_cid ELSE 0]
  /\ pc' = "fill"
  /\ UNCHANGED <<bounce, cid, ret, sq, tail, cq, head, phase, next_cid, mem, disk,
                 device, untaken, timeouts, overrun>>

(* pmm_alloc_pages, and the copy into the page for a write.                *)
Fill(f) ==
  /\ pc = "fill"
  /\ bounce' = f
  /\ mem' = IF req.op = "write" THEN [mem EXCEPT ![f] = req.val] ELSE mem
  /\ pc' = "submit"
  /\ UNCHANGED <<req, cid, ret, sq, tail, cq, head, phase, next_cid, disk, device,
                 untaken, timeouts, overrun>>

FillFails ==
  /\ pc = "fill"
  /\ pc' = "idle" /\ req' = NoRequest
  /\ UNCHANGED <<bounce, cid, ret, sq, tail, cq, head, phase, next_cid, mem, disk,
                 device, untaken, timeouts, overrun>>

(* Faulty variant, for mutation: the queue wraps one entry early.          *)
NextSlotEarly(s) == IF s + 1 >= NVME_QDEPTH - 1 THEN 0 ELSE s + 1

NextSlot(s) == IF s + 1 = NVME_QDEPTH THEN 0 ELSE s + 1

(* nvme_io_submit up to the doorbell.  Nothing asks whether the entry at   *)
(* the tail has been fetched.                                              *)
Submit ==
  /\ pc = "submit"
  /\ cid' = next_cid /\ next_cid' = next_cid + 1
  /\ sq' = [sq EXCEPT ![tail] = [cid |-> next_cid, op |-> req.op,
                                 lba |-> req.lba, frame |-> bounce]]
  /\ tail' = NextSlot(tail)
  /\ overrun' = (overrun \/ tail' = dhead)
  /\ pc' = "wait"
  /\ UNCHANGED <<req, bounce, ret, cq, head, phase, mem, disk, device, untaken, timeouts>>

(* Faulty variants, for mutation: the completion of another command will   *)
(* do; a status other than 0 will do.                                      *)
AcceptsAnyCid(e)    == e.ok = 1
AcceptsAnyStatus(e) == e.cid = cid

(* The completion says that the command just submitted succeeded.          *)
Accepts(e) == e.cid = cid /\ e.ok = 1

(* Faulty variants, for mutation: the phase never changes; it changes with *)
(* the last entry of a lap and not after it.                               *)
SamePhase(s, ph)      == ph
PhaseFlipsEarly(s, ph) == IF s = NVME_QDEPTH - 1 THEN 1 - ph ELSE ph

(* The phase bit to expect once the head has moved to slot s.              *)
PhaseAt(s, ph) == IF s = 0 THEN 1 - ph ELSE ph

(* nvme_wait_cqe finds an entry with the bit it waits for, and takes it.   *)
TakeCompletion ==
  /\ pc = "wait" /\ cq[head].phase = phase
  /\ ret' = IF Accepts(cq[head]) THEN 0 ELSE -1
  /\ head' = NextSlot(head)
  /\ phase' = PhaseAt(head', phase)
  /\ untaken' = untaken - 1
  /\ pc' = "copy"
  /\ UNCHANGED <<req, bounce, cid, sq, tail, cq, next_cid, mem, disk, device,
                 timeouts, overrun>>

(* ... or gives up.  The command stays with the controller.                *)
GiveUp ==
  /\ pc = "wait" /\ cq[head].phase # phase /\ timeouts < MAX_TIMEOUTS
  /\ timeouts' = timeouts + 1
  /\ ret' = -1
  /\ pc' = "copy"
  /\ UNCHANGED <<req, bounce, cid, sq, tail, cq, head, phase, next_cid, mem, disk,
                 device, untaken, overrun>>

(* The rest of a round of nvme_transfer: the data of a read is copied out, *)
(* the page is freed, and the next chunk begins or the call returns.       *)
Finish ==
  /\ pc = "copy"
  /\ IF ret = 0 /\ req.count > 1
     THEN pc' = "fill" /\ req' = [req EXCEPT !.lba = @ + 1, !.count = @ - 1]
     ELSE pc' = "idle" /\ req' = NoRequest
  /\ cid' = 0 /\ ret' = 0
  /\ UNCHANGED <<bounce, sq, tail, cq, head, phase, next_cid, mem, disk, device,
                 untaken, timeouts, overrun>>

----------------------------------------------------------------------------
(* The controller.                                                         *)

Fetch ==
  /\ dhead # tail
  /\ pending' = pending \cup {sq[dhead]}
  /\ dhead' = IF dhead + 1 = NVME_QDEPTH THEN 0 ELSE dhead + 1
  /\ UNCHANGED <<driver, cq, mem, disk, dtail, dphase, served, untaken, timeouts, overrun>>

(* A fetched command is executed, or refused, and its completion posted.   *)
Complete(c, ok) ==
  LET next == IF dtail + 1 = NVME_QDEPTH THEN 0 ELSE dtail + 1 IN
  /\ c \in pending /\ next # head
  /\ pending' = pending \ {c}
  /\ disk' = IF ok = 1 /\ c.op = "write" THEN [disk EXCEPT ![c.lba] = mem[c.frame]] ELSE disk
  /\ mem' = IF ok = 1 /\ c.op = "read" THEN [mem EXCEPT ![c.frame] = disk[c.lba]] ELSE mem
  /\ served' = IF ok = 1 THEN served \cup {c.cid} ELSE served
  /\ cq' = [cq EXCEPT ![dtail] = [cid |-> c.cid, ok |-> ok, phase |-> dphase]]
  /\ dtail' = next
  /\ dphase' = IF next = 0 THEN 1 - dphase ELSE dphase
  /\ untaken' = untaken + 1
  /\ UNCHANGED <<driver, dhead, timeouts, overrun>>

Execute == \E c \in pending, ok \in {0, 1} : Complete(c, ok)

Next ==
  \/ \E op \in Ops, lba \in 0 .. LBAS - 1, count \in 1 .. MAX_COUNT :
       lba + count <= LBAS /\ Transfer(op, lba, count)
  \/ \E f \in Frames : Fill(f)
  \/ FillFails \/ Submit \/ TakeCompletion \/ GiveUp \/ Finish
  \/ Fetch \/ Execute

Spec == Init /\ [][Next]_vars

(* The polling loop goes on, and the controller works off what it has.     *)
FairSpec == Spec /\ WF_vars(TakeCompletion) /\ WF_vars(Fetch) /\ WF_vars(Execute)

----------------------------------------------------------------------------
Command    == [cid : 0 .. MAX_CMDS, op : Ops, lba : 0 .. LBAS - 1, frame : Frames]
Completion == [cid : 0 .. MAX_CMDS, ok : {0, 1}, phase : {0, 1}]
Request    == [op : Ops, lba : 0 .. LBAS, count : 0 .. MAX_COUNT, val : 0 .. MAX_CMDS]

(* The type invariant: cursors stay in their queues, in particular.        *)
TypeOK ==
  /\ pc \in {"idle", "fill", "submit", "wait", "copy"}
  /\ req \in Request /\ bounce \in Frames /\ cid \in 0 .. MAX_CMDS /\ ret \in {0, -1}
  /\ sq \in [Slots -> Command] /\ cq \in [Slots -> Completion]
  /\ tail \in Slots /\ head \in Slots /\ phase \in {0, 1}
  /\ next_cid \in 1 .. MAX_CMDS + 1
  /\ mem \in [Frames -> 0 .. MAX_CMDS] /\ disk \in [0 .. LBAS - 1 -> 0 .. MAX_CMDS]
  /\ dhead \in Slots /\ pending \subseteq Command
  /\ dtail \in Slots /\ dphase \in {0, 1}
  /\ served \subseteq 0 .. MAX_CMDS /\ untaken \in 0 .. NVME_QDEPTH - 1
  /\ timeouts \in 0 .. MAX_TIMEOUTS /\ overrun \in BOOLEAN

(* The entry at the driver's head carries the bit the driver waits for     *)
(* exactly when the controller has posted it and the driver has not taken  *)
(* it: no completion is taken twice, skipped, or read before it is there,  *)
(* however often either side goes round the queue and polls give up.       *)
PhaseTellsFresh ==
  cq[head].phase = phase <=> untaken > 0

(* A chunk is reported done only if the controller executed that chunk's   *)
(* own command: never on the strength of an earlier command's completion,  *)
(* late after its poll gave up.                                            *)
SuccessIsItsOwn == (pc = "copy" /\ ret = 0) => cid \in served

(* As long as no poll has given up: the controller never touches a page    *)
(* the driver has freed, a chunk reported read holds the block's content,  *)
(* and a chunk reported written is on the disk.                            *)
InStepUntilTimeout ==
  timeouts = 0 =>
    /\ \A c \in pending : pc = "wait" /\ c.frame = bounce /\ c.cid = cid
    /\ (pc = "copy" /\ ret = 0) =>
         disk[req.lba] = IF req.op = "write" THEN req.val ELSE mem[bounce]

(* nvme_io_submit overwrites no command the controller has still to fetch  *)
(* before NVME_QDEPTH - 1 polls have given up.                             *)
OverrunNeedsTimeouts == overrun => timeouts >= NVME_QDEPTH - 1

(* Every poll ends unless the submission queue was overrun; once the       *)
(* time-outs of the model are used up, it can only end with a completion.  *)
EveryPollAnswered == (pc = "wait" /\ ~overrun) ~> (pc # "wait" \/ overrun)
=============================================================================
