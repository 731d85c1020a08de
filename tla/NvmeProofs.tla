----------------------------- MODULE NvmeProofs -----------------------------
(***************************************************************************)
(* Proofs about the NVMe driver, for any queue depth, pages, disk and      *)
(* bounds: the cursors and phase bits of both sides tell the same story,   *)
(* and from it the invariants that the run nvme checks.                    *)
(***************************************************************************)
EXTENDS Nvme, FiniteSetTheorems, TLAPS

(* The transfer in progress stays on the disk, and within the bound on     *)
(* commands.                                                               *)
BoundsInv ==
  /\ pc \in {"fill", "submit"} =>
       req.count >= 1 /\ req.lba + req.count <= LBAS /\ next_cid + req.count <= MAX_CMDS + 1
  /\ pc \in {"wait", "copy"} =>
       req.count >= 1 /\ req.lba + req.count <= LBAS /\ next_cid + req.count <= MAX_CMDS + 2

(* The head is untaken entries behind the controller's cursor; entries     *)
(* before that cursor carry the controller's bit, the others the opposite. *)
RingInv ==
  /\ untaken \in 0 .. NVME_QDEPTH - 1
  /\ \/ dphase = phase /\ dtail = head + untaken
     \/ dphase = 1 - phase /\ dtail + NVME_QDEPTH = head + untaken
  /\ \A s \in Slots : cq[s].phase = IF s < dtail THEN dphase ELSE 1 - dphase

(* A completion without error names a command the controller executed.     *)
ServedInv ==
  /\ \A s \in Slots : (cq[s].ok = 1 /\ cq[s].cid # 0) => cq[s].cid \in served
  /\ pc = "wait" => cid # 0
  /\ SuccessIsItsOwn

Current == [cid |-> cid, op |-> req.op, lba |-> req.lba, frame |-> bounce]

(* What a command that succeeded leaves behind.                            *)
Done == disk[req.lba] = IF req.op = "write" THEN req.val ELSE mem[bounce]

Idle == dhead = tail /\ pending = {} /\ untaken = 0

(* The one command under way is queued, fetched or completed.              *)
UnderWay ==
  \/ tail = NextSlot(dhead) /\ pending = {} /\ untaken = 0 /\ sq[dhead] = Current
  \/ dhead = tail /\ pending = {Current} /\ untaken = 0
  \/ dhead = tail /\ pending = {} /\ untaken = 1 /\ (cq[head].ok = 1 => Done)

StepInv ==
  timeouts = 0 =>
    /\ pc = "wait" => UnderWay
    /\ pc # "wait" => Idle
    /\ (pc = "copy" /\ ret = 0) => Done
    /\ (pc \in {"submit", "wait"} /\ req.op = "write") => mem[bounce] = req.val

(* The number of entries the controller has yet to fetch, until the queue  *)
(* is overrun.                                                             *)
Unfetched == IF tail >= dhead THEN tail - dhead ELSE tail - dhead + NVME_QDEPTH

(* Every command that is nowhere near an end was given up.                 *)
CountInv ==
  /\ IsFiniteSet(pending)
  /\ ~overrun => Unfetched + Cardinality(pending) + untaken
                   <= timeouts + (IF pc = "wait" THEN 1 ELSE 0)
  /\ OverrunNeedsTimeouts

Core == TypeOK /\ BoundsInv

----------------------------------------------------------------------------
(* Types.                                                                  *)

LEMMA NextSlotType == \A s \in Slots : NextSlot(s) \in Slots
  BY BoundsAssumption DEF Slots, NextSlot

LEMMA RequestType ==
  \A op \in Ops, lba \in 0 .. LBAS, count \in 0 .. MAX_COUNT, val \in 0 .. MAX_CMDS :
    LET r == [op |-> op, lba |-> lba, count |-> count, val |-> val]
    IN  r \in Request /\ r.op = op /\ r.lba = lba /\ r.count = count /\ r.val = val
  BY DEF Request

LEMMA RequestFields ==
  \A r \in Request : /\ r.op \in Ops /\ r.lba \in 0 .. LBAS
                     /\ r.count \in 0 .. MAX_COUNT /\ r.val \in 0 .. MAX_CMDS
  BY DEF Request

LEMMA RequestNext ==
  ASSUME NEW r \in Request, r.count >= 1, r.lba + r.count <= LBAS
  PROVE  LET q == [r EXCEPT !.lba = @ + 1, !.count = @ - 1]
         IN  q \in Request /\ q.lba = r.lba + 1 /\ q.count = r.count - 1
<1>1. r.lba + 1 \in 0 .. LBAS /\ r.count - 1 \in 0 .. MAX_COUNT
  BY BoundsAssumption, RequestFields
<1>. QED  BY <1>1 DEF Request

LEMMA CommandType ==
  ASSUME NEW c \in 0 .. MAX_CMDS, NEW r \in Request, r.count >= 1,
         r.lba + r.count <= LBAS, NEW f \in Frames
  PROVE  LET x == [cid |-> c, op |-> r.op, lba |-> r.lba, frame |-> f]
         IN  x \in Command /\ x.cid = c /\ x.op = r.op /\ x.lba = r.lba /\ x.frame = f
<1>1. r.op \in Ops /\ r.lba \in 0 .. LBAS - 1
  BY BoundsAssumption, RequestFields
<1>. QED  BY <1>1 DEF Command

LEMMA CommandFields ==
  \A c \in Command : /\ c.cid \in 0 .. MAX_CMDS /\ c.op \in Ops
                     /\ c.lba \in 0 .. LBAS - 1 /\ c.frame \in Frames
  BY DEF Command

LEMMA CompletionType ==
  \A c \in 0 .. MAX_CMDS, o \in {0, 1}, p \in {0, 1} :
    LET e == [cid |-> c, ok |-> o, phase |-> p]
    IN  e \in Completion /\ e.cid = c /\ e.ok = o /\ e.phase = p
  BY DEF Completion

LEMMA CompletionFields ==
  \A e \in Completion : e.cid \in 0 .. MAX_CMDS /\ e.ok \in {0, 1} /\ e.phase \in {0, 1}
  BY DEF Completion

LEMMA InitCore == Init => Core
<1>. SUFFICES ASSUME Init PROVE Core
  OBVIOUS
<1>1. NoRequest \in Request
  BY BoundsAssumption, RequestType DEF NoRequest, Ops
<1>2. sq \in [Slots -> Command]
  <2>1. [cid |-> 0, op |-> "read", lba |-> 0, frame |-> bounce] \in Command
    BY BoundsAssumption DEF Init, Command, Ops
  <2>. QED  BY <2>1 DEF Init
<1>3. cq \in [Slots -> Completion]
  <2>1. [cid |-> 0, ok |-> 1, phase |-> 0] \in Completion
    BY BoundsAssumption DEF Completion
  <2>. QED  BY <2>1 DEF Init
<1>4. mem \in [Frames -> 0 .. MAX_CMDS] /\ disk \in [0 .. LBAS - 1 -> 0 .. MAX_CMDS]
  BY BoundsAssumption DEF Init
<1>5. /\ 0 \in Slots /\ 0 \in 0 .. MAX_CMDS /\ 1 \in 1 .. MAX_CMDS + 1
      /\ 0 \in 0 .. MAX_TIMEOUTS /\ 0 \in 0 .. NVME_QDEPTH - 1
  BY BoundsAssumption DEF Slots
<1>6. /\ pc \in {"idle"} /\ req \in Request /\ bounce \in Frames /\ cid = 0 /\ ret = 0
      /\ tail = 0 /\ head = 0 /\ phase = 1 /\ next_cid = 1 /\ dhead = 0 /\ pending = {}
      /\ dtail = 0 /\ dphase = 1 /\ served = {} /\ untaken = 0 /\ timeouts = 0
      /\ overrun \in BOOLEAN
  BY <1>1 DEF Init
<1>7. TypeOK
  BY <1>2, <1>3, <1>4, <1>5, <1>6 DEF TypeOK
<1>. QED  BY <1>7 DEF Core, BoundsInv, Init

(* The rest of the type invariant takes the ring's bounds for untaken.     *)
LEMMA CoreStep == Core /\ RingInv /\ [Next]_vars => Core'
<1>. SUFFICES ASSUME Core, RingInv, [Next]_vars PROVE Core'
  OBVIOUS
<1>. USE DEF Core
<1>0. /\ next_cid \in 1 .. MAX_CMDS + 1 /\ req \in Request
      /\ req.lba \in 0 .. LBAS /\ req.count \in 0 .. MAX_COUNT
      /\ LBAS \in Nat \ {0} /\ MAX_COUNT \in Nat /\ MAX_CMDS \in Nat
  BY BoundsAssumption, RequestFields DEF TypeOK
<1>1. ASSUME NEW op \in Ops, NEW lba \in 0 .. LBAS - 1, NEW count \in 1 .. MAX_COUNT,
             lba + count <= LBAS, Transfer(op, lba, count)
      PROVE  Core'
  <2>1. req' \in Request /\ req'.lba = lba /\ req'.count = count
    <3>1. lba \in 0 .. LBAS /\ count \in 0 .. MAX_COUNT /\ next_cid \in 0 .. MAX_CMDS
      BY <1>0, <1>1 DEF Transfer
    <3>2. CASE op = "write"
      BY <1>1, <3>1, <3>2, RequestType DEF Transfer
    <3>3. CASE op # "write"
      BY <1>1, <3>1, <3>3, RequestType, BoundsAssumption DEF Transfer
    <3>. QED  BY <3>2, <3>3
  <2>2. TypeOK'
    BY <1>1, <2>1 DEF Transfer, TypeOK, device
  <2>. QED  BY <1>0, <1>1, <2>1, <2>2 DEF Transfer, BoundsInv
<1>2. ASSUME NEW f \in Frames, Fill(f) PROVE Core'
  <2>1. mem' \in [Frames -> 0 .. MAX_CMDS]
    BY <1>2, RequestFields DEF Fill, TypeOK
  <2>2. TypeOK'
    BY <1>2, <2>1 DEF Fill, TypeOK, device
  <2>. QED  BY <1>0, <1>2, <2>2 DEF Fill, BoundsInv
<1>3. CASE FillFails
  <2>1. NoRequest \in Request
    BY BoundsAssumption, RequestType DEF NoRequest, Ops
  <2>2. TypeOK'
    BY <1>3, <2>1 DEF FillFails, TypeOK, device
  <2>. QED  BY <1>3, <2>2 DEF FillFails, BoundsInv
<1>4. CASE Submit
  <2>0. next_cid \in 1 .. MAX_CMDS /\ req.count \in 0 .. MAX_COUNT
    BY <1>0, <1>4 DEF Submit, BoundsInv
  <2>1. sq' \in [Slots -> Command]
    <3>1. [cid |-> next_cid, op |-> req.op, lba |-> req.lba, frame |-> bounce] \in Command
      BY <1>4, <2>0, BoundsAssumption, CommandType, SMTT(40) DEF Submit, TypeOK, BoundsInv
    <3>. QED  BY <1>4, <3>1 DEF Submit, TypeOK
  <2>2. tail' \in Slots
    BY <1>4, NextSlotType DEF Submit, TypeOK
  <2>3. cid' \in 0 .. MAX_CMDS /\ next_cid' \in 1 .. MAX_CMDS + 1
    BY <1>0, <1>4, <2>0 DEF Submit
  <2>4. overrun' \in BOOLEAN
    BY <1>4 DEF Submit, TypeOK
  <2>5. TypeOK'
    BY <1>4, <2>1, <2>2, <2>3, <2>4 DEF Submit, TypeOK, device
  <2>. QED  BY <1>0, <1>4, <2>0, <2>5 DEF Submit, BoundsInv
<1>5. CASE TakeCompletion
  <2>1. head' \in Slots /\ phase' \in {0, 1}
    BY <1>5, NextSlotType DEF TakeCompletion, TypeOK, PhaseAt
  <2>2. untaken' \in 0 .. NVME_QDEPTH - 1
    BY <1>5, BoundsAssumption, SMTT(40) DEF TakeCompletion, TypeOK, RingInv, Slots
  <2>3. TypeOK'
    BY <1>5, <2>1, <2>2 DEF TakeCompletion, TypeOK, device
  <2>. QED  BY <1>5, <2>3 DEF TakeCompletion, BoundsInv
<1>6. CASE GiveUp
  <2>1. TypeOK'
    BY <1>6, BoundsAssumption DEF GiveUp, TypeOK, device
  <2>. QED  BY <1>6, <2>1 DEF GiveUp, BoundsInv
<1>7. CASE Finish
  <2>1. NoRequest \in Request
    BY BoundsAssumption, RequestType DEF NoRequest, Ops
  <2>2. CASE ret = 0 /\ req.count > 1
    <3>1. req' \in Request /\ req'.lba = req.lba + 1 /\ req'.count = req.count - 1
      BY <1>7, <2>2, RequestNext DEF Finish, TypeOK, BoundsInv
    <3>2. TypeOK'
      BY <1>7, <2>2, <3>1, BoundsAssumption, SMTT(40) DEF Finish, TypeOK, device
    <3>. QED  BY <1>0, <1>7, <2>2, <3>1, <3>2 DEF Finish, BoundsInv
  <2>3. CASE ~(ret = 0 /\ req.count > 1)
    <3>1. TypeOK'
      BY <1>7, <2>1, <2>3, BoundsAssumption, SMTT(40) DEF Finish, TypeOK, device
    <3>. QED  BY <1>7, <2>3, <3>1 DEF Finish, BoundsInv
  <2>. QED  BY <2>2, <2>3
<1>8. CASE Fetch
  <2>1. dhead' \in Slots /\ pending' \subseteq Command
    BY <1>8, BoundsAssumption DEF Fetch, TypeOK, Slots
  <2>2. TypeOK'
    BY <1>8, <2>1 DEF Fetch, TypeOK, driver
  <2>. QED  BY <1>8, <2>2 DEF Fetch, BoundsInv, driver
<1>9. ASSUME NEW c \in pending, NEW ok \in {0, 1}, Complete(c, ok) PROVE Core'
  <2>0. /\ c.cid \in 0 .. MAX_CMDS /\ c.lba \in 0 .. LBAS - 1 /\ c.frame \in Frames
    BY CommandFields DEF TypeOK
  <2>1. disk' \in [0 .. LBAS - 1 -> 0 .. MAX_CMDS] /\ mem' \in [Frames -> 0 .. MAX_CMDS]
    BY <1>9, <2>0 DEF Complete, TypeOK
  <2>2. cq' \in [Slots -> Completion]
    BY <1>9, <2>0, CompletionType DEF Complete, TypeOK
  <2>3. /\ dtail' \in Slots /\ dphase' \in {0, 1}
        /\ served' \subseteq 0 .. MAX_CMDS /\ pending' \subseteq Command
    <3>1. dtail' \in Slots
      BY <1>9, BoundsAssumption DEF Complete, TypeOK, Slots
    <3>2. dphase' \in {0, 1}
      BY <1>9 DEF Complete, TypeOK
    <3>3. served' \subseteq 0 .. MAX_CMDS
      BY <1>9, <2>0 DEF Complete, TypeOK
    <3>4. pending' \subseteq Command
      BY <1>9 DEF Complete, TypeOK
    <3>. QED  BY <3>1, <3>2, <3>3, <3>4
  <2>4. untaken' \in 0 .. NVME_QDEPTH - 1
    BY <1>9, BoundsAssumption DEF Complete, TypeOK, RingInv, Slots
  <2>5. TypeOK'
    BY <1>9, <2>1, <2>2, <2>3, <2>4 DEF Complete, TypeOK, driver
  <2>. QED  BY <1>9, <2>5 DEF Complete, BoundsInv, driver
<1>10. CASE UNCHANGED vars
  BY <1>10 DEF vars, TypeOK, BoundsInv
<1>. QED  BY <1>1, <1>2, <1>3, <1>4, <1>5, <1>6, <1>7, <1>8, <1>9, <1>10 DEF Next, Execute

----------------------------------------------------------------------------
(* The completion queue.                                                   *)

LEMMA InitRing == Init => RingInv
<1>. SUFFICES ASSUME Init PROVE RingInv
  OBVIOUS
<1>1. \A s \in Slots : cq[s].phase = 0
  BY DEF Init
<1>. QED  BY <1>1, BoundsAssumption DEF Init, RingInv, Slots

LEMMA RingStep == Core /\ RingInv /\ [Next]_vars => RingInv'
<1>. SUFFICES ASSUME Core, RingInv, [Next]_vars PROVE RingInv'
  OBVIOUS
<1>0. /\ NVME_QDEPTH \in Nat /\ NVME_QDEPTH >= 2
      /\ head \in Slots /\ dtail \in Slots /\ phase \in {0, 1} /\ dphase \in {0, 1}
      /\ cq \in [Slots -> Completion]
  BY BoundsAssumption DEF Core, TypeOK
<1>1. ASSUME UNCHANGED <<cq, head, phase, dtail, dphase, untaken>> PROVE RingInv'
  BY <1>1 DEF RingInv
<1>2. CASE TakeCompletion
  <2>1. untaken > 0
    BY <1>0, <1>2 DEF TakeCompletion, RingInv, Slots
  <2>2. CASE head + 1 = NVME_QDEPTH
    BY <1>0, <1>2, <2>1, <2>2
       DEF TakeCompletion, RingInv, Slots, NextSlot, PhaseAt, device
  <2>3. CASE head + 1 # NVME_QDEPTH
    BY <1>0, <1>2, <2>1, <2>3
       DEF TakeCompletion, RingInv, Slots, NextSlot, PhaseAt, device
  <2>. QED  BY <2>2, <2>3
<1>3. ASSUME NEW c \in pending, NEW ok \in {0, 1}, Complete(c, ok) PROVE RingInv'
  <2>1. c.cid \in 0 .. MAX_CMDS
    BY CommandFields DEF Core, TypeOK
  <2>2. \A s \in Slots : cq'[s].phase = IF s = dtail THEN dphase ELSE cq[s].phase
    BY <1>0, <1>3, <2>1, CompletionType DEF Complete
  <2>3. /\ untaken' = untaken + 1 /\ head' = head /\ phase' = phase
        /\ dtail' = IF dtail + 1 = NVME_QDEPTH THEN 0 ELSE dtail + 1
        /\ dphase' = IF dtail' = 0 THEN 1 - dphase ELSE dphase
        /\ dtail' # head
    BY <1>3 DEF Complete, driver
  <2>4. CASE dtail + 1 = NVME_QDEPTH
    BY <1>0, <2>2, <2>3, <2>4, SMTT(40) DEF RingInv, Slots
  <2>5. CASE dtail + 1 # NVME_QDEPTH
    BY <1>0, <2>2, <2>3, <2>5 DEF RingInv, Slots
  <2>. QED  BY <2>4, <2>5
<1>4. ASSUME NEW op \in Ops, NEW lba \in 0 .. LBAS - 1, NEW count \in 1 .. MAX_COUNT,
             Transfer(op, lba, count)
      PROVE  RingInv'
  BY <1>1, <1>4 DEF Transfer, device
<1>5. ASSUME NEW f \in Frames, Fill(f) PROVE RingInv'
  BY <1>1, <1>5 DEF Fill, device
<1>6. CASE FillFails
  BY <1>1, <1>6 DEF FillFails, device
<1>7. CASE Submit
  BY <1>1, <1>7 DEF Submit, device
<1>8. CASE GiveUp
  BY <1>1, <1>8 DEF GiveUp, device
<1>9. CASE Finish
  BY <1>1, <1>9 DEF Finish, device
<1>10. CASE Fetch
  BY <1>1, <1>10 DEF Fetch, driver
<1>11. CASE UNCHANGED vars
  BY <1>1, <1>11 DEF vars
<1>. QED
  BY <1>2, <1>3, <1>4, <1>5, <1>6, <1>7, <1>8, <1>9, <1>10, <1>11 DEF Next, Execute

THEOREM Inductive == Spec => [](Core /\ RingInv)
<1>1. Init => Core /\ RingInv
  BY InitCore, InitRing
<1>2. Core /\ RingInv /\ [Next]_vars => Core' /\ RingInv'
  BY CoreStep, RingStep
<1>. QED  BY <1>1, <1>2, PTL DEF Spec

(* The cursors of both sides stay in their queues and every command names  *)
(* a block of the disk (nvme_wait_cqe, nvme_io_submit, nvme_transfer).     *)
THEOREM TypeCorrect == Spec => []TypeOK
<1>1. Core /\ RingInv => TypeOK
  BY DEF Core
<1>. QED  BY <1>1, Inductive, PTL

(* nvme_wait_cqe takes each completion once, and none before it is there.  *)
THEOREM PhaseIsFresh == Spec => []PhaseTellsFresh
<1>1. Core /\ RingInv => PhaseTellsFresh
  <2>. SUFFICES ASSUME Core, RingInv PROVE PhaseTellsFresh
    OBVIOUS
  <2>1. /\ NVME_QDEPTH \in Nat /\ head \in Slots /\ dtail \in Slots
        /\ phase \in {0, 1} /\ dphase \in {0, 1}
    BY BoundsAssumption DEF Core, TypeOK
  <2>. QED  BY <2>1 DEF RingInv, PhaseTellsFresh, Slots
<1>. QED  BY <1>1, Inductive, PTL

----------------------------------------------------------------------------
(* Completions and the commands they are for.                              *)

LEMMA InitServed == Init => ServedInv
  BY DEF Init, ServedInv, SuccessIsItsOwn

LEMMA ServedStep == Core /\ RingInv /\ ServedInv /\ [Next]_vars => ServedInv'
<1>. SUFFICES ASSUME Core, RingInv, ServedInv, [Next]_vars PROVE ServedInv'
  OBVIOUS
<1>0. cq \in [Slots -> Completion] /\ head \in Slots /\ next_cid \in 1 .. MAX_CMDS + 1
  BY DEF Core, TypeOK
<1>1. ASSUME UNCHANGED <<cq, served>>, pc' \notin {"wait", "copy"} PROVE ServedInv'
  BY <1>1 DEF ServedInv, SuccessIsItsOwn
<1>2. ASSUME UNCHANGED <<pc, cid, ret>>, served \subseteq served',
             \A s \in Slots : (cq'[s].ok = 1 /\ cq'[s].cid # 0) => cq'[s].cid \in served'
      PROVE  ServedInv'
  BY <1>2 DEF ServedInv, SuccessIsItsOwn
<1>3. CASE Submit
  BY <1>0, <1>3 DEF Submit, device, ServedInv, SuccessIsItsOwn
<1>4. CASE TakeCompletion
  <2>1. UNCHANGED <<cq, served, cid>> /\ pc' = "copy" /\ pc = "wait"
    BY <1>4 DEF TakeCompletion, device
  <2>2. ret' = 0 => cq[head].cid = cid /\ cq[head].ok = 1
    BY <1>4 DEF TakeCompletion, Accepts
  <2>. QED  BY <1>0, <2>1, <2>2 DEF ServedInv, SuccessIsItsOwn
<1>5. CASE GiveUp
  BY <1>5 DEF GiveUp, device, ServedInv, SuccessIsItsOwn
<1>6. ASSUME NEW c \in pending, NEW ok \in {0, 1}, Complete(c, ok) PROVE ServedInv'
  <2>1. c.cid \in 0 .. MAX_CMDS /\ dphase \in {0, 1} /\ dtail \in Slots
    BY CommandFields DEF Core, TypeOK
  <2>2. \A s \in Slots : cq'[s] = IF s = dtail THEN [cid |-> c.cid, ok |-> ok, phase |-> dphase]
                                             ELSE cq[s]
    BY <1>0, <1>6 DEF Complete
  <2>3. served' = IF ok = 1 THEN served \cup {c.cid} ELSE served
    BY <1>6 DEF Complete
  <2>4. \A s \in Slots : (cq'[s].ok = 1 /\ cq'[s].cid # 0) => cq'[s].cid \in served'
    <3>. TAKE s \in Slots
    <3>1. CASE s = dtail
      BY <2>1, <2>2, <2>3, <3>1
    <3>2. CASE s # dtail
      BY <2>2, <2>3, <3>2 DEF ServedInv
    <3>. QED  BY <3>1, <3>2
  <2>5. UNCHANGED <<pc, cid, ret>>
    BY <1>6 DEF Complete, driver
  <2>. QED  BY <1>2, <2>3, <2>4, <2>5
<1>7. ASSUME NEW op \in Ops, NEW lba \in 0 .. LBAS - 1, NEW count \in 1 .. MAX_COUNT,
             Transfer(op, lba, count)
      PROVE  ServedInv'
  BY <1>1, <1>7 DEF Transfer, device
<1>8. ASSUME NEW f \in Frames, Fill(f) PROVE ServedInv'
  BY <1>1, <1>8 DEF Fill, device
<1>9. CASE FillFails
  BY <1>1, <1>9 DEF FillFails, device
<1>10. CASE Finish
  BY <1>1, <1>10 DEF Finish, device
<1>11. CASE Fetch
  BY <1>2, <1>11 DEF Fetch, driver, ServedInv
<1>12. CASE UNCHANGED vars
  BY <1>2, <1>12 DEF vars, ServedInv
<1>. QED
  BY <1>3, <1>4, <1>5, <1>6, <1>7, <1>8, <1>9, <1>10, <1>11, <1>12 DEF Next, Execute

(* nvme_wait_cqe compares the identifier: no transfer succeeds on the late *)
(* completion of a command that was given up.                              *)
THEOREM SuccessIsHonest == Spec => []SuccessIsItsOwn
<1>1. ServedInv => SuccessIsItsOwn
  BY DEF ServedInv
<1>. QED  BY <1>1, InitServed, ServedStep, Inductive, PTL DEF Spec

----------------------------------------------------------------------------
(* The queues while no poll has given up.                                  *)

LEMMA InitStep == Init => StepInv
  BY DEF Init, StepInv, Idle

LEMMA StepStep == Core /\ RingInv /\ StepInv /\ [Next]_vars => StepInv'
<1>. SUFFICES ASSUME Core, RingInv, StepInv, [Next]_vars, timeouts' = 0 PROVE StepInv'
  BY DEF StepInv
<1>0. /\ req \in Request /\ bounce \in Frames /\ untaken \in 0 .. NVME_QDEPTH - 1
      /\ sq \in [Slots -> Command] /\ cq \in [Slots -> Completion]
      /\ tail \in Slots /\ head \in Slots /\ dhead \in Slots /\ dtail \in Slots
      /\ next_cid \in 1 .. MAX_CMDS + 1 /\ timeouts \in 0 .. MAX_TIMEOUTS
      /\ mem \in [Frames -> 0 .. MAX_CMDS] /\ disk \in [0 .. LBAS - 1 -> 0 .. MAX_CMDS]
      /\ dphase \in {0, 1} /\ phase \in {0, 1} /\ NVME_QDEPTH \in Nat /\ NVME_QDEPTH >= 2
  BY BoundsAssumption DEF Core, TypeOK
<1>1. ASSUME NEW op \in Ops, NEW lba \in 0 .. LBAS - 1, NEW count \in 1 .. MAX_COUNT,
             Transfer(op, lba, count)
      PROVE  StepInv'
  BY <1>1 DEF Transfer, device, StepInv, Idle
<1>2. ASSUME NEW f \in Frames, Fill(f) PROVE StepInv'
  BY <1>0, <1>2 DEF Fill, device, StepInv, Idle
<1>3. CASE FillFails
  BY <1>3 DEF FillFails, device, StepInv, Idle
<1>4. CASE Submit
  <2>1. Idle /\ timeouts = 0 /\ req.op = "write" => mem[bounce] = req.val
    BY <1>4 DEF Submit, StepInv
  <2>2. tail' = NextSlot(dhead') /\ pending' = {} /\ untaken' = 0 /\ sq'[dhead'] = Current'
    BY <1>0, <1>4 DEF Submit, device, StepInv, Idle, Current
  <2>. QED  BY <1>4, <2>2 DEF Submit, device, StepInv, UnderWay
<1>5. CASE TakeCompletion
  <2>1. UnderWay /\ untaken > 0
    BY <1>0, <1>5 DEF TakeCompletion, StepInv, RingInv, Slots
  <2>2. dhead = tail /\ pending = {} /\ untaken = 1 /\ (cq[head].ok = 1 => Done)
    BY <1>0, <2>1 DEF UnderWay
  <2>. QED  BY <1>5, <2>2 DEF TakeCompletion, Accepts, device, StepInv, Idle, Done
<1>6. CASE GiveUp
  BY <1>0, <1>6 DEF GiveUp
<1>7. CASE Finish
  BY <1>7 DEF Finish, device, StepInv, Idle
<1>8. CASE Fetch
  <2>1. pc = "wait" /\ timeouts = 0
    BY <1>8 DEF Fetch, StepInv, Idle
  <2>2. /\ tail = NextSlot(dhead) /\ pending = {} /\ untaken = 0 /\ sq[dhead] = Current
    BY <1>8, <2>1 DEF Fetch, StepInv, UnderWay
  <2>3. dhead' = tail' /\ pending' = {Current'} /\ untaken' = 0
    BY <1>8, <2>2 DEF Fetch, driver, NextSlot, Current
  <2>4. UnderWay'
    BY <2>3 DEF UnderWay
  <2>. QED  BY <1>8, <2>1, <2>4 DEF Fetch, driver, StepInv
<1>9. ASSUME NEW c \in pending, NEW ok \in {0, 1}, Complete(c, ok) PROVE StepInv'
  <2>1. pc = "wait" /\ timeouts = 0
    BY <1>9 DEF Complete, StepInv, Idle
  <2>2. dhead = tail /\ pending = {Current} /\ untaken = 0 /\ c = Current
    BY <2>1, <1>0 DEF StepInv, UnderWay
  <2>3. dtail = head
    BY <1>0, <2>2 DEF RingInv, Slots
  <2>4. UNCHANGED <<pc, req, bounce, cid, timeouts, tail, dhead, head>>
        /\ pending' = {} /\ untaken' = 1 /\ cq'[head] = [cid |-> c.cid, ok |-> ok, phase |-> dphase]
    BY <1>0, <1>9, <2>2, <2>3 DEF Complete, driver
  <2>5. /\ c.op = req.op /\ c.lba = req.lba /\ c.frame = bounce
        /\ c.lba \in 0 .. LBAS - 1 /\ req.op \in Ops
    BY <1>0, <2>2, CommandFields, RequestFields DEF Current, Core, TypeOK
  <2>6. req.op = "write" => mem[bounce] = req.val
    BY <2>1 DEF StepInv
  <2>7. cq'[head'].ok = 1 => Done'
    <3>. SUFFICES ASSUME ok = 1 PROVE Done'
      BY <2>4
    <3>1. CASE req.op = "write"
      <4>1. disk' = [disk EXCEPT ![req.lba] = mem[bounce]]
        BY <1>9, <2>5, <3>1 DEF Complete
      <4>. QED  BY <1>0, <2>4, <2>5, <2>6, <3>1, <4>1 DEF Done
    <3>2. CASE req.op = "read"
      <4>1. disk' = disk /\ mem' = [mem EXCEPT ![bounce] = disk[req.lba]]
        BY <1>9, <2>5, <3>2 DEF Complete
      <4>. QED  BY <1>0, <2>4, <2>5, <3>2, <4>1 DEF Done
    <3>. QED  BY <2>5, <3>1, <3>2 DEF Ops
  <2>8. UnderWay'
    BY <2>2, <2>4, <2>7 DEF UnderWay
  <2>. QED  BY <2>1, <2>4, <2>8, <2>6, <2>5, <1>9 DEF Complete, StepInv
<1>10. CASE UNCHANGED vars
  BY <1>10 DEF vars, StepInv, Idle, UnderWay, Current, Done
<1>. QED
  BY <1>1, <1>2, <1>3, <1>4, <1>5, <1>6, <1>7, <1>8, <1>9, <1>10 DEF Next, Execute

(* Until nvme_wait_cqe gives up once, nvme_transfer frees no page that the *)
(* controller may still touch, and its successes are what they say.        *)
THEOREM InStep == Spec => []InStepUntilTimeout
<1>1. Core /\ StepInv => InStepUntilTimeout
  <2>. SUFFICES ASSUME Core, StepInv, timeouts = 0
       PROVE  /\ \A c \in pending : pc = "wait" /\ c.frame = bounce /\ c.cid = cid
              /\ (pc = "copy" /\ ret = 0) => Done
    BY DEF InStepUntilTimeout, Done
  <2>1. pc # "wait" => pending = {}
    BY DEF StepInv, Idle
  <2>2. pc = "wait" => pending \subseteq {Current}
    BY DEF StepInv, UnderWay
  <2>3. Current.frame = bounce /\ Current.cid = cid
    BY DEF Current
  <2>. QED  BY <2>1, <2>2, <2>3 DEF StepInv
<1>. QED  BY <1>1, InitStep, StepStep, Inductive, PTL DEF Spec

----------------------------------------------------------------------------
(* The commands the driver is rid of without an answer.                    *)

LEMMA InitCount == Init => CountInv
  BY FS_EmptySet, BoundsAssumption
     DEF Init, CountInv, OverrunNeedsTimeouts, Unfetched

LEMMA CountStep == Core /\ RingInv /\ CountInv /\ [Next]_vars => CountInv'
<1>. SUFFICES ASSUME Core, RingInv, CountInv, [Next]_vars PROVE CountInv'
  OBVIOUS
<1>0. /\ untaken \in 0 .. NVME_QDEPTH - 1 /\ timeouts \in Nat
      /\ tail \in 0 .. NVME_QDEPTH - 1 /\ dhead \in 0 .. NVME_QDEPTH - 1
      /\ NVME_QDEPTH \in Nat /\ NVME_QDEPTH >= 2 /\ overrun \in BOOLEAN
  BY BoundsAssumption DEF Core, TypeOK, Slots
<1>c. IsFiniteSet(pending) /\ Cardinality(pending) \in Nat
  BY FS_CardinalityType DEF CountInv
<1>1. ASSUME UNCHANGED <<tail, dhead, pending, untaken, timeouts, overrun>>,
             pc # "wait", pc' # "wait"
      PROVE  CountInv'
  BY <1>1 DEF CountInv, OverrunNeedsTimeouts, Unfetched
<1>2. CASE Submit
  <2>1. UNCHANGED <<dhead, pending, untaken, timeouts>> /\ pc = "submit" /\ pc' = "wait"
        /\ tail' = (IF tail + 1 = NVME_QDEPTH THEN 0 ELSE tail + 1)
        /\ overrun' = (overrun \/ tail' = dhead)
    BY <1>2 DEF Submit, device, NextSlot
  <2>2. CASE overrun
    BY <2>1, <2>2 DEF CountInv, OverrunNeedsTimeouts
  <2>3. CASE ~overrun
    <3>1. Unfetched + Cardinality(pending) + untaken <= timeouts
      BY <1>0, <1>c, <2>1, <2>3 DEF CountInv, Unfetched
    <3>2. tail' # dhead => Unfetched' = Unfetched + 1
      BY <1>0, <2>1 DEF Unfetched
    <3>3. tail' = dhead => Unfetched = NVME_QDEPTH - 1
      BY <1>0, <2>1 DEF Unfetched
    <3>4. Unfetched \in Int
      BY <1>0 DEF Unfetched
    <3>5. CASE tail' = dhead
      <4>1. timeouts >= NVME_QDEPTH - 1
        BY <1>0, <1>c, <3>1, <3>3, <3>5
      <4>2. overrun' /\ timeouts' = timeouts
        BY <2>1, <3>5
      <4>. QED  BY <1>c, <2>1, <4>1, <4>2 DEF CountInv, OverrunNeedsTimeouts
    <3>6. CASE tail' # dhead
      <4>1. ~overrun'
        BY <2>1, <2>3, <3>6
      <4>2. Unfetched' + Cardinality(pending') + untaken' <= timeouts' + 1
        BY <1>0, <1>c, <2>1, <3>1, <3>2, <3>4, <3>6
      <4>. QED  BY <1>c, <2>1, <4>1, <4>2 DEF CountInv, OverrunNeedsTimeouts
    <3>. QED  BY <3>5, <3>6
  <2>. QED  BY <2>2, <2>3
<1>3. CASE TakeCompletion
  <2>1. UNCHANGED <<tail, dhead, pending, timeouts, overrun>> /\ pc = "wait" /\ pc' = "copy"
        /\ untaken' = untaken - 1
    BY <1>3 DEF TakeCompletion, device
  <2>2. Unfetched' = Unfetched /\ Unfetched \in Int
    BY <1>0, <2>1 DEF Unfetched
  <2>3. ~overrun => Unfetched' + Cardinality(pending') + untaken' <= timeouts'
    BY <1>0, <1>c, <2>1, <2>2 DEF CountInv
  <2>. QED  BY <1>0, <2>1, <2>3 DEF CountInv, OverrunNeedsTimeouts
<1>4. CASE GiveUp
  <2>1. UNCHANGED <<tail, dhead, pending, untaken, overrun>> /\ pc = "wait" /\ pc' = "copy"
        /\ timeouts' = timeouts + 1
    BY <1>4 DEF GiveUp, device
  <2>2. Unfetched' = Unfetched /\ Unfetched \in Int
    BY <1>0, <2>1 DEF Unfetched
  <2>3. ~overrun => Unfetched' + Cardinality(pending') + untaken' <= timeouts'
    BY <1>0, <1>c, <2>1, <2>2 DEF CountInv
  <2>4. overrun => timeouts' >= NVME_QDEPTH - 1
    BY <1>0, <2>1 DEF CountInv, OverrunNeedsTimeouts
  <2>. QED  BY <1>0, <2>1, <2>3, <2>4 DEF CountInv, OverrunNeedsTimeouts
<1>5. CASE Fetch
  <2>1. /\ UNCHANGED <<pc, tail, untaken, timeouts, overrun>> /\ dhead # tail
        /\ dhead' = (IF dhead + 1 = NVME_QDEPTH THEN 0 ELSE dhead + 1)
        /\ pending' = pending \cup {sq[dhead]}
    BY <1>5 DEF Fetch, driver
  <2>2. Unfetched' = Unfetched - 1 /\ Unfetched \in Int
    BY <1>0, <2>1 DEF Unfetched
  <2>3. /\ IsFiniteSet(pending') /\ Cardinality(pending') \in Nat
        /\ Cardinality(pending') <= Cardinality(pending) + 1
    <3>1. /\ IsFiniteSet(pending')
          /\ Cardinality(pending') = IF sq[dhead] \in pending THEN Cardinality(pending)
                                                             ELSE Cardinality(pending) + 1
      BY <1>c, <2>1, FS_AddElement
    <3>. QED  BY <1>c, <3>1
  <2>4. ~overrun => Unfetched' + Cardinality(pending') + untaken'
                      <= Unfetched + Cardinality(pending) + untaken
    BY <1>0, <1>c, <2>1, <2>2, <2>3
  <2>5. ~overrun => Unfetched' + Cardinality(pending') + untaken'
                      <= timeouts + (IF pc = "wait" THEN 1 ELSE 0)
    <3>. SUFFICES ASSUME ~overrun
         PROVE Unfetched' + Cardinality(pending') + untaken'
                 <= timeouts + (IF pc = "wait" THEN 1 ELSE 0)
      OBVIOUS
    <3>1. Unfetched + Cardinality(pending) + untaken
            <= timeouts + (IF pc = "wait" THEN 1 ELSE 0)
      BY DEF CountInv
    <3>2. /\ Unfetched' + Cardinality(pending') + untaken' \in Int
          /\ Unfetched + Cardinality(pending) + untaken \in Int
      BY <1>0, <1>c, <2>1, <2>2, <2>3
    <3>. QED  BY <1>0, <2>4, <3>1, <3>2
  <2>. QED  BY <2>1, <2>3, <2>5 DEF CountInv, OverrunNeedsTimeouts
<1>6. ASSUME NEW c \in pending, NEW ok \in {0, 1}, Complete(c, ok) PROVE CountInv'
  <2>1. /\ UNCHANGED <<pc, tail, dhead, timeouts, overrun>>
        /\ untaken' = untaken + 1 /\ pending' = pending \ {c}
    BY <1>6 DEF Complete, driver
  <2>2. Unfetched' = Unfetched /\ Unfetched \in Int
    BY <1>0, <2>1 DEF Unfetched
  <2>3. IsFiniteSet(pending') /\ Cardinality(pending') = Cardinality(pending) - 1
    <3>1. /\ IsFiniteSet(pending')
          /\ Cardinality(pending') = IF c \in pending THEN Cardinality(pending) - 1
                                                     ELSE Cardinality(pending)
      BY <1>c, <2>1, FS_RemoveElement
    <3>. QED  BY <3>1
  <2>4. Unfetched' + Cardinality(pending') + untaken'
          = Unfetched + Cardinality(pending) + untaken
    <3>1. untaken' = untaken + 1 /\ untaken \in Int
      BY <1>0, <2>1
    <3>. HIDE DEF Unfetched
    <3>. QED  BY <1>c, <2>2, <2>3, <3>1
  <2>. QED  BY <2>1, <2>3, <2>4 DEF CountInv, OverrunNeedsTimeouts
<1>7. ASSUME NEW op \in Ops, NEW lba \in 0 .. LBAS - 1, NEW count \in 1 .. MAX_COUNT,
             Transfer(op, lba, count)
      PROVE  CountInv'
  BY <1>1, <1>7 DEF Transfer, device
<1>8. ASSUME NEW f \in Frames, Fill(f) PROVE CountInv'
  BY <1>1, <1>8 DEF Fill, device
<1>9. CASE FillFails
  BY <1>1, <1>9 DEF FillFails, device
<1>10. CASE Finish
  BY <1>1, <1>10 DEF Finish, device
<1>11. CASE UNCHANGED vars
  BY <1>11 DEF vars, CountInv, OverrunNeedsTimeouts, Unfetched
<1>. QED
  BY <1>2, <1>3, <1>4, <1>5, <1>6, <1>7, <1>8, <1>9, <1>10, <1>11 DEF Next, Execute

(* nvme_io_submit never looks whether the queue has room: with depth d it  *)
(* needs none before d - 1 polls have given up.                            *)
THEOREM OverrunIsLate == Spec => []OverrunNeedsTimeouts
<1>1. CountInv => OverrunNeedsTimeouts
  BY DEF CountInv
<1>. QED  BY <1>1, InitCount, CountStep, Inductive, PTL DEF Spec
=============================================================================
