------------------------------- MODULE E1000 -------------------------------
(***************************************************************************)
(* The network card driver, src/drivers/e1000.c, under the nic_lock of     *)
(* src/drivers/nic.c: one call of e1000_send or e1000_recv at a time, and  *)
(* the card at work between any two of its steps.  Each direction is a     *)
(* ring of descriptors: the driver moves the tail register, the card the   *)
(* head, and the DD bit of a descriptor says that the card is done with    *)
(* it.  To the card a ring with head = tail is empty.  The card is         *)
(* external: it does what its registers say, transmits only while the link *)
(* is up, and drops what arrives when it has no descriptor.                *)
(*                                                                         *)
(* A frame is a value of its own; lengths, and the cutting of frames that  *)
(* do not fit, are left out.  A wait with a deadline ends either way.      *)
(***************************************************************************)
EXTENDS Integers, Sequences

CONSTANTS
  E1000_NUM_TX,   (* descriptors of the transmit ring                      *)
  E1000_NUM_RX,   (* descriptors of the receive ring                       *)
  Frame           (* the frames                                            *)

ASSUME RingAssumption ==
  /\ E1000_NUM_TX \in Nat /\ E1000_NUM_TX >= 2
  /\ E1000_NUM_RX \in Nat /\ E1000_NUM_RX >= 2
  /\ Frame # {}

VARIABLES
  pc, msg,              (* the call that holds nic_lock; the frame it sends *)
  rx_cur, rx_done,      (* the driver's cursor; descriptors with RX_DD      *)
  rx_bufs, RDH, RDT,    (* the buffers, the head and the tail register      *)
  buf,                  (* what e1000_recv copied out last                  *)
  tx_cur, tx_done,      (* as above; descriptors with TX_DD                 *)
  tx_bufs, TDH, TDT,
  wire,                 (* the frame the card transmitted last              *)
  link                  (* STATUS.LU                                        *)

rx   == <<rx_cur, rx_done, rx_bufs, RDH, RDT, buf>>
tx   == <<tx_cur, tx_done, tx_bufs, TDH, TDT, wire>>
vars == <<pc, msg, rx_cur, rx_done, rx_bufs, RDH, RDT, buf,
          tx_cur, tx_done, tx_bufs, TDH, TDT, wire, link>>

Rx == 0 .. E1000_NUM_RX - 1
Tx == 0 .. E1000_NUM_TX - 1

Succ(i, n) == IF i = n - 1 THEN 0 ELSE i + 1
Pred(i, n) == IF i = 0 THEN n - 1 ELSE i - 1

(* e1000_init: the card starts with every receive descriptor but one, and  *)
(* with none to transmit.  The memory of the buffers does not matter.      *)
Init ==
  /\ pc = "idle" /\ msg \in Frame
  /\ rx_cur = 0 /\ rx_done = {} /\ rx_bufs \in [Rx -> {msg}]
  /\ RDH = 0 /\ RDT = E1000_NUM_RX - 1 /\ buf = msg
  /\ tx_cur = 0 /\ tx_done = Tx /\ tx_bufs \in [Tx -> {msg}]
  /\ TDH = 0 /\ TDT = 0 /\ wire = msg
  /\ link \in BOOLEAN

----------------------------------------------------------------------------
(* e1000_recv.  It returns 0, and nothing happens, when the descriptor at  *)
(* the cursor is not done.                                                 *)

RecvCopy ==
  /\ pc = "idle" /\ rx_cur \in rx_done
  /\ buf' = rx_bufs[rx_cur]
  /\ pc' = "r_clear"
  /\ UNCHANGED <<msg, rx_cur, rx_done, rx_bufs, RDH, RDT, tx, link>>

RecvClear ==
  /\ pc = "r_clear"
  /\ rx_done' = rx_done \ {rx_cur}
  /\ rx_cur' = Succ(rx_cur, E1000_NUM_RX)
  /\ pc' = "r_tail"
  /\ UNCHANGED <<msg, rx_bufs, RDH, RDT, buf, tx, link>>

(* Faulty variant, for mutation: the tail follows the cursor itself.       *)
TailAtCursor(i) == i

(* What is written to RDT once the cursor is at i.                         *)
RxTail(i) == Pred(i, E1000_NUM_RX)

RecvTail ==
  /\ pc = "r_tail"
  /\ RDT' = RxTail(rx_cur)
  /\ pc' = "idle"
  /\ UNCHANGED <<msg, rx_cur, rx_done, rx_bufs, RDH, buf, tx, link>>

----------------------------------------------------------------------------
(* e1000_send.                                                             *)

SendStart(f) ==
  /\ pc = "idle"
  /\ msg' = f
  /\ pc' = "s_link"
  /\ UNCHANGED <<rx, tx, link>>

(* The link is up, at once or within six seconds ...                       *)
SendLink ==
  /\ pc = "s_link" /\ link
  /\ pc' = "s_slot"
  /\ UNCHANGED <<msg, rx, tx, link>>

(* ... or the call fails.                                                  *)
SendNoLink ==
  /\ pc = "s_link" /\ ~link
  /\ pc' = "idle"
  /\ UNCHANGED <<msg, rx, tx, link>>

(* Faulty variant, for mutation: the descriptor is not looked at.          *)
AnySlot(d) == TRUE

SlotFree(d) == d \in tx_done

SendFill ==
  /\ pc = "s_slot" /\ SlotFree(tx_cur)
  /\ tx_bufs' = [tx_bufs EXCEPT ![tx_cur] = msg]
  /\ pc' = "s_status"
  /\ UNCHANGED <<msg, rx, tx_cur, tx_done, TDH, TDT, wire, link>>

(* Half a second passed, and the descriptor is still the card's.           *)
SendBusy ==
  /\ pc = "s_slot" /\ ~SlotFree(tx_cur)
  /\ pc' = "idle"
  /\ UNCHANGED <<msg, rx, tx, link>>

SendStatus ==
  /\ pc = "s_status"
  /\ tx_done' = tx_done \ {tx_cur}
  /\ tx_cur' = Succ(tx_cur, E1000_NUM_TX)
  /\ pc' = "s_tail"
  /\ UNCHANGED <<msg, rx, tx_bufs, TDH, TDT, wire, link>>

(* Faulty variant, for mutation: the tail before the cursor moved.         *)
TxTailOld(i) == Pred(i, E1000_NUM_TX)

(* What is written to TDT once the cursor is at i.                         *)
TxTail(i) == i

SendTail ==
  /\ pc = "s_tail"
  /\ TDT' = TxTail(tx_cur)
  /\ pc' = "s_wait"
  /\ UNCHANGED <<msg, rx, tx_cur, tx_done, tx_bufs, TDH, wire, link>>

(* The descriptor the call waits for: the local variable desc.             *)
Desc == Pred(tx_cur, E1000_NUM_TX)

SendDone ==
  /\ pc = "s_wait" /\ Desc \in tx_done
  /\ pc' = "s_sent"
  /\ UNCHANGED <<msg, rx, tx, link>>

(* Half a second passed: the call fails, and the frame stays in the ring.  *)
SendTimeout ==
  /\ pc = "s_wait" /\ Desc \notin tx_done
  /\ pc' = "idle"
  /\ UNCHANGED <<msg, rx, tx, link>>

(* The call returns the length.                                            *)
SendReturn ==
  /\ pc = "s_sent"
  /\ pc' = "idle"
  /\ UNCHANGED <<msg, rx, tx, link>>

----------------------------------------------------------------------------
(* The card.                                                               *)

Arrive(f) ==
  /\ RDH # RDT
  /\ rx_bufs' = [rx_bufs EXCEPT ![RDH] = f]
  /\ rx_done' = rx_done \cup {RDH}
  /\ RDH' = Succ(RDH, E1000_NUM_RX)
  /\ UNCHANGED <<pc, msg, rx_cur, RDT, buf, tx, link>>

Transmit ==
  /\ link /\ TDH # TDT
  /\ wire' = tx_bufs[TDH]
  /\ tx_done' = tx_done \cup {TDH}
  /\ TDH' = Succ(TDH, E1000_NUM_TX)
  /\ UNCHANGED <<pc, msg, rx, tx_cur, tx_bufs, TDT, link>>

LinkUp ==
  /\ ~link /\ link' = TRUE
  /\ UNCHANGED <<pc, msg, rx, tx>>

LinkDown ==
  /\ link /\ link' = FALSE
  /\ UNCHANGED <<pc, msg, rx, tx>>

Recv == RecvCopy \/ RecvClear \/ RecvTail

Send ==
  \/ \E f \in Frame : SendStart(f)
  \/ SendLink \/ SendNoLink \/ SendFill \/ SendBusy \/ SendStatus \/ SendTail
  \/ SendDone \/ SendTimeout \/ SendReturn

Card ==
  \/ \E f \in Frame : Arrive(f)
  \/ Transmit \/ LinkUp \/ LinkDown

Next == Recv \/ Send \/ Card

Spec == Init /\ [][Next]_vars

(* A call goes on until it returns.  The link comes up again each time it  *)
(* goes down, and the card, while the link comes and goes, gets on with    *)
(* the frames it can see.                                                  *)
FairSpec ==
  /\ Spec
  /\ WF_vars(pc # "idle" /\ (Recv \/ Send))
  /\ WF_vars(LinkUp)
  /\ SF_vars(Transmit)

----------------------------------------------------------------------------
(* The type invariant.                                                     *)
TypeOK ==
  /\ pc \in {"idle", "r_clear", "r_tail", "s_link", "s_slot", "s_status", "s_tail",
             "s_wait", "s_sent"}
  /\ msg \in Frame /\ buf \in Frame /\ wire \in Frame /\ link \in BOOLEAN
  /\ rx_cur \in Rx /\ RDH \in Rx /\ RDT \in Rx
  /\ rx_done \subseteq Rx /\ rx_bufs \in [Rx -> Frame]
  /\ tx_cur \in Tx /\ TDH \in Tx /\ TDT \in Tx
  /\ tx_done \subseteq Tx /\ tx_bufs \in [Tx -> Frame]

(* Descriptors from i to just before j, and the one k after i.             *)
Gap(i, j, n) == IF j >= i THEN j - i ELSE j - i + n
At(i, k, n)  == IF i + k < n THEN i + k ELSE i + k - n

(* The frames in c buffers of a ring of n, the one at h first.             *)
InRing(bufs, h, c, n) == [k \in 1 .. c |-> bufs[At(h, k - 1, n)]]

(* A received frame leaves the ring when it is copied out.                 *)
RxHead  == IF pc = "r_clear" THEN Succ(rx_cur, E1000_NUM_RX) ELSE rx_cur
RxCount == Gap(RxHead, RDH, E1000_NUM_RX)
RxQueue == InRing(rx_bufs, RxHead, RxCount, E1000_NUM_RX)

(* A frame to send enters the ring when its descriptor's status is         *)
(* cleared.  All of the ring may wait; the DD bit at the head tells that   *)
(* from nothing.                                                           *)
TxCount == IF TDH \in tx_done THEN 0
           ELSE IF tx_cur > TDH THEN tx_cur - TDH ELSE tx_cur - TDH + E1000_NUM_TX
TxQueue == InRing(tx_bufs, TDH, TxCount, E1000_NUM_TX)

Received    == INSTANCE FrameQueue WITH queue <- RxQueue, taken <- buf,
                                        Capacity <- E1000_NUM_RX - 1
Transmitted == INSTANCE FrameQueue WITH queue <- TxQueue, taken <- wire,
                                        Capacity <- E1000_NUM_TX

(* The frames the card took in come out of e1000_recv in that order, each  *)
(* of them once and whole, however the card and the driver interleave:     *)
(* no buffer is overwritten before it was copied.                          *)
ReceivesInOrder == Received!Spec

(* The frames e1000_send put in the ring, those of calls that timed out    *)
(* too, go out in that order, each of them once and whole: no buffer is    *)
(* filled again before the card has sent it.                               *)
SendsInOrder == Transmitted!Spec

(* Between calls the receive ring cannot be stuck: if any frame waits, the *)
(* one at the cursor does, so e1000_recv does not return 0; if none waits, *)
(* the card has a descriptor for the next.                                 *)
ReceiveNeverStuck ==
  pc = "idle" => IF rx_done # {} THEN rx_cur \in rx_done ELSE RDH # RDT

(* When e1000_send reports success every frame given to the card before    *)
(* has been transmitted as well, also those whose calls reported failure.  *)
SuccessFlushes == pc = "s_sent" => tx_done = Tx

(* Every descriptor waits, and to the card the ring is empty.              *)
Wedged == tx_done = {} /\ TDH = TDT /\ pc # "s_tail"

(* e1000_send finds its descriptor busy only when the card no longer sees  *)
(* any frame: the wait for it can never end well.                          *)
BusyMeansWedged == pc = "s_slot" /\ tx_cur \notin tx_done => Wedged

(* A frame put in the ring is transmitted, unless the ring fills up.       *)
QueuedIsSent ==
  \A d \in Tx : d \notin tx_done ~> d \in tx_done \/ Wedged

(* The comment at e1000.c:143 has the card refuse to transmit "until the   *)
(* link is genuinely up": a frame put in the ring goes out after all once  *)
(* the link stays up.                                                      *)
TransmittedOnceLinkUp ==
  \A d \in Tx : (d \notin tx_done /\ []<>link) ~> d \in tx_done
=============================================================================
