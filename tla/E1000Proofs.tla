---------------------------- MODULE E1000Proofs ----------------------------
(***************************************************************************)
(* Proofs about E1000, for rings of every size and for every set of        *)
(* frames: the type invariant, the shape of both rings, and that each      *)
(* direction implements FrameQueue.                                        *)
(***************************************************************************)
EXTENDS E1000, SequenceTheorems, TLAPS

(* The descriptors from a to just before b, round the end of the ring.     *)
Between(i, a, b) == IF a <= b THEN a <= i /\ i < b ELSE i >= a \/ i < b

(* The receive ring: the descriptors that are done are those from the      *)
(* cursor to the card's head, and the tail register is one behind the      *)
(* cursor, or two while e1000_recv has still to write it.  The card never  *)
(* gets to the tail.                                                       *)
RxInv ==
  /\ \A i \in Rx : i \in rx_done <=> Between(i, rx_cur, RDH)
  /\ pc = "r_clear" => rx_cur \in rx_done
  /\ pc # "r_tail" => RDT = Pred(rx_cur, E1000_NUM_RX)
  /\ pc = "r_tail" => /\ RDT = Pred(Pred(rx_cur, E1000_NUM_RX), E1000_NUM_RX)
                      /\ RDH # Pred(rx_cur, E1000_NUM_RX)

(* The transmit ring: nothing waits and the card's head is at the cursor,  *)
(* or the descriptors from the head to the cursor wait, all of them when   *)
(* the two are equal.                                                      *)
TxInv ==
  /\ TDH \in tx_done => TDH = tx_cur /\ tx_done = Tx
  /\ TDH \notin tx_done =>
       \A i \in Tx : i \notin tx_done <=> TDH = tx_cur \/ Between(i, TDH, tx_cur)
  /\ pc # "s_tail" => TDT = tx_cur
  /\ pc = "s_tail" => TDT = Pred(tx_cur, E1000_NUM_TX) /\ TDT \notin tx_done
  /\ pc = "s_status" => tx_cur \in tx_done
  /\ pc = "s_sent" => tx_done = Tx

(* Cursors stay in their ring, and Pred undoes Succ.                       *)
LEMMA RingCursor ==
  ASSUME NEW n \in Nat, n >= 2, NEW i \in 0 .. n - 1
  PROVE  /\ Succ(i, n) \in 0 .. n - 1 /\ Pred(i, n) \in 0 .. n - 1
         /\ Pred(Succ(i, n), n) = i /\ Succ(Pred(i, n), n) = i
         /\ Succ(i, n) # i /\ Pred(i, n) # i
BY DEF Succ, Pred

LEMMA RxCursor ==
  ASSUME NEW i \in Rx
  PROVE  Succ(i, E1000_NUM_RX) \in Rx /\ Pred(i, E1000_NUM_RX) \in Rx
BY RingCursor, RingAssumption DEF Rx

LEMMA TxCursor ==
  ASSUME NEW i \in Tx
  PROVE  Succ(i, E1000_NUM_TX) \in Tx /\ Pred(i, E1000_NUM_TX) \in Tx
BY RingCursor, RingAssumption DEF Tx

LEMMA TypeInit == Init => TypeOK
BY RingAssumption DEF Init, TypeOK, Rx, Tx

LEMMA TypeStep == TypeOK /\ [Next]_vars => TypeOK'
<1> SUFFICES ASSUME TypeOK, [Next]_vars
             PROVE  TypeOK'
  OBVIOUS
<1>1. CASE Recv
  BY <1>1, RxCursor DEF TypeOK, Recv, RecvCopy, RecvClear, RecvTail, RxTail, tx
<1>2. CASE Send
  BY <1>2, TxCursor DEF TypeOK, Send, SendStart, SendLink, SendNoLink, SendFill, SendBusy,
       SendStatus, SendTail, SendDone, SendTimeout, SendReturn, TxTail, rx, tx
<1>3. CASE Card
  BY <1>3, RxCursor, TxCursor DEF TypeOK, Card, Arrive, Transmit, LinkUp, LinkDown, rx, tx
<1>4. CASE UNCHANGED vars
  BY <1>4 DEF TypeOK, vars
<1> QED BY <1>1, <1>2, <1>3, <1>4 DEF Next

(* Every cursor, register and buffer is what its declaration says.         *)
THEOREM TypeCorrect == Spec => []TypeOK
BY TypeInit, TypeStep, PTL DEF Spec

----------------------------------------------------------------------------
(* The receive ring.                                                       *)

LEMMA RxInit == Init => RxInv
BY RingAssumption DEF Init, RxInv, Rx, Between, Pred

LEMMA RxClear == TypeOK /\ RxInv /\ RecvClear => RxInv'
<1> SUFFICES ASSUME TypeOK, RxInv, RecvClear
             PROVE  RxInv'
  OBVIOUS
<1> DEFINE n == E1000_NUM_RX
<1>1. /\ n \in Nat /\ n >= 2 /\ rx_cur \in 0 .. n - 1 /\ RDH \in 0 .. n - 1
      /\ rx_done \subseteq Rx
  BY RingAssumption DEF TypeOK, Rx
<1>2. /\ rx_cur' = Succ(rx_cur, n) /\ RDH' = RDH /\ RDT' = RDT
      /\ rx_done' = rx_done \ {rx_cur} /\ pc' = "r_tail" /\ rx_cur \in rx_done
      /\ RDT = Pred(rx_cur, n)
  BY DEF RecvClear, RxInv
<1>3. rx_cur # RDH
  BY <1>1, <1>2 DEF RxInv, Between, Rx
<1>4. \A i \in Rx : i \in rx_done' <=> Between(i, rx_cur', RDH')
  BY <1>1, <1>2, <1>3 DEF RxInv, Between, Rx, Succ
<1>5. RDT' = Pred(Pred(rx_cur', n), n) /\ RDH' # Pred(rx_cur', n)
  BY <1>1, <1>2, <1>3, RingCursor
<1> QED BY <1>2, <1>4, <1>5 DEF RxInv

LEMMA RxArrive == \A f \in Frame : TypeOK /\ RxInv /\ Arrive(f) => RxInv'
<1> SUFFICES ASSUME NEW f \in Frame, TypeOK, RxInv, Arrive(f)
             PROVE  RxInv'
  OBVIOUS
<1> DEFINE n == E1000_NUM_RX
<1>1. /\ n \in Nat /\ n >= 2 /\ rx_cur \in 0 .. n - 1 /\ RDH \in 0 .. n - 1
      /\ RDT \in 0 .. n - 1 /\ rx_done \subseteq Rx
  BY RingAssumption DEF TypeOK, Rx
<1>2. /\ rx_cur' = rx_cur /\ RDH' = Succ(RDH, n) /\ RDT' = RDT /\ RDH # RDT
      /\ rx_done' = rx_done \cup {RDH} /\ pc' = pc
  BY DEF Arrive
<1>3. RDH # Pred(rx_cur, n)
  BY <1>2 DEF RxInv
<1>4. RDH' # rx_cur
  BY <1>1, <1>2, <1>3 DEF Succ, Pred
<1>5. \A i \in Rx : i \in rx_done' <=> Between(i, rx_cur', RDH')
  BY <1>1, <1>2, <1>4 DEF RxInv, Between, Rx, Succ
<1>6. pc = "r_tail" => RDH' # Pred(rx_cur', n)
  BY <1>1, <1>2 DEF RxInv, Succ, Pred
<1> QED BY <1>2, <1>5, <1>6 DEF RxInv

LEMMA RxStep == TypeOK /\ RxInv /\ [Next]_vars => RxInv'
<1> SUFFICES ASSUME TypeOK, RxInv, [Next]_vars
             PROVE  RxInv'
  OBVIOUS
<1>1. CASE RecvCopy
  BY <1>1 DEF RecvCopy, RxInv
<1>2. CASE RecvClear
  BY <1>2, RxClear
<1>3. CASE RecvTail
  BY <1>3 DEF RecvTail, RxInv, RxTail
<1>4. CASE Send
  BY <1>4 DEF Send, SendStart, SendLink, SendNoLink, SendFill, SendBusy, SendStatus, SendTail,
       SendDone, SendTimeout, SendReturn, RxInv, rx
<1>5. ASSUME NEW f \in Frame, Arrive(f) PROVE RxInv'
  BY <1>5, RxArrive
<1>6. CASE Transmit \/ LinkUp \/ LinkDown
  BY <1>6 DEF Transmit, LinkUp, LinkDown, RxInv, rx
<1>7. CASE UNCHANGED vars
  BY <1>7 DEF RxInv, vars
<1> QED BY <1>1, <1>2, <1>3, <1>4, <1>5, <1>6, <1>7 DEF Next, Recv, Card

(* The shape of the receive ring holds in every state.                     *)
THEOREM RxShape == Spec => [](TypeOK /\ RxInv)
BY TypeInit, TypeStep, RxInit, RxStep, PTL DEF Spec

LEMMA RxInvSuffices == TypeOK /\ RxInv => ReceiveNeverStuck
<1> SUFFICES ASSUME TypeOK, RxInv, pc = "idle"
             PROVE  IF rx_done # {} THEN rx_cur \in rx_done ELSE RDH # RDT
  BY DEF ReceiveNeverStuck
<1> DEFINE n == E1000_NUM_RX
<1>1. /\ n \in Nat /\ n >= 2 /\ rx_cur \in 0 .. n - 1 /\ RDH \in 0 .. n - 1
      /\ rx_done \subseteq Rx
  BY RingAssumption DEF TypeOK, Rx
<1>2. CASE rx_cur = RDH
  <2>1. rx_done = {}
    BY <1>1, <1>2 DEF RxInv, Between, Rx
  <2>2. RDT = Pred(rx_cur, n)
    BY DEF RxInv
  <2> QED BY <1>1, <1>2, <2>1, <2>2, RingCursor
<1>3. CASE rx_cur # RDH
  BY <1>1, <1>3 DEF RxInv, Between, Rx
<1> QED BY <1>2, <1>3

(* Between calls the receive ring is never stuck: a waiting frame is at    *)
(* the cursor, and with none waiting the card has a descriptor.            *)
THEOREM NeverStuck == Spec => []ReceiveNeverStuck
BY RxShape, RxInvSuffices, PTL

----------------------------------------------------------------------------
(* The transmit ring.                                                      *)

LEMMA TxInit == Init => TxInv
BY RingAssumption DEF Init, TxInv, Tx

LEMMA TxStatus == TypeOK /\ TxInv /\ SendStatus => TxInv'
<1> SUFFICES ASSUME TypeOK, TxInv, SendStatus
             PROVE  TxInv'
  OBVIOUS
<1> DEFINE n == E1000_NUM_TX
<1>1. /\ n \in Nat /\ n >= 2 /\ tx_cur \in 0 .. n - 1 /\ TDH \in 0 .. n - 1
      /\ tx_done \subseteq Tx
  BY RingAssumption DEF TypeOK, Tx
<1>2. /\ tx_cur' = Succ(tx_cur, n) /\ TDH' = TDH /\ TDT' = TDT
      /\ tx_done' = tx_done \ {tx_cur} /\ pc' = "s_tail" /\ tx_cur \in tx_done
      /\ TDT = tx_cur
  BY DEF SendStatus, TxInv
<1>3. TDT' = Pred(tx_cur', n) /\ TDT' \notin tx_done'
  BY <1>1, <1>2, RingCursor
<1>4. CASE TDH \in tx_done
  <2>1. TDH = tx_cur /\ tx_done = Tx
    BY <1>4 DEF TxInv
  <2>2. \A i \in Tx : i \notin tx_done' <=> Between(i, TDH', tx_cur')
    BY <1>1, <1>2, <2>1 DEF Between, Succ, Tx
  <2>3. TDH' # tx_cur' /\ TDH' \notin tx_done'
    BY <1>1, <1>2, <2>1, RingCursor
  <2> QED BY <1>2, <1>3, <2>2, <2>3 DEF TxInv
<1>5. CASE TDH \notin tx_done
  <2>1. TDH # tx_cur
    BY <1>2, <1>5
  <2>2. \A i \in Tx : i \notin tx_done <=> Between(i, TDH, tx_cur)
    BY <1>5, <2>1 DEF TxInv
  <2>3. \A i \in Tx : i \notin tx_done' <=> TDH' = tx_cur' \/ Between(i, TDH', tx_cur')
    BY <1>1, <1>2, <2>1, <2>2 DEF Between, Succ, Tx
  <2>4. TDH' \notin tx_done'
    BY <1>2, <1>5
  <2> QED BY <1>2, <1>3, <2>3, <2>4 DEF TxInv
<1> QED BY <1>4, <1>5

LEMMA TxTransmit == TypeOK /\ TxInv /\ Transmit => TxInv'
<1> SUFFICES ASSUME TypeOK, TxInv, Transmit
             PROVE  TxInv'
  OBVIOUS
<1> DEFINE n == E1000_NUM_TX
<1>1. /\ n \in Nat /\ n >= 2 /\ tx_cur \in 0 .. n - 1 /\ TDH \in 0 .. n - 1
      /\ tx_done \subseteq Tx /\ TDT \in Tx
  BY RingAssumption DEF TypeOK, Tx
<1>2. /\ tx_cur' = tx_cur /\ TDH' = Succ(TDH, n) /\ TDT' = TDT /\ pc' = pc
      /\ tx_done' = tx_done \cup {TDH} /\ TDH # TDT
  BY DEF Transmit
<1>3. TDH \notin tx_done
  BY <1>1, <1>2 DEF TxInv, Tx
<1>4. \A i \in Tx : i \notin tx_done <=> TDH = tx_cur \/ Between(i, TDH, tx_cur)
  BY <1>3 DEF TxInv
<1>5. TDH' = tx_cur => tx_done' = Tx
  <2> SUFFICES ASSUME TDH' = tx_cur
               PROVE  tx_done' = Tx
    OBVIOUS
  <2>1. \A i \in Tx : i # TDH => i \in tx_done
    BY <1>1, <1>2, <1>4 DEF Between, Succ, Tx
  <2> QED BY <1>1, <1>2, <2>1 DEF Tx
<1>6. TDH' # tx_cur =>
        /\ TDH' \notin tx_done'
        /\ \A i \in Tx : i \notin tx_done' <=> Between(i, TDH', tx_cur')
  BY <1>1, <1>2, <1>3, <1>4 DEF Between, Succ, Tx
<1>7. pc = "s_tail" => TDT' \notin tx_done'
  BY <1>2 DEF TxInv
<1>8. pc # "s_sent"
  BY <1>1, <1>3 DEF TxInv, Tx
<1>9. TDH' \in Tx
  BY <1>1, <1>2, TxCursor DEF Tx
<1> QED BY <1>2, <1>5, <1>6, <1>7, <1>8, <1>9 DEF TxInv

LEMMA TxSent == TypeOK /\ TxInv /\ SendDone => TxInv'
<1> SUFFICES ASSUME TypeOK, TxInv, SendDone
             PROVE  TxInv'
  OBVIOUS
<1> DEFINE n == E1000_NUM_TX
<1>1. /\ n \in Nat /\ n >= 2 /\ tx_cur \in 0 .. n - 1 /\ TDH \in 0 .. n - 1
      /\ Pred(tx_cur, n) \in tx_done
  BY RingAssumption DEF TypeOK, Tx, SendDone, Desc
<1>2. TDH \in tx_done
  BY <1>1, RingCursor DEF TxInv, Between, Pred, Tx
<1> QED BY <1>2 DEF TxInv, SendDone, tx

LEMMA TxStep == TypeOK /\ TxInv /\ [Next]_vars => TxInv'
<1> SUFFICES ASSUME TypeOK, TxInv, [Next]_vars
             PROVE  TxInv'
  OBVIOUS
<1>1. CASE Recv
  BY <1>1 DEF Recv, RecvCopy, RecvClear, RecvTail, TxInv, tx
<1>2. CASE \E f \in Frame : SendStart(f)
  BY <1>2 DEF SendStart, TxInv, tx
<1>3. CASE SendLink \/ SendNoLink \/ SendBusy \/ SendTimeout \/ SendReturn
  BY <1>3 DEF SendLink, SendNoLink, SendBusy, SendTimeout, SendReturn, TxInv, tx
<1>4. CASE SendFill
  BY <1>4 DEF SendFill, SlotFree, TxInv
<1>5. CASE SendStatus
  BY <1>5, TxStatus
<1>6. CASE SendTail
  BY <1>6 DEF SendTail, TxTail, TxInv
<1>7. CASE SendDone
  BY <1>7, TxSent
<1>8. CASE Transmit
  BY <1>8, TxTransmit
<1>9. CASE LinkUp \/ LinkDown \/ \E f \in Frame : Arrive(f)
  BY <1>9 DEF LinkUp, LinkDown, Arrive, TxInv, tx
<1>10. CASE UNCHANGED vars
  BY <1>10 DEF TxInv, vars
<1> QED BY <1>1, <1>2, <1>3, <1>4, <1>5, <1>6, <1>7, <1>8, <1>9, <1>10 DEF Next, Send, Card

(* The shape of the transmit ring holds in every state.                    *)
THEOREM TxShape == Spec => [](TypeOK /\ TxInv)
BY TypeInit, TypeStep, TxInit, TxStep, PTL DEF Spec

(* e1000_send reports success only when every frame before has gone out.   *)
THEOREM SuccessIsFlushed == Spec => []SuccessFlushes
<1>1. TypeOK /\ TxInv => SuccessFlushes
  BY DEF TxInv, SuccessFlushes
<1> QED BY <1>1, TxShape, PTL

(* e1000_send finds its descriptor busy only when the ring is wedged.      *)
THEOREM BusyIsWedged == Spec => []BusyMeansWedged
<1>1. TypeOK /\ TxInv => BusyMeansWedged
  <2> SUFFICES ASSUME TypeOK, TxInv, pc = "s_slot", tx_cur \notin tx_done
               PROVE  Wedged
    BY DEF BusyMeansWedged
  <2>1. tx_cur \in Tx /\ TDH \in Tx /\ tx_done \subseteq Tx
    BY DEF TypeOK
  <2>2. TDT = tx_cur /\ TDH \notin tx_done
    BY <2>1 DEF TxInv
  <2>3. TDH = tx_cur
    BY <2>1, <2>2, RingAssumption DEF TxInv, Between, Tx
  <2>4. tx_done = {}
    BY <2>1, <2>2, <2>3 DEF TxInv
  <2> QED BY <2>2, <2>3, <2>4 DEF Wedged
<1> QED BY <1>1, TxShape, PTL

----------------------------------------------------------------------------
(* What is in a ring, as a sequence.                                       *)

LEMMA RingIsSeq ==
  ASSUME NEW n \in Nat, n >= 2, NEW h \in 0 .. n - 1, NEW c \in 0 .. n,
         NEW bufs \in [0 .. n - 1 -> Frame]
  PROVE  /\ InRing(bufs, h, c, n) \in Seq(Frame)
         /\ Len(InRing(bufs, h, c, n)) = c
         /\ \A k \in 1 .. c : InRing(bufs, h, c, n)[k] = bufs[At(h, k - 1, n)]
<1>1. \A k \in 1 .. c : At(h, k - 1, n) \in 0 .. n - 1
  BY DEF At
<1>2. InRing(bufs, h, c, n) \in [1 .. c -> Frame]
  BY <1>1 DEF InRing
<1>3. InRing(bufs, h, c, n) \in Seq(Frame) /\ Len(InRing(bufs, h, c, n)) = c
  BY <1>2
<1> QED BY <1>3 DEF InRing

LEMMA RingSame ==
  ASSUME NEW n \in Nat, n >= 2, NEW h \in 0 .. n - 1, NEW c \in 0 .. n,
         NEW bufs, NEW new,
         \A k \in 1 .. c : new[At(h, k - 1, n)] = bufs[At(h, k - 1, n)]
  PROVE  InRing(new, h, c, n) = InRing(bufs, h, c, n)
BY DEF InRing

(* One more buffer of the ring: Append.                                    *)
LEMMA RingPut ==
  ASSUME NEW n \in Nat, n >= 2, NEW h \in 0 .. n - 1, NEW c \in 0 .. n - 1,
         NEW bufs \in [0 .. n - 1 -> Frame], NEW new \in [0 .. n - 1 -> Frame],
         \A k \in 1 .. c : new[At(h, k - 1, n)] = bufs[At(h, k - 1, n)]
  PROVE  InRing(new, h, c + 1, n) = Append(InRing(bufs, h, c, n), new[At(h, c, n)])
<1> DEFINE s == InRing(bufs, h, c, n)
           t == InRing(new, h, c + 1, n)
           f == new[At(h, c, n)]
<1>1. /\ s \in Seq(Frame) /\ Len(s) = c
      /\ \A k \in 1 .. c : s[k] = bufs[At(h, k - 1, n)]
  <2>1. c \in 0 .. n
    OBVIOUS
  <2> QED BY <2>1, RingIsSeq
<1>2. /\ t \in Seq(Frame) /\ Len(t) = c + 1
      /\ \A k \in 1 .. c + 1 : t[k] = new[At(h, k - 1, n)]
  <2>1. c + 1 \in 0 .. n
    OBVIOUS
  <2> QED BY <2>1, RingIsSeq
<1>3. f \in Frame
  <2>1. At(h, c, n) \in 0 .. n - 1
    BY DEF At
  <2> QED BY <2>1
<1> HIDE DEF s, t, f
<1>4. /\ Append(s, f) \in Seq(Frame) /\ Len(Append(s, f)) = c + 1
      /\ \A k \in 1 .. c : Append(s, f)[k] = s[k]
      /\ Append(s, f)[c + 1] = f
  BY <1>1, <1>3, AppendProperties
<1>5. \A k \in 1 .. c + 1 : t[k] = Append(s, f)[k]
  <2> SUFFICES ASSUME NEW k \in 1 .. c + 1
               PROVE  t[k] = Append(s, f)[k]
    OBVIOUS
  <2>1. CASE k \in 1 .. c
    BY <1>1, <1>2, <1>4, <2>1
  <2>2. CASE k = c + 1
    <3>1. (c + 1) - 1 = c
      OBVIOUS
    <3>2. t[c + 1] = f
      BY <1>2, <2>2, <3>1 DEF f
    <3> QED BY <1>4, <2>2, <3>2
  <2>3. k \in 1 .. c \/ k = c + 1
    OBVIOUS
  <2> QED BY <2>1, <2>2, <2>3
<1>6. t = Append(s, f)
  BY <1>2, <1>4, <1>5, SeqEqual
<1> QED BY <1>6 DEF s, t, f

(* One less at the head: Tail.                                             *)
LEMMA RingTake ==
  ASSUME NEW n \in Nat, n >= 2, NEW h \in 0 .. n - 1, NEW c \in 1 .. n,
         NEW bufs \in [0 .. n - 1 -> Frame]
  PROVE  /\ InRing(bufs, h, c, n) # << >>
         /\ Head(InRing(bufs, h, c, n)) = bufs[h]
         /\ Tail(InRing(bufs, h, c, n)) = InRing(bufs, Succ(h, n), c - 1, n)
<1> DEFINE s == InRing(bufs, h, c, n)
           t == InRing(bufs, Succ(h, n), c - 1, n)
<1>1. /\ s \in Seq(Frame) /\ Len(s) = c
      /\ \A k \in 1 .. c : s[k] = bufs[At(h, k - 1, n)]
  <2>1. c \in 0 .. n
    OBVIOUS
  <2> QED BY <2>1, RingIsSeq
<1>2. /\ t \in Seq(Frame) /\ Len(t) = c - 1
      /\ \A k \in 1 .. c - 1 : t[k] = bufs[At(Succ(h, n), k - 1, n)]
  <2>1. c - 1 \in 0 .. n /\ Succ(h, n) \in 0 .. n - 1
    BY DEF Succ
  <2> QED BY <2>1, RingIsSeq
<1>3. \A k \in 1 .. c - 1 : At(Succ(h, n), k - 1, n) = At(h, k, n)
  BY DEF At, Succ
<1>4. At(h, 0, n) = h
  BY DEF At
<1> HIDE DEF s, t
<1>5. s # << >>
  BY <1>1
<1>6. Head(s) = bufs[h]
  <2>1. 1 \in 1 .. c /\ 1 - 1 = 0
    OBVIOUS
  <2>2. s[1] = bufs[h]
    BY <1>1, <1>4, <2>1
  <2> QED BY <1>1, <1>5, <2>2
<1>7. /\ Tail(s) \in Seq(Frame) /\ Len(Tail(s)) = c - 1
      /\ \A k \in 1 .. c - 1 : Tail(s)[k] = s[k + 1]
  BY <1>1, <1>5, HeadTailProperties
<1>8. \A k \in 1 .. c - 1 : Tail(s)[k] = t[k]
  <2> SUFFICES ASSUME NEW k \in 1 .. c - 1
               PROVE  Tail(s)[k] = t[k]
    OBVIOUS
  <2>1. k + 1 \in 1 .. c /\ (k + 1) - 1 = k
    OBVIOUS
  <2> QED BY <1>1, <1>2, <1>3, <1>7, <2>1
<1>9. Tail(s) = t
  BY <1>2, <1>7, <1>8, SeqEqual
<1> QED BY <1>5, <1>6, <1>9 DEF s, t

----------------------------------------------------------------------------
(* Each step of the driver and of the card, seen from the receive queue.   *)

LEMMA RxCopyTakes == TypeOK /\ RxInv /\ RecvCopy => Received!Take
<1> SUFFICES ASSUME TypeOK, RxInv, RecvCopy
             PROVE  Received!Take
  OBVIOUS
<1> DEFINE n == E1000_NUM_RX
           c == Gap(rx_cur, RDH, n)
<1>1. /\ n \in Nat /\ n >= 2 /\ rx_cur \in 0 .. n - 1 /\ RDH \in 0 .. n - 1
      /\ rx_bufs \in [0 .. n - 1 -> Frame]
  BY RingAssumption DEF TypeOK, Rx
<1>2. /\ RxHead = rx_cur /\ RxHead' = Succ(rx_cur, n) /\ RDH' = RDH
      /\ rx_bufs' = rx_bufs /\ buf' = rx_bufs[rx_cur]
  BY DEF RecvCopy, RxHead
<1>3. rx_cur # RDH
  BY <1>1 DEF RecvCopy, RxInv, Between, Rx
<1>4. c \in 1 .. n /\ Gap(Succ(rx_cur, n), RDH, n) = c - 1
  BY <1>1, <1>3 DEF Gap, Succ
<1>5. /\ RxQueue = InRing(rx_bufs, rx_cur, c, n)
      /\ RxQueue' = InRing(rx_bufs, Succ(rx_cur, n), c - 1, n)
  BY <1>2, <1>4 DEF RxQueue, RxCount
<1> HIDE DEF c
<1>6. /\ RxQueue # << >> /\ Head(RxQueue) = rx_bufs[rx_cur]
      /\ Tail(RxQueue) = RxQueue'
  BY <1>1, <1>4, <1>5, RingTake
<1> QED BY <1>2, <1>6 DEF Received!Take

LEMMA RxClearKeeps == TypeOK /\ RecvClear => UNCHANGED <<RxQueue, buf>>
BY DEF RecvClear, RxQueue, RxCount, RxHead

LEMMA RxArrivePuts == \A f \in Frame : TypeOK /\ RxInv /\ Arrive(f) => Received!Put(f)
<1> SUFFICES ASSUME NEW f \in Frame, TypeOK, RxInv, Arrive(f)
             PROVE  Received!Put(f)
  OBVIOUS
<1> DEFINE n == E1000_NUM_RX
           h == RxHead
           c == Gap(h, RDH, n)
<1>1. /\ n \in Nat /\ n >= 2 /\ rx_cur \in 0 .. n - 1 /\ RDH \in 0 .. n - 1
      /\ rx_bufs \in [0 .. n - 1 -> Frame]
  BY RingAssumption DEF TypeOK, Rx
<1>2. /\ RDH # RDT /\ RDH' = Succ(RDH, n) /\ rx_bufs' = [rx_bufs EXCEPT ![RDH] = f]
      /\ pc' = pc /\ rx_cur' = rx_cur /\ RxHead' = h /\ buf' = buf
  BY DEF Arrive, RxHead
<1>3. RDH # Pred(rx_cur, n)
  BY <1>2 DEF RxInv
<1>4. pc = "r_clear" => RDH # rx_cur
  BY <1>1 DEF RxInv, Between, Rx
<1>5. h \in 0 .. n - 1 /\ c \in 0 .. n - 2 /\ Gap(h, RDH', n) = c + 1
  BY <1>1, <1>2, <1>3, <1>4 DEF RxHead, Gap, Succ, Pred
<1>6. At(h, c, n) = RDH /\ \A k \in 1 .. c : At(h, k - 1, n) # RDH
  BY <1>1, <1>5 DEF Gap, At
<1>7. /\ RxQueue = InRing(rx_bufs, h, c, n)
      /\ RxQueue' = InRing(rx_bufs', h, c + 1, n)
  BY <1>2, <1>5 DEF RxQueue, RxCount
<1>8. rx_bufs' \in [0 .. n - 1 -> Frame] /\ rx_bufs'[RDH] = f
  BY <1>1, <1>2
<1>9. \A k \in 1 .. c : rx_bufs'[At(h, k - 1, n)] = rx_bufs[At(h, k - 1, n)]
  <2> SUFFICES ASSUME NEW k \in 1 .. c
               PROVE  rx_bufs'[At(h, k - 1, n)] = rx_bufs[At(h, k - 1, n)]
    OBVIOUS
  <2>1. At(h, k - 1, n) \in 0 .. n - 1
    BY <1>1, <1>5 DEF At
  <2> QED BY <1>1, <1>2, <1>6, <2>1
<1> HIDE DEF h, c
<1>10. c \in 0 .. n - 1 /\ c \in 0 .. n
  BY <1>1, <1>5
<1>11. RxQueue' = Append(RxQueue, f)
  BY <1>1, <1>5, <1>6, <1>7, <1>8, <1>9, <1>10, RingPut
<1>12. Len(RxQueue) < n - 1
  BY <1>1, <1>5, <1>7, <1>10, RingIsSeq
<1> QED BY <1>2, <1>11, <1>12 DEF Received!Put

LEMMA RxOthersKeep ==
  TypeOK /\ RxInv /\ (RecvTail \/ Send \/ Transmit \/ LinkUp \/ LinkDown \/ UNCHANGED vars)
    => UNCHANGED <<RxQueue, buf>>
<1> SUFFICES ASSUME RecvTail \/ Send \/ Transmit \/ LinkUp \/ LinkDown \/ UNCHANGED vars
             PROVE  UNCHANGED <<RxQueue, buf>>
  OBVIOUS
<1>1. UNCHANGED <<rx_cur, rx_bufs, RDH, buf>>
  BY DEF RecvTail, Send, SendStart, SendLink, SendNoLink, SendFill, SendBusy, SendStatus,
         SendTail, SendDone, SendTimeout, SendReturn, Transmit, LinkUp, LinkDown, rx, vars
<1>2. pc = "r_clear" <=> pc' = "r_clear"
  BY DEF RecvTail, Send, SendStart, SendLink, SendNoLink, SendFill, SendBusy, SendStatus,
         SendTail, SendDone, SendTimeout, SendReturn, Transmit, LinkUp, LinkDown, vars
<1> QED BY <1>1, <1>2 DEF RxQueue, RxCount, RxHead

(* The frames the card takes in come out of e1000_recv in order, each of   *)
(* them once: the receive ring implements FrameQueue.                      *)
THEOREM ReceiveImplementsQueue == Spec => ReceivesInOrder
<1>1. Init => Received!Init
  <2> SUFFICES ASSUME Init PROVE RxQueue = << >> /\ buf \in Frame
    BY DEF Received!Init
  <2>1. RxCount = 0
    BY DEF Init, RxCount, RxHead, Gap
  <2> QED BY <2>1 DEF Init, RxQueue, InRing
<1>2. TypeOK /\ RxInv /\ [Next]_vars => [Received!Next]_<<RxQueue, buf>>
  BY RxCopyTakes, RxClearKeeps, RxArrivePuts, RxOthersKeep
     DEF Next, Recv, Card, Received!Next
<1> QED BY <1>1, <1>2, RxShape, PTL DEF Spec, ReceivesInOrder, Received!Spec

----------------------------------------------------------------------------
(* Each step of the driver and of the card, seen from the transmit queue.  *)

(* The buffer at the cursor holds the frame about to be queued.            *)
TxFilled == pc = "s_status" => tx_bufs[tx_cur] = msg

LEMMA TxFilledStep == TypeOK /\ TxFilled /\ [Next]_vars => TxFilled'
BY DEF TypeOK, TxFilled, Next, Recv, RecvCopy, RecvClear, RecvTail, Send, SendStart, SendLink,
       SendNoLink, SendFill, SendBusy, SendStatus, SendTail, SendDone, SendTimeout, SendReturn,
       Card, Arrive, Transmit, LinkUp, LinkDown, rx, tx, vars

LEMMA TxNumbers ==
  ASSUME TypeOK, TxInv
  PROVE  /\ TxCount \in 0 .. E1000_NUM_TX
         /\ TDH \in tx_done => TxCount = 0
         /\ TDH \notin tx_done => TxCount \in 1 .. E1000_NUM_TX
         /\ TDH \notin tx_done /\ tx_cur \in tx_done => TDH # tx_cur
BY RingAssumption DEF TypeOK, TxCount, Tx

LEMMA TxStatusPuts == TypeOK /\ TxInv /\ TxFilled /\ SendStatus => Transmitted!Put(msg)
<1> SUFFICES ASSUME TypeOK, TxInv, TxFilled, SendStatus
             PROVE  Transmitted!Put(msg)
  OBVIOUS
<1> DEFINE n == E1000_NUM_TX
           c == TxCount
<1>1. /\ n \in Nat /\ n >= 2 /\ tx_cur \in 0 .. n - 1 /\ TDH \in 0 .. n - 1
      /\ tx_bufs \in [0 .. n - 1 -> Frame] /\ tx_done \subseteq 0 .. n - 1
  BY RingAssumption DEF TypeOK, Tx
<1>2. /\ tx_cur' = Succ(tx_cur, n) /\ TDH' = TDH /\ tx_bufs' = tx_bufs /\ wire' = wire
      /\ tx_done' = tx_done \ {tx_cur} /\ tx_cur \in tx_done /\ tx_bufs[tx_cur] = msg
  BY DEF SendStatus, TxInv, TxFilled
<1>3. TDH \notin tx_done'
  BY <1>2 DEF TxInv
<1>4. c \in 0 .. n - 1 /\ TxCount' = c + 1 /\ At(TDH, c, n) = tx_cur
  <2>1. CASE TDH \in tx_done
    BY <1>1, <1>2, <1>3, <2>1 DEF TxInv, TxCount, Succ, At
  <2>2. CASE TDH \notin tx_done
    BY <1>1, <1>2, <1>3, <2>2 DEF TxCount, Succ, At
  <2> QED BY <2>1, <2>2
<1>5. /\ TxQueue = InRing(tx_bufs, TDH, c, n)
      /\ TxQueue' = InRing(tx_bufs, TDH, c + 1, n)
  BY <1>2, <1>4 DEF TxQueue
<1> HIDE DEF c
<1>6. TxQueue' = Append(TxQueue, msg)
  BY <1>1, <1>2, <1>4, <1>5, RingPut
<1>7. Len(TxQueue) < n
  <2>1. c \in 0 .. n
    BY <1>1, <1>4
  <2> QED BY <1>1, <1>4, <1>5, <2>1, RingIsSeq
<1> QED BY <1>2, <1>6, <1>7 DEF Transmitted!Put

LEMMA TxTransmitTakes == TypeOK /\ TxInv /\ Transmit => Transmitted!Take
<1> SUFFICES ASSUME TypeOK, TxInv, Transmit
             PROVE  Transmitted!Take
  OBVIOUS
<1> DEFINE n == E1000_NUM_TX
           c == TxCount
<1>1. /\ n \in Nat /\ n >= 2 /\ tx_cur \in 0 .. n - 1 /\ TDH \in 0 .. n - 1
      /\ tx_bufs \in [0 .. n - 1 -> Frame] /\ tx_done \subseteq Tx /\ TDT \in Tx
  BY RingAssumption DEF TypeOK, Tx
<1>2. /\ tx_cur' = tx_cur /\ TDH' = Succ(TDH, n) /\ tx_bufs' = tx_bufs
      /\ tx_done' = tx_done \cup {TDH} /\ TDH # TDT /\ wire' = tx_bufs[TDH]
  BY DEF Transmit
<1>3. TDH \notin tx_done
  BY <1>1, <1>2 DEF TxInv, Tx
<1>4. c \in 1 .. n
  BY <1>3, TxNumbers
<1>5. \A i \in Tx : i \notin tx_done <=> TDH = tx_cur \/ Between(i, TDH, tx_cur)
  BY <1>3 DEF TxInv
<1>6. Succ(TDH, n) \in Tx /\ Succ(TDH, n) # TDH
  BY <1>1, RingCursor DEF Tx
<1>7. TxCount' = c - 1
  <2>1. CASE Succ(TDH, n) = tx_cur
    <3>1. Succ(TDH, n) \in tx_done \/ Succ(TDH, n) = TDH
      BY <1>1, <1>5, <1>6, <2>1 DEF Between, Tx
    <3>2. TxCount' = 0
      BY <1>2, <1>6, <3>1 DEF TxCount
    <3>3. c = 1
      BY <1>1, <1>3, <2>1 DEF TxCount, Succ
    <3> QED BY <3>2, <3>3
  <2>2. CASE Succ(TDH, n) # tx_cur
    <3>1. Succ(TDH, n) \notin tx_done
      BY <1>1, <1>5, <1>6, <2>2 DEF Between, Succ, Tx
    <3>2. TDH' \notin tx_done'
      BY <1>2, <1>6, <3>1
    <3> QED BY <1>1, <1>2, <1>3, <2>2, <3>2 DEF TxCount, Succ
  <2> QED BY <2>1, <2>2
<1>8. /\ TxQueue = InRing(tx_bufs, TDH, c, n)
      /\ TxQueue' = InRing(tx_bufs, Succ(TDH, n), c - 1, n)
  BY <1>2, <1>7 DEF TxQueue
<1> HIDE DEF c
<1>9. /\ TxQueue # << >> /\ Head(TxQueue) = tx_bufs[TDH] /\ Tail(TxQueue) = TxQueue'
  BY <1>1, <1>4, <1>8, RingTake
<1> QED BY <1>2, <1>9 DEF Transmitted!Take

(* The buffer e1000_send fills is none that waits.                         *)
LEMMA TxFillKeeps == TypeOK /\ TxInv /\ SendFill => UNCHANGED <<TxQueue, wire>>
<1> SUFFICES ASSUME TypeOK, TxInv, SendFill
             PROVE  UNCHANGED <<TxQueue, wire>>
  OBVIOUS
<1> DEFINE n == E1000_NUM_TX
           c == TxCount
<1>1. /\ n \in Nat /\ n >= 2 /\ tx_cur \in 0 .. n - 1 /\ TDH \in 0 .. n - 1
      /\ tx_bufs \in [0 .. n - 1 -> Frame]
  BY RingAssumption DEF TypeOK, Tx
<1>2. /\ tx_cur \in tx_done /\ tx_bufs' = [tx_bufs EXCEPT ![tx_cur] = msg]
      /\ UNCHANGED <<TDH, tx_cur, tx_done, wire>>
  BY DEF SendFill, SlotFree
<1>3. c \in 0 .. n /\ TxCount' = c
  BY <1>2, TxNumbers DEF TxCount
<1>4. \A k \in 1 .. c : At(TDH, k - 1, n) \in 0 .. n - 1 /\ At(TDH, k - 1, n) # tx_cur
  <2>1. CASE TDH \in tx_done
    BY <2>1, TxNumbers
  <2>2. CASE TDH \notin tx_done
    BY <1>1, <1>2, <2>2 DEF TxCount, At
  <2> QED BY <2>1, <2>2
<1> HIDE DEF c
<1>5. \A k \in 1 .. c : tx_bufs'[At(TDH, k - 1, n)] = tx_bufs[At(TDH, k - 1, n)]
  BY <1>1, <1>2, <1>4
<1>6. InRing(tx_bufs', TDH, c, n) = InRing(tx_bufs, TDH, c, n)
  BY <1>1, <1>3, <1>5, RingSame
<1> QED BY <1>2, <1>3, <1>6 DEF TxQueue, c

LEMMA TxOthersKeep ==
  (Recv \/ LinkUp \/ LinkDown \/ UNCHANGED vars \/ (\E f \in Frame : Arrive(f) \/ SendStart(f))
   \/ SendLink \/ SendNoLink \/ SendBusy \/ SendTail \/ SendDone \/ SendTimeout \/ SendReturn)
    => UNCHANGED <<TxQueue, wire>>
<1> SUFFICES ASSUME Recv \/ LinkUp \/ LinkDown \/ UNCHANGED vars
                    \/ (\E f \in Frame : Arrive(f) \/ SendStart(f))
                    \/ SendLink \/ SendNoLink \/ SendBusy \/ SendTail
                    \/ SendDone \/ SendTimeout \/ SendReturn
             PROVE  UNCHANGED <<TxQueue, wire>>
  OBVIOUS
<1>1. UNCHANGED <<tx_cur, tx_bufs, tx_done, TDH, wire>>
  BY DEF Recv, RecvCopy, RecvClear, RecvTail, LinkUp, LinkDown, Arrive, SendStart, SendLink,
         SendNoLink, SendBusy, SendTail, SendDone, SendTimeout, SendReturn, tx, vars
<1> QED BY <1>1 DEF TxQueue, TxCount

(* The frames e1000_send puts in the ring go out in order, each of them    *)
(* once: the transmit ring implements FrameQueue, wedged or not.           *)
THEOREM TransmitImplementsQueue == Spec => SendsInOrder
<1>1. Init => Transmitted!Init /\ TxFilled
  <2> SUFFICES ASSUME Init PROVE TxQueue = << >> /\ wire \in Frame /\ TxFilled
    BY DEF Transmitted!Init
  <2>1. TxCount = 0
    BY RingAssumption DEF Init, TxCount, Tx
  <2> QED BY <2>1 DEF Init, TxQueue, InRing, TxFilled
<1>2. TypeOK /\ TxInv /\ TxFilled /\ [Next]_vars => [Transmitted!Next]_<<TxQueue, wire>>
  <2> SUFFICES ASSUME TypeOK, TxInv, TxFilled, [Next]_vars
               PROVE  [Transmitted!Next]_<<TxQueue, wire>>
    OBVIOUS
  <2>1. CASE SendStatus
    BY <2>1, TxStatusPuts DEF TypeOK, Transmitted!Next
  <2>2. CASE Transmit
    BY <2>2, TxTransmitTakes DEF Transmitted!Next
  <2>3. CASE SendFill
    BY <2>3, TxFillKeeps
  <2> QED BY <2>1, <2>2, <2>3, TxOthersKeep DEF Next, Send, Card
<1> QED BY <1>1, <1>2, TxShape, TypeInit, TxFilledStep, PTL
        DEF Spec, SendsInOrder, Transmitted!Spec

=============================================================================
