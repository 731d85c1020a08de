----------------------------- MODULE TcpProofs ------------------------------
(***************************************************************************)
(* Proofs about Tcp: its type invariant and StreamInOrder, for every table *)
(* size, buffer size, stream and workload, as long as no sequence number   *)
(* of a peer's stream wraps around.                                        *)
(*                                                                         *)
(* StreamInOrder is not inductive: that a segment is the next one must     *)
(* follow from recv_next_seq.  StreamFollows adds it: in every state in    *)
(* which data is taken, recv_next_seq is the number of the byte after the  *)
(* last in the buffer, and a socket that is still connecting has received  *)
(* nothing.                                                                *)
(*                                                                         *)
(* The second part is about AckCoversBuffered, where threads only call or  *)
(* only listen; the third about NoSharedSocket, where nobody resets a      *)
(* connection, and about backlog_count, which a reset can bring below 0.   *)
(* Each has its invariant, stated where the part begins.                   *)
(***************************************************************************)
EXTENDS Tcp, TLAPS, SequenceTheorems, FiniteSetTheorems

(* All sequence numbers of a peer's stream, its FIN included, are distinct *)
(* and none of its data has the number 0.                                  *)
NoWrap == IRS + STREAM + 2 < SEQS

(* The states in which recv_next_seq is known and kept up to date.         *)
Synced == {"SYN_RECEIVED", "ESTABLISHED", "CLOSE_WAIT"}

StreamFollows ==
  \A k \in Slots :
    /\ got[k] + Len(recv_buf[k]) <= STREAM
    /\ state[k] = "SYN_SENT" => got[k] = 0 /\ recv_buf[k] = <<>>
    /\ state[k] \in Synced => recv_next_seq[k] = SeqOf(got[k] + Len(recv_buf[k]) + 1)

IInv == TypeOK /\ StreamInOrder /\ StreamFollows

-----------------------------------------------------------------------------
(* Sequence numbers and sequences of bytes.                                *)

LEMMA ModType == ASSUME NEW n \in Int PROVE n % SEQS \in 0 .. SEQS - 1
BY TcpAssumption

LEMMA ModSmall == ASSUME NEW n \in 0 .. SEQS - 1 PROVE n % SEQS = n
BY TcpAssumption

LEMMA SeqOfType == ASSUME NEW n \in Nat PROVE SeqOf(n) \in 0 .. SEQS - 1
BY ModType, TcpAssumption, SMTT(40) DEF SeqOf

LEMMA SeqOfPlain == ASSUME NoWrap, NEW n \in 0 .. STREAM + 2 PROVE SeqOf(n) = IRS + n
BY ModSmall, TcpAssumption DEF SeqOf, NoWrap

(* What a segment carries.                                                 *)
LEMMA BytesProperties ==
  ASSUME NEW first \in Nat \ {0}, NEW c \in Nat
  PROVE  /\ Bytes(first, c) \in Seq(Nat)
         /\ Len(Bytes(first, c)) = c
         /\ \A i \in 1 .. c : Bytes(first, c)[i] = first + i - 1
<1>1. \A i \in 1 .. c : first + i - 1 \in Nat
  OBVIOUS
<1> QED BY <1>1 DEF Bytes

(* Consecutive bytes followed by the next ones are consecutive bytes.      *)
LEMMA Concatenated ==
  ASSUME NEW s \in Seq(Nat), NEW b \in Seq(Nat), NEW g \in Nat,
         \A i \in 1 .. Len(s) : s[i] = g + i,
         \A i \in 1 .. Len(b) : b[i] = g + Len(s) + i
  PROVE  /\ s \o b \in Seq(Nat) /\ Len(s \o b) = Len(s) + Len(b)
         /\ \A i \in 1 .. Len(s \o b) : (s \o b)[i] = g + i
<1>1. Len(s) \in Nat /\ Len(b) \in Nat
  OBVIOUS
<1>2. /\ s \o b \in Seq(Nat)
      /\ Len(s \o b) = Len(s) + Len(b)
      /\ \A i \in 1 .. Len(s) + Len(b) :
           (s \o b)[i] = IF i <= Len(s) THEN s[i] ELSE b[i - Len(s)]
  BY ConcatProperties, Zenon
<1>3. ASSUME NEW i \in 1 .. Len(s \o b) PROVE (s \o b)[i] = g + i
  <2>1. CASE i <= Len(s)
    BY <1>1, <1>2, <2>1
  <2>2. CASE i > Len(s)
    <3>1. i - Len(s) \in 1 .. Len(b)
      BY <1>1, <1>2, <2>2
    <3>2. b[i - Len(s)] = g + Len(s) + (i - Len(s))
      BY <3>1
    <3> QED BY <1>1, <1>2, <2>2, <3>1, <3>2
  <2> QED BY <1>1, <1>2, <2>1, <2>2
<1> QED BY <1>2, <1>3

LEMMA TakenInOrder ==
  ASSUME NEW s \in Seq(Nat), NEW g \in Nat, NEW c \in Nat,
         \A i \in 1 .. Len(s) : s[i] = g + i
  PROVE  LET r == s \o Bytes(g + Len(s) + 1, c)
         IN  /\ r \in Seq(Nat) /\ Len(r) = Len(s) + c
             /\ \A i \in 1 .. Len(r) : r[i] = g + i
<1>1. PICK b \in Seq(Nat) :
        /\ b = Bytes(g + Len(s) + 1, c)
        /\ Len(b) = c
        /\ \A i \in 1 .. Len(b) : b[i] = g + Len(s) + i
  BY BytesProperties
<1>2. /\ s \o b \in Seq(Nat) /\ Len(s \o b) = Len(s) + Len(b)
      /\ \A i \in 1 .. Len(s \o b) : (s \o b)[i] = g + i
  BY <1>1, Concatenated, Zenon
<1> QED BY <1>1, <1>2

(* Consecutive bytes without the first c are consecutive bytes.            *)
LEMMA HandedOutInOrder ==
  ASSUME NEW s \in Seq(Nat), NEW g \in Nat, NEW c \in 0 .. Len(s),
         \A i \in 1 .. Len(s) : s[i] = g + i
  PROVE  LET r == SubSeq(s, c + 1, Len(s))
         IN  /\ r \in Seq(Nat) /\ Len(r) = Len(s) - c
             /\ \A i \in 1 .. Len(r) : r[i] = g + c + i
<1>1. Len(SubSeq(s, c + 1, Len(s))) = Len(s) - c
  OBVIOUS
<1>2. SubSeq(s, c + 1, Len(s)) \in Seq(Nat)
  OBVIOUS
<1>3. \A i \in 1 .. Len(s) - c : SubSeq(s, c + 1, Len(s))[i] = s[c + i]
  OBVIOUS
<1> QED BY <1>1, <1>2, <1>3

-----------------------------------------------------------------------------
(* What the helpers that several actions share preserve.                   *)

Kept ==
  /\ UNCHANGED socketVars => SocketTypes'
  /\ UNCHANGED streamVars => StreamTypes'
  /\ UNCHANGED netVars => NetTypes'
  /\ UNCHANGED <<app, own>> => ThreadTypes'
  /\ UNCHANGED <<tcp_lock, rx>> => RxTypes'

LEMMA KeptTypes == TypeOK => Kept
<1> SUFFICES ASSUME TypeOK PROVE Kept
  OBVIOUS
<1>1. UNCHANGED socketVars => SocketTypes'
  BY DEF TypeOK, SocketTypes, socketVars
<1>2. UNCHANGED streamVars => StreamTypes'
  BY DEF TypeOK, StreamTypes, streamVars
<1>3. UNCHANGED netVars => NetTypes'
  BY DEF TypeOK, NetTypes, netVars
<1>4. UNCHANGED <<app, own>> => ThreadTypes'
  BY DEF TypeOK, ThreadTypes
<1>5. UNCHANGED <<tcp_lock, rx>> => RxTypes'
  BY DEF TypeOK, RxTypes
<1> QED BY <1>1, <1>2, <1>3, <1>4, <1>5 DEF Kept

(* Only a state that stays below the one before it, and nothing else of    *)
(* what the stream invariants speak about, changes.                        *)
LEMMA KeptStream ==
  ASSUME StreamInOrder, StreamFollows,
         UNCHANGED <<recv_buf, recv_next_seq, got>>,
         \A k \in Slots :
           /\ state'[k] = "SYN_SENT" => state[k] = "SYN_SENT"
           /\ state'[k] \in Synced => state[k] \in Synced
  PROVE  StreamInOrder' /\ StreamFollows'
<1>1. StreamInOrder'
  BY DEF StreamInOrder
<1>2. StreamFollows'
  BY DEF StreamFollows, SeqOf
<1> QED BY <1>1, <1>2

LEMMA GotoTypes ==
  ASSUME ThreadTypes, NEW t \in Threads, NEW label \in CallLabels, NEW k \in Slots,
         Goto(t, label, k), own' \in [Threads -> SUBSET Slots]
  PROVE  ThreadTypes'
BY DEF ThreadTypes, Goto

LEMMA ReturnTypes ==
  ASSUME ThreadTypes, NEW t \in Threads, Return(t), own' \in [Threads -> SUBSET Slots]
  PROVE  ThreadTypes'
BY DEF ThreadTypes, Return, Idle, CallLabels

LEMMA RenewTypes ==
  ASSUME SocketTypes, StreamTypes,
         NEW n \in Slots, NEW st \in States, NEW pt \in Ports \cup {none},
         NEW pr \in Peers \cup {none}, pr # none => pt # none,
         NEW a \in 0 .. SEQS - 1, Renew(n, st, pt, pr, a)
  PROVE  SocketTypes' /\ StreamTypes'
<1>1. SocketTypes'
  BY TcpAssumption DEF SocketTypes, Renew, OVERDRAFT
<1>2. StreamTypes'
  BY TcpAssumption DEF StreamTypes, Renew
<1> QED BY <1>1, <1>2

LEMMA RenewStream ==
  ASSUME SocketTypes, StreamTypes, StreamInOrder, StreamFollows,
         NEW n \in Slots, NEW st, NEW pt, NEW pr, NEW a, Renew(n, st, pt, pr, a),
         st \in Synced => a = SeqOf(1)
  PROVE  StreamInOrder' /\ StreamFollows'
<1>1. /\ recv_buf'[n] = <<>> /\ got'[n] = 0 /\ state'[n] = st /\ recv_next_seq'[n] = a
      /\ \A k \in Slots \ {n} :
           /\ recv_buf'[k] = recv_buf[k] /\ got'[k] = got[k]
           /\ state'[k] = state[k] /\ recv_next_seq'[k] = recv_next_seq[k]
  BY DEF SocketTypes, StreamTypes, Renew
<1>2. StreamInOrder'
  BY <1>1 DEF StreamInOrder
<1>3. StreamFollows'
  BY <1>1, TcpAssumption DEF StreamFollows, SeqOf
<1> QED BY <1>2, <1>3

LEMMA TransmitTypes ==
  ASSUME SocketTypes, StreamTypes, NetTypes, NEW k \in Slots, Transmit(k)
  PROVE  NetTypes'
<1>1. CASE UNCHANGED netVars
  BY <1>1 DEF NetTypes, netVars
<1>2. CASE ~UNCHANGED netVars
  <2> DEFINE q == <<peer[k], port[k]>>
             offered == Least(STREAM, AckedBytes(k) + recv_window[k])
  <2>1. /\ peer[k] # none
        /\ linked' = linked \cup {q}
        /\ edge' = [edge EXCEPT ![q] = Most(edge[q], offered)]
    BY <1>2 DEF Transmit, netVars
  <2>2. q \in Peers \X Ports
    BY <2>1 DEF SocketTypes
  <2>3. offered \in 0 .. STREAM
    <3>1. AckedBytes(k) \in Nat
      <4>1. ack_num[k] - IRS - 1 \in Int
        BY TcpAssumption DEF StreamTypes
      <4>2. AckedBytes(k) \in 0 .. SEQS - 1
        BY <4>1, ModType DEF AckedBytes
      <4> QED BY <4>2, TcpAssumption
    <3>2. recv_window[k] \in Nat
      BY TcpAssumption DEF StreamTypes
    <3> QED BY <3>1, <3>2, TcpAssumption DEF Least
  <2> HIDE DEF q, offered
  <2>4. edge[q] \in 0 .. STREAM
    BY <2>2 DEF NetTypes
  <2>5. Most(edge[q], offered) \in 0 .. STREAM
    BY <2>3, <2>4 DEF Most
  <2> QED BY <2>1, <2>2, <2>5 DEF NetTypes
<1> QED BY <1>1, <1>2

(* The walk of the segment handler.                                        *)
LEMMA WalkTypes ==
  ASSUME RxTypes, NEW h \in Handlers, NEW label \in WalkLabels, NEW g, IsSegment(g),
         NEW i \in Nat, label # "walk" => i \in Slots, Walk(h, label, g, i)
  PROVE  RxTypes'
<1> DEFINE r == [at |-> label, seg |-> g, i |-> i, to |-> none, next |-> none]
<1>1. tcp_lock' = h /\ rx' = [rx EXCEPT ![h] = r]
  BY DEF Walk
<1>2. r \in [at : WalkLabels \cup {"idle", "answer", "relock"},
             seg : Segments \cup {none}, i : Nat,
             to : Slots \cup {none}, next : WalkLabels \cup {none}]
  BY DEF IsSegment
<1>3. r.at = label /\ r.seg = g /\ r.i = i /\ label \notin {"idle", "answer", "relock"}
  BY DEF WalkLabels
<1> HIDE DEF r
<1> QED BY <1>1, <1>2, <1>3 DEF RxTypes

LEMMA LeaveTypes ==
  ASSUME RxTypes, NEW h \in Handlers, Leave(h)
  PROVE  RxTypes'
<1>1. Quiet \in [at : WalkLabels \cup {"idle", "answer", "relock"},
                 seg : Segments \cup {none}, i : Nat,
                 to : Slots \cup {none}, next : WalkLabels \cup {none}]
  BY DEF Quiet
<1>2. Quiet.at = "idle"
  BY DEF Quiet
<1>3. tcp_lock' = none /\ rx' = [rx EXCEPT ![h] = Quiet]
  BY DEF Leave
<1> QED BY <1>1, <1>2, <1>3 DEF RxTypes, WalkLabels

LEMMA OnwardTypes ==
  ASSUME RxTypes, NEW h \in Handlers, NEW g, IsSegment(g), NEW i \in Nat, Onward(h, g, i)
  PROVE  RxTypes'
<1>1. Walk(h, "walk", g, i) \/ Leave(h)
  BY DEF Onward
<1> QED BY <1>1, WalkTypes, LeaveTypes DEF WalkLabels

LEMMA SlotIsNat == \A k \in Slots : k \in Nat /\ k + 1 \in Nat
BY TcpAssumption DEF Slots

LEMMA ToFinTypes ==
  ASSUME RxTypes, NEW h \in Handlers, NEW g, IsSegment(g), NEW j \in Slots, ToFin(h, g, j)
  PROVE  RxTypes'
<1>1. Walk(h, "fin", g, j) \/ Onward(h, g, j + 1)
  BY DEF ToFin
<1> QED BY <1>1, WalkTypes, OnwardTypes, SlotIsNat DEF WalkLabels

LEMMA ToDataTypes ==
  ASSUME RxTypes, NEW h \in Handlers, NEW g, IsSegment(g), NEW j \in Slots, ToData(h, g, j)
  PROVE  RxTypes'
<1>1. Walk(h, "data", g, j) \/ ToFin(h, g, j)
  BY DEF ToData
<1> QED BY <1>1, WalkTypes, ToFinTypes, SlotIsNat DEF WalkLabels

LEMMA AnswerTypes ==
  ASSUME RxTypes, NEW h \in Handlers, rx[h].at # "idle", NEW n \in Slots,
         NEW next \in WalkLabels, NEW i \in Nat, next # "walk" => i \in Slots,
         Answer(h, n, next, i)
  PROVE  RxTypes'
<1> DEFINE r == [at |-> "answer", seg |-> rx[h].seg, i |-> i, to |-> n, next |-> next]
<1>1. tcp_lock' = none /\ rx' = [rx EXCEPT ![h] = r]
  BY DEF Answer
<1>2. IsSegment(rx[h].seg) /\ rx[h].seg \in Segments
  BY DEF RxTypes, IsSegment
<1>3. r \in [at : WalkLabels \cup {"idle", "answer", "relock"},
             seg : Segments \cup {none}, i : Nat,
             to : Slots \cup {none}, next : WalkLabels \cup {none}]
  BY <1>2
<1>4. r.at = "answer" /\ r.seg = rx[h].seg /\ r.i = i /\ r.to = n /\ r.next = next
  OBVIOUS
<1> HIDE DEF r
<1> QED BY <1>1, <1>2, <1>3, <1>4 DEF RxTypes, WalkLabels

LEMMA SentIsSegment ==
  ASSUME NetTypes, NEW pr \in Peers, NEW pt \in Ports, NEW g \in Sent(pr, pt)
  PROVE  IsSegment(g)
<1> DEFINE room == edge[<<pr, pt>>]
<1>1. room \in 0 .. STREAM
  BY DEF NetTypes
<1>2. CASE g = Segment(pr, pt, IF pt = SERVICE THEN {"SYN"} ELSE {"SYN", "ACK"}, 0, 0)
  BY <1>2, TcpAssumption DEF Segment, IsSegment, Segments
<1>3. CASE g \in {Segment(pr, pt, {"ACK", "RST"}, 1, 0), Segment(pr, pt, {"ACK"}, 1, 0)}
  BY <1>3, TcpAssumption DEF Segment, IsSegment, Segments
<1>4. CASE \E n \in 1 .. room, c \in 1 .. TCP_MSS :
             g = Segment(pr, pt, {"ACK"}, n, c) /\ g.first + g.len - 1 <= room
  BY <1>1, <1>4, TcpAssumption DEF Segment, IsSegment, Segments
<1>5. CASE \E c \in 0 .. Least(TCP_MSS, STREAM) :
             g = Segment(pr, pt, {"ACK", "FIN"}, STREAM + 1 - c, c)
  <2>1. Least(TCP_MSS, STREAM) \in Nat /\ Least(TCP_MSS, STREAM) <= TCP_MSS
        /\ Least(TCP_MSS, STREAM) <= STREAM
    BY TcpAssumption DEF Least
  <2> QED BY <1>5, <2>1, TcpAssumption DEF Segment, IsSegment, Segments
<1> QED BY <1>2, <1>3, <1>4, <1>5 DEF Sent

-----------------------------------------------------------------------------
(* The calls.                                                              *)

LEMMA InvariantParts ==
  ASSUME SocketTypes', StreamTypes', NetTypes', ThreadTypes', RxTypes',
         StreamInOrder', StreamFollows'
  PROVE  IInv'
BY DEF IInv, TypeOK

LEMMA OwnType == ASSUME ThreadTypes PROVE own \in [Threads -> SUBSET Slots]
BY DEF ThreadTypes

(* A step that only moves a thread from one label to another.              *)
LEMMA OnlyMoves ==
  ASSUME IInv, ThreadTypes',
         UNCHANGED <<socketVars, streamVars, netVars, tcp_lock, rx>>
  PROVE  IInv'
<1>1. Kept
  BY KeptTypes DEF IInv
<1>2. StreamInOrder' /\ StreamFollows'
  BY KeptStream DEF IInv, socketVars, streamVars
<1> QED BY <1>1, <1>2, InvariantParts DEF Kept

LEMMA GotoKeeps ==
  ASSUME IInv, NEW t \in Threads, NEW label \in CallLabels, NEW k \in Slots,
         Goto(t, label, k),
         UNCHANGED <<socketVars, streamVars, netVars, tcp_lock, own, rx>>
  PROVE  IInv'
<1>1. own' \in [Threads -> SUBSET Slots]
  BY OwnType DEF IInv, TypeOK
<1>2. ThreadTypes'
  BY <1>1, GotoTypes DEF IInv, TypeOK
<1> QED BY <1>2, OnlyMoves

LEMMA ReturnKeeps ==
  ASSUME IInv, NEW t \in Threads, Return(t), own' \in [Threads -> SUBSET Slots],
         UNCHANGED <<socketVars, streamVars, netVars, tcp_lock, rx>>
  PROVE  IInv'
<1>1. ThreadTypes'
  BY ReturnTypes DEF IInv, TypeOK
<1> QED BY <1>1, OnlyMoves

LEMMA InCall ==
  ASSUME ThreadTypes, NEW t \in Threads, app[t].at # "idle"
  PROVE  app[t].fd \in Slots
BY DEF ThreadTypes

(* Calls that change nothing but where the thread is.                      *)
LEMMA MovesKeep ==
  ASSUME IInv, NEW t \in Threads
  PROVE  /\ ConnectDone(t) => IInv'
         /\ ConnectRetry(t) => IInv'
         /\ \A k \in Slots : Accept(t, k) \/ Receive(t, k) \/ Send(t, k) => IInv'
         /\ AcceptSee(t) \/ ReceiveSee(t) => IInv'
         /\ ReceiveEnd(t) \/ WaitTimeout(t) => IInv'
<1>1. ThreadTypes /\ own \in [Threads -> SUBSET Slots]
  BY OwnType DEF IInv, TypeOK
<1>2. ASSUME ConnectDone(t) PROVE IInv'
  <2>1. app[t].fd \in Slots
    BY <1>1, <1>2, InCall DEF ConnectDone, Connecting, Call
  <2>2. own' \in [Threads -> SUBSET Slots]
    BY <1>1, <1>2, <2>1 DEF ConnectDone
  <2> QED BY <1>2, <2>2, ReturnKeeps DEF ConnectDone
<1>3. ASSUME ConnectRetry(t) PROVE IInv'
  <2>1. app[t].fd \in Slots
    BY <1>1, <1>3, InCall DEF ConnectRetry, Call
  <2> QED BY <1>3, <2>1, GotoKeeps DEF ConnectRetry, CallLabels
<1>4. ASSUME NEW k \in Slots, Accept(t, k) \/ Receive(t, k) \/ Send(t, k) PROVE IInv'
  BY <1>4, GotoKeeps DEF Accept, Receive, Send, CallLabels
<1>5. ASSUME AcceptSee(t) \/ ReceiveSee(t) PROVE IInv'
  <2>1. app[t].fd \in Slots
    BY <1>1, <1>5, InCall DEF AcceptSee, ReceiveSee, Call
  <2> QED BY <1>5, <2>1, GotoKeeps DEF AcceptSee, ReceiveSee, CallLabels
<1>6. ASSUME ReceiveEnd(t) \/ WaitTimeout(t) PROVE IInv'
  BY <1>1, <1>6, ReturnKeeps DEF ReceiveEnd, WaitTimeout
<1> QED BY <1>2, <1>3, <1>4, <1>5, <1>6

LEMMA ConnectKeeps ==
  ASSUME IInv, NEW t \in Threads, NEW pr \in Peers, Connect(t, pr)
  PROVE  IInv'
<1> USE DEF IInv, TypeOK
<1>1. PICK n \in Slots :
        /\ Renew(n, "SYN_SENT", n, pr, 0)
        /\ linked' = linked \ {<<pr, n>>}
        /\ edge' = [edge EXCEPT ![<<pr, n>>] = 0]
        /\ Goto(t, "connect", n)
  BY DEF Connect
<1>2. UNCHANGED <<tcp_lock, own, rx>>
  BY DEF Connect
<1>3. SocketTypes' /\ StreamTypes'
  <2>1. "SYN_SENT" \in States /\ n \in Ports /\ n # none /\ 0 \in 0 .. SEQS - 1
    BY TcpAssumption DEF States, Ports, Slots
  <2> QED BY <1>1, <2>1, RenewTypes
<1>4. NetTypes'
  <2>1. <<pr, n>> \in Peers \X Ports
    BY DEF Ports
  <2> QED BY <1>1, <2>1, TcpAssumption DEF NetTypes
<1>5. ThreadTypes'
  BY <1>1, <1>2, GotoTypes, OwnType DEF CallLabels
<1>6. RxTypes'
  BY <1>2, KeptTypes DEF Kept
<1>7. StreamInOrder' /\ StreamFollows'
  BY <1>1, RenewStream DEF Synced
<1> QED BY <1>3, <1>4, <1>5, <1>6, <1>7

(* Calls that give a socket up, or back.                                   *)
LEMMA ReleasesKeep ==
  ASSUME IInv, NEW t \in Threads
  PROVE  /\ ConnectRefused(t) => IInv'
         /\ ConnectGiveUp(t) => IInv'
         /\ \A k \in Slots : Close(t, k) => IInv'
<1> USE DEF IInv, TypeOK
<1>1. Kept /\ own \in [Threads -> SUBSET Slots]
  BY KeptTypes, OwnType
<1>2. ASSUME ConnectRefused(t) PROVE IInv'
  <2>1. app[t].fd \in Slots
    BY <1>2, InCall DEF ConnectRefused, Connecting, Call
  <2>2. SocketTypes'
    BY <1>2, <2>1 DEF ConnectRefused, SocketTypes
  <2>3. ThreadTypes'
    BY <1>1, <1>2, ReturnTypes DEF ConnectRefused
  <2>4. StreamInOrder' /\ StreamFollows'
    BY <1>2, KeptStream DEF ConnectRefused, streamVars
  <2> QED BY <1>1, <1>2, <2>2, <2>3, <2>4 DEF ConnectRefused, Kept
<1>3. ASSUME ConnectGiveUp(t) PROVE IInv'
  <2>1. app[t].fd \in Slots
    BY <1>3, InCall DEF ConnectGiveUp, Call
  <2>2. SocketTypes'
    BY <1>3, <2>1 DEF ConnectGiveUp, Free, SocketTypes, States
  <2>3. ThreadTypes'
    BY <1>1, <1>3, ReturnTypes DEF ConnectGiveUp
  <2>4. StreamInOrder' /\ StreamFollows'
    <3>1. \A k \in Slots : state'[k] \in {state[k], "CLOSED"}
      BY <1>3 DEF ConnectGiveUp, Free, SocketTypes
    <3> QED BY <1>3, <3>1, KeptStream DEF ConnectGiveUp, streamVars, Synced
  <2> QED BY <1>1, <1>3, <2>2, <2>3, <2>4 DEF ConnectGiveUp, Kept
<1>4. ASSUME NEW k \in Slots, Close(t, k) PROVE IInv'
  <2>1. own' \in [Threads -> SUBSET Slots]
    BY <1>1, <1>4 DEF Close
  <2>2. /\ in_use' \in [Slots -> BOOLEAN]
        /\ state' \in [Slots -> States]
        /\ \A i \in Slots : state'[i] \in {state[i], "CLOSED", "FIN_WAIT_1", "LAST_ACK"}
    BY <1>4 DEF Close, Free, SocketTypes, States
  <2>3. SocketTypes'
    BY <1>4, <2>2 DEF Close, SocketTypes
  <2>4. ThreadTypes'
    <3>1. CASE Goto(t, "send", k)
      BY <2>1, <3>1, GotoTypes DEF CallLabels
    <3>2. CASE UNCHANGED app
      BY <2>1, <3>2 DEF ThreadTypes
    <3> QED BY <1>4, <3>1, <3>2 DEF Close
  <2>5. StreamInOrder' /\ StreamFollows'
    BY <1>4, <2>2, KeptStream DEF Close, streamVars, Synced
  <2> QED BY <1>1, <1>4, <2>3, <2>4, <2>5 DEF Close, Kept
<1> QED BY <1>2, <1>3, <1>4

LEMMA ListenersKeep ==
  ASSUME IInv, NEW t \in Threads
  PROVE  /\ tcp_socket(t) => IInv'
         /\ \A k \in Slots : tcp_bind(t, k) \/ tcp_listen(t, k) => IInv'
         /\ AcceptTake(t) => IInv'
<1> USE DEF IInv, TypeOK
<1>1. Kept /\ own \in [Threads -> SUBSET Slots]
  BY KeptTypes, OwnType
<1>2. ASSUME tcp_socket(t) PROVE IInv'
  <2>1. PICK n \in Slots :
          Renew(n, "CLOSED", none, none, 0) /\ own' = [own EXCEPT ![t] = @ \cup {n}]
    BY <1>2 DEF tcp_socket
  <2>2. SocketTypes' /\ StreamTypes'
    <3>1. "CLOSED" \in States /\ 0 \in 0 .. SEQS - 1
      BY TcpAssumption DEF States
    <3> QED BY <2>1, <3>1, RenewTypes
  <2>3. ThreadTypes'
    BY <1>1, <1>2, <2>1 DEF tcp_socket, ThreadTypes
  <2>4. StreamInOrder' /\ StreamFollows'
    BY <2>1, RenewStream DEF Synced
  <2> QED BY <1>1, <1>2, <2>2, <2>3, <2>4 DEF tcp_socket, Kept
<1>3. ASSUME NEW k \in Slots, tcp_bind(t, k) PROVE IInv'
  <2>1. SocketTypes'
    BY <1>3, TcpAssumption DEF tcp_bind, SocketTypes, Ports
  <2>2. StreamInOrder' /\ StreamFollows'
    BY <1>3, KeptStream DEF tcp_bind, streamVars
  <2> QED BY <1>1, <1>3, <2>1, <2>2 DEF tcp_bind, Kept
<1>4. ASSUME NEW k \in Slots, tcp_listen(t, k) PROVE IInv'
  <2>1. SocketTypes'
    BY <1>4, TcpAssumption DEF tcp_listen, SocketTypes, States, OVERDRAFT
  <2>2. StreamInOrder' /\ StreamFollows'
    <3>1. \A i \in Slots : state'[i] \in {state[i], "LISTEN"}
      BY <1>4 DEF tcp_listen, SocketTypes
    <3> QED BY <1>4, <3>1, KeptStream DEF tcp_listen, streamVars, Synced
  <2> QED BY <1>1, <1>4, <2>1, <2>2 DEF tcp_listen, Kept
<1>5. ASSUME AcceptTake(t) PROVE IInv'
  <2>1. PICK k \in Slots :
          /\ overdrawn[k] < OVERDRAFT
          /\ \E n \in FirstEntry(k) : own' = [own EXCEPT ![t] = @ \cup {n}]
          /\ backlog' = [backlog EXCEPT ![k] = IF backlog[k] = <<>> THEN <<>> ELSE Tail(backlog[k])]
          /\ overdrawn' = [overdrawn EXCEPT ![k] =
                             IF backlog[k] = <<>> THEN overdrawn[k] + 1 ELSE overdrawn[k]]
    BY <1>5, InCall DEF AcceptTake, Call
  <2> DEFINE b == IF backlog[k] = <<>> THEN <<>> ELSE Tail(backlog[k])
  <2>2. backlog' = [backlog EXCEPT ![k] = b] /\ b \in Seq(Slots) /\ Len(b) <= TCP_MAX_BACKLOG
    <3>1. backlog[k] \in Seq(Slots) /\ Len(backlog[k]) <= TCP_MAX_BACKLOG
      BY DEF SocketTypes
    <3>2. CASE backlog[k] = <<>>
      BY <2>1, <3>1, <3>2
    <3>3. CASE backlog[k] # <<>>
      BY <2>1, <3>1, <3>3, HeadTailProperties, TcpAssumption
    <3> QED BY <3>2, <3>3
  <2> HIDE DEF b
  <2>3. SocketTypes'
    <3>1. /\ backlog' \in [Slots -> Seq(Slots)]
          /\ \A i \in Slots : backlog'[i] \in {backlog[i], b}
      BY <2>2 DEF SocketTypes
    <3>2. \A i \in Slots : Len(backlog'[i]) <= TCP_MAX_BACKLOG
      BY <2>2, <3>1 DEF SocketTypes
    <3>3. overdrawn' \in [Slots -> 0 .. OVERDRAFT]
      BY <2>1 DEF SocketTypes, OVERDRAFT
    <3> QED BY <1>5, <3>1, <3>2, <3>3 DEF AcceptTake, SocketTypes
  <2>4. own' \in [Threads -> SUBSET Slots]
    <3>1. FirstEntry(k) \subseteq Slots
      <4>1. CASE backlog[k] = <<>>
        BY <4>1 DEF FirstEntry
      <4>2. CASE backlog[k] # <<>>
        BY <4>2, HeadTailProperties DEF FirstEntry, SocketTypes
      <4> QED BY <4>1, <4>2
    <3> QED BY <1>1, <2>1, <3>1
  <2>5. ThreadTypes'
    BY <1>5, <2>4, ReturnTypes DEF AcceptTake
  <2>6. StreamInOrder' /\ StreamFollows'
    BY <1>5, KeptStream DEF AcceptTake, streamVars
  <2> QED BY <1>1, <1>5, <2>3, <2>5, <2>6 DEF AcceptTake, Kept
<1> QED BY <1>2, <1>3, <1>4, <1>5

(* Handing out bytes, and saying so.                                       *)
LEMMA ReceiveCopyKeeps ==
  ASSUME IInv, NEW t \in Threads, NEW want \in 1 .. TCP_BUF_SIZE, ReceiveCopy(t, want)
  PROVE  IInv'
<1> USE DEF IInv, TypeOK
<1>1. Kept /\ own \in [Threads -> SUBSET Slots]
  BY KeptTypes, OwnType
<1> DEFINE k == app[t].fd
           copy == Least(want, Len(recv_buf[k]))
<1>2. k \in Slots
  BY InCall DEF ReceiveCopy, Call
<1>3. recv_buf[k] \in Seq(Nat) /\ Len(recv_buf[k]) \in 0 .. TCP_BUF_SIZE /\ got[k] \in Nat
  BY <1>2, TcpAssumption DEF StreamTypes
<1>4. copy \in 0 .. Len(recv_buf[k])
  BY <1>3, TcpAssumption DEF Least
<1>5. /\ recv_buf' = [recv_buf EXCEPT ![k] = SubSeq(recv_buf[k], copy + 1, Len(recv_buf[k]))]
      /\ recv_window' = [recv_window EXCEPT ![k] = TCP_BUF_SIZE - (Len(recv_buf[k]) - copy)]
      /\ got' = [got EXCEPT ![k] = got[k] + copy]
      /\ Goto(t, "send", k)
      /\ UNCHANGED <<socketVars, ack_num, recv_next_seq, netVars, tcp_lock, own, rx>>
  BY DEF ReceiveCopy
<1> HIDE DEF k, copy
<1>6. \A i \in 1 .. Len(recv_buf[k]) : recv_buf[k][i] = got[k] + i
  BY <1>2 DEF StreamInOrder
<1>7. PICK r \in Seq(Nat) :
        /\ r = SubSeq(recv_buf[k], copy + 1, Len(recv_buf[k]))
        /\ Len(r) = Len(recv_buf[k]) - copy
        /\ \A i \in 1 .. Len(r) : r[i] = got[k] + copy + i
  BY <1>3, <1>4, <1>6, HandedOutInOrder
<1>8. /\ recv_buf' = [recv_buf EXCEPT ![k] = r]
      /\ recv_window' = [recv_window EXCEPT ![k] = TCP_BUF_SIZE - Len(r)]
  BY <1>5, <1>7
<1>9. StreamTypes'
  <2>1. TCP_BUF_SIZE - Len(r) \in 0 .. TCP_BUF_SIZE /\ got[k] + copy \in Nat
        /\ Len(r) <= TCP_BUF_SIZE
    <3>1. Len(r) = Len(recv_buf[k]) - copy
      BY <1>7
    <3>2. Len(r) \in 0 .. TCP_BUF_SIZE
      BY <1>3, <1>4, <3>1, TcpAssumption
    <3>3. got[k] + copy \in Nat
      BY <1>3, <1>4, TcpAssumption
    <3> QED BY <3>2, <3>3, TcpAssumption
  <2>2. UNCHANGED <<ack_num, recv_next_seq>>
    BY <1>5
  <2> QED BY <1>2, <1>5, <1>8, <2>1, <2>2, ZenonT(60) DEF StreamTypes
<1>10. ThreadTypes'
  BY <1>1, <1>2, <1>5, GotoTypes DEF CallLabels
<1>11. /\ recv_buf'[k] = r /\ got'[k] = got[k] + copy
       /\ \A i \in Slots \ {k} : recv_buf'[i] = recv_buf[i] /\ got'[i] = got[i]
       /\ UNCHANGED <<state, recv_next_seq>>
  BY <1>2, <1>5, <1>8 DEF StreamTypes, socketVars
<1>12. StreamInOrder'
  BY <1>7, <1>11 DEF StreamInOrder
<1>13. StreamFollows'
  <2>1. got'[k] + Len(recv_buf'[k]) = got[k] + Len(recv_buf[k])
    BY <1>3, <1>4, <1>7, <1>11
  <2>2. ASSUME NEW i \in Slots
        PROVE  /\ got'[i] + Len(recv_buf'[i]) = got[i] + Len(recv_buf[i])
               /\ recv_buf[i] = <<>> /\ got[i] = 0 => recv_buf'[i] = <<>> /\ got'[i] = 0
    <3>1. CASE i = k
      <4>1. ASSUME recv_buf[k] = <<>>, got[k] = 0 PROVE recv_buf'[k] = <<>> /\ got'[k] = 0
        <5>1. copy = 0 /\ Len(r) = 0
          BY <1>4, <1>7, <4>1
        <5> QED BY <1>7, <1>11, <4>1, <5>1, EmptySeq
      <4> QED BY <2>1, <3>1, <4>1
    <3> QED BY <1>11, <3>1
  <2>3. UNCHANGED state /\ UNCHANGED recv_next_seq
    BY <1>11
  <2> QED BY <2>2, <2>3, Zenon DEF StreamFollows, SeqOf
<1> QED BY <1>1, <1>5, <1>9, <1>10, <1>12, <1>13 DEF Kept

LEMMA SendSegmentKeeps ==
  ASSUME IInv, NEW t \in Threads, SendSegment(t)
  PROVE  IInv'
<1> USE DEF IInv, TypeOK
<1>1. Kept /\ own \in [Threads -> SUBSET Slots]
  BY KeptTypes, OwnType
<1>2. app[t].fd \in Slots
  BY InCall DEF SendSegment, Call
<1>3. NetTypes'
  BY <1>2, TransmitTypes DEF SendSegment
<1>4. ThreadTypes'
  BY <1>1, ReturnTypes DEF SendSegment
<1>5. StreamInOrder' /\ StreamFollows'
  BY KeptStream DEF SendSegment, streamVars, socketVars
<1> QED BY <1>1, <1>3, <1>4, <1>5 DEF SendSegment, Kept

LEMMA CallKeeps ==
  ASSUME IInv, NEW t \in Threads, CallStep(t)
  PROVE  IInv'
BY MovesKeep, ConnectKeeps, ReleasesKeep, ListenersKeep, ReceiveCopyKeeps, SendSegmentKeeps
   DEF CallStep

-----------------------------------------------------------------------------
(* The segment handler.                                                    *)

LEMMA AtSegment ==
  ASSUME RxTypes, NEW h \in Handlers, rx[h].at # "idle"
  PROVE  /\ IsSegment(rx[h].seg) /\ rx[h].i \in Nat
         /\ rx[h].at \in WalkLabels \ {"walk"} => rx[h].i \in Slots
         /\ rx[h].at \in {"answer", "relock"} =>
              /\ rx[h].to \in Slots /\ rx[h].next \in WalkLabels
              /\ rx[h].next # "walk" => rx[h].i \in Slots
BY DEF RxTypes

(* Steps that touch no socket.                                             *)
LEMMA WalkKeeps ==
  ASSUME IInv, NEW h \in Handlers
  PROVE  /\ Arrive(h) => IInv'
         /\ WalkEnds(h) => IInv'
         /\ SendAnswer(h) => IInv'
         /\ Relock(h) => IInv'
<1> USE DEF IInv, TypeOK
<1>1. Kept
  BY KeptTypes
<1>2. UNCHANGED <<socketVars, streamVars>> => StreamInOrder' /\ StreamFollows'
  BY KeptStream DEF socketVars, streamVars
<1>3. ASSUME Arrive(h) PROVE IInv'
  <2>1. PICK pr \in Peers, pt \in Ports : \E g \in Sent(pr, pt) : Walk(h, "walk", g, 0)
    BY <1>3 DEF Arrive
  <2>2. RxTypes'
    BY <2>1, SentIsSegment, WalkTypes DEF WalkLabels
  <2> QED BY <1>1, <1>2, <1>3, <2>2 DEF Arrive, Kept
<1>4. ASSUME WalkEnds(h) PROVE IInv'
  <2>1. RxTypes'
    BY <1>4, LeaveTypes DEF WalkEnds
  <2> QED BY <1>1, <1>2, <1>4, <2>1 DEF WalkEnds, Kept
<1>5. ASSUME SendAnswer(h) PROVE IInv'
  <2>1. rx[h].to \in Slots
    BY <1>5, AtSegment DEF SendAnswer
  <2>2. NetTypes'
    BY <1>5, <2>1, TransmitTypes DEF SendAnswer
  <2>3. RxTypes'
    BY <1>5 DEF SendAnswer, RxTypes, WalkLabels
  <2> QED BY <1>1, <1>2, <1>5, <2>2, <2>3 DEF SendAnswer, Kept
<1>6. ASSUME Relock(h) PROVE IInv'
  <2>1. /\ IsSegment(rx[h].seg) /\ rx[h].i \in Nat /\ rx[h].next \in WalkLabels
        /\ rx[h].next # "walk" => rx[h].i \in Slots
    BY <1>6, AtSegment DEF Relock
  <2>2. Onward(h, rx[h].seg, rx[h].i) \/ Walk(h, rx[h].next, rx[h].seg, rx[h].i)
    BY <1>6 DEF Relock
  <2>3. RxTypes'
    BY <2>1, <2>2, OnwardTypes, WalkTypes
  <2> QED BY <1>1, <1>2, <1>6, <2>3 DEF Relock, Kept
<1> QED BY <1>3, <1>4, <1>5, <1>6

LEMMA PassiveOpenKeeps ==
  ASSUME IInv, NEW h \in Handlers, NEW j \in Slots, PassiveOpen(h, j)
  PROVE  IInv'
<1> USE DEF IInv, TypeOK
<1> DEFINE g == rx[h].seg
<1>1. Kept
  BY KeptTypes
<1>2. IsSegment(g) /\ rx[h].at # "idle" /\ "SYN" \in g.flags
  BY AtSegment DEF PassiveOpen, IsNextMatch, IsCall
<1>3. g.first = 0 /\ g.dp \in Ports /\ g.src \in Peers
  BY <1>2 DEF IsSegment, Segments
<1>4. UNCHANGED <<netVars, app, own>>
  BY DEF PassiveOpen
<1>5. CASE Onward(h, g, j + 1) /\ UNCHANGED <<socketVars, streamVars>>
  <2>1. RxTypes'
    BY <1>2, <1>5, OnwardTypes, SlotIsNat
  <2>2. StreamInOrder' /\ StreamFollows'
    BY <1>5, KeptStream DEF socketVars, streamVars
  <2> QED BY <1>1, <1>4, <1>5, <2>1, <2>2 DEF Kept
<1>6. CASE \E n \in Slots : /\ Renew(n, "SYN_RECEIVED", g.dp, g.src, SeqOf(g.first + 1))
                            /\ Answer(h, n, "walk", j + 1)
  <2>1. PICK n \in Slots : /\ Renew(n, "SYN_RECEIVED", g.dp, g.src, SeqOf(g.first + 1))
                          /\ Answer(h, n, "walk", j + 1)
    BY <1>6
  <2>2. SeqOf(g.first + 1) = SeqOf(1) /\ SeqOf(1) \in 0 .. SEQS - 1
    BY <1>3, SeqOfType
  <2>3. "SYN_RECEIVED" \in States /\ g.dp # none
    BY <1>3, TcpAssumption DEF States, Ports, Slots
  <2>4. SocketTypes' /\ StreamTypes'
    BY <1>3, <2>1, <2>2, <2>3, RenewTypes
  <2>5. RxTypes'
    BY <1>2, <2>1, AnswerTypes, SlotIsNat DEF WalkLabels
  <2>6. StreamInOrder' /\ StreamFollows'
    BY <2>1, <2>2, RenewStream
  <2> QED BY <1>1, <1>4, <2>4, <2>5, <2>6 DEF Kept
<1> QED BY <1>5, <1>6 DEF PassiveOpen

LEMMA HandshakeKeeps ==
  ASSUME IInv, NEW h \in Handlers, NEW j \in Slots, Handshake(h, j)
  PROVE  IInv'
<1> USE DEF IInv, TypeOK
<1>1. Kept
  BY KeptTypes
<1>2. /\ IsSegment(rx[h].seg) /\ rx[h].at # "idle" /\ rx[h].seg.first = 0
      /\ state[j] = "SYN_SENT"
  BY AtSegment DEF Handshake, IsNextMatch, IsAnswer, IsSegment
<1>3. /\ ack_num' = [ack_num EXCEPT ![j] = SeqOf(1)]
      /\ recv_next_seq' = [recv_next_seq EXCEPT ![j] = SeqOf(1)]
      /\ state' = [state EXCEPT ![j] = "ESTABLISHED"]
      /\ Answer(h, j, "walk", j + 1)
      /\ UNCHANGED <<in_use, port, peer, backlog, overdrawn, recv_buf, recv_window, got, netVars,
                     app, own>>
  BY <1>2 DEF Handshake
<1>4. SocketTypes'
  BY <1>3 DEF SocketTypes, States
<1>5. StreamTypes'
  <2>1. SeqOf(1) \in 0 .. SEQS - 1
    BY SeqOfType
  <2> QED BY <1>3, <2>1 DEF StreamTypes
<1>6. RxTypes'
  BY <1>2, <1>3, AnswerTypes, SlotIsNat DEF WalkLabels
<1>7. StreamInOrder'
  BY <1>3 DEF StreamInOrder
<1>8. StreamFollows'
  <2>1. got[j] = 0 /\ recv_buf[j] = <<>>
    BY <1>2 DEF StreamFollows
  <2>2. /\ state'[j] = "ESTABLISHED" /\ recv_next_seq'[j] = SeqOf(1)
        /\ \A k \in Slots \ {j} : state'[k] = state[k] /\ recv_next_seq'[k] = recv_next_seq[k]
    BY <1>3 DEF SocketTypes, StreamTypes
  <2> QED BY <1>3, <2>1, <2>2 DEF StreamFollows, SeqOf
<1> QED BY <1>1, <1>3, <1>4, <1>5, <1>6, <1>7, <1>8 DEF Kept

(* The steps that move a socket from state to state.                       *)
LEMMA StateStepsKeep ==
  ASSUME IInv, NEW h \in Handlers
  PROVE  /\ \A j \in Slots : Reset(h, j) \/ Acknowledge(h, j) => IInv'
         /\ PeerClosed(h) => IInv'
<1> USE DEF IInv, TypeOK
<1>1. Kept
  BY KeptTypes
<1>2. ASSUME NEW j \in Slots, Reset(h, j) PROVE IInv'
  <2>1. IsSegment(rx[h].seg) /\ rx[h].at # "idle"
    BY <1>2, AtSegment DEF Reset, IsNextMatch
  <2>2. SocketTypes' /\ \A k \in Slots : state'[k] \in {state[k], "CLOSED"}
    BY <1>2 DEF Reset, Free, SocketTypes, States
  <2>3. RxTypes'
    BY <1>2, <2>1, OnwardTypes, SlotIsNat DEF Reset
  <2>4. StreamInOrder' /\ StreamFollows'
    BY <1>2, <2>2, KeptStream DEF Reset, streamVars, Synced
  <2> QED BY <1>1, <1>2, <2>2, <2>3, <2>4 DEF Reset, Kept
<1>3. ASSUME NEW j \in Slots, Acknowledge(h, j) PROVE IInv'
  <2> DEFINE g == rx[h].seg
  <2>1. /\ IsSegment(g) /\ rx[h].at # "idle"
        /\ UNCHANGED <<port, peer, streamVars, netVars, app, own>>
    BY <1>3, AtSegment DEF Acknowledge, IsNextMatch
  <2>2. RxTypes'
    BY <1>3, <2>1, OnwardTypes, ToDataTypes, SlotIsNat DEF Acknowledge
  <2>3. CASE state[j] = "SYN_RECEIVED" /\ Establish(j)
    <3>1. /\ state' \in [Slots -> States]
          /\ \A k \in Slots : \/ state'[k] = state[k]
                              \/ state'[k] = "ESTABLISHED" /\ state[k] \in Synced
      <4>1. state' = [state EXCEPT ![j] = "ESTABLISHED"] /\ state[j] = "SYN_RECEIVED"
        BY <2>3 DEF Establish
      <4>2. state \in [Slots -> States] /\ "ESTABLISHED" \in States
        BY DEF SocketTypes, States
      <4>3. state' \in [Slots -> States]
        BY <4>1, <4>2
      <4>4. state'[j] = "ESTABLISHED" /\ \A k \in Slots \ {j} : state'[k] = state[k]
        BY <4>1, <4>2
      <4>5. state[j] \in Synced
        BY <4>1 DEF Synced
      <4> QED BY <4>3, <4>4, <4>5
    <3>2. /\ backlog' \in [Slots -> Seq(Slots)]
          /\ overdrawn' \in [Slots -> 0 .. OVERDRAFT]
          /\ in_use' \in [Slots -> BOOLEAN]
      <4>1. backlog' \in [Slots -> Seq(Slots)]
        BY <2>3 DEF Establish, SocketTypes
      <4>2. overdrawn' \in [Slots -> 0 .. OVERDRAFT]
        BY <2>3 DEF Establish, SocketTypes, OVERDRAFT
      <4>3. in_use' \in [Slots -> BOOLEAN]
        BY <2>3 DEF Establish, SocketTypes
      <4> QED BY <4>1, <4>2, <4>3
    <3>3. \A k \in Slots : Len(backlog'[k]) <= TCP_MAX_BACKLOG
      <4> SUFFICES ASSUME NEW k \in Slots PROVE Len(backlog'[k]) <= TCP_MAX_BACKLOG
        OBVIOUS
      <4>1. CASE backlog'[k] = backlog[k]
        BY <4>1 DEF SocketTypes
      <4>2. CASE HasRoom(k, j) /\ backlog'[k] = Append(backlog[k], j)
        BY <4>2, TcpAssumption DEF HasRoom, SocketTypes
      <4> QED BY <2>3, <4>1, <4>2 DEF Establish, Takes
    <3>4. SocketTypes'
      BY <2>1, <2>3, <3>1, <3>2, <3>3 DEF Establish, SocketTypes
    <3>5. StreamInOrder' /\ StreamFollows'
      BY <2>1, <3>1, KeptStream DEF streamVars, Synced
    <3> QED BY <1>1, <2>1, <2>2, <3>4, <3>5 DEF Kept
  <2>4. CASE state[j] = "LAST_ACK" /\ Free(j) /\ UNCHANGED <<backlog, overdrawn>>
    <3>1. SocketTypes' /\ \A k \in Slots : state'[k] \in {state[k], "CLOSED"}
      BY <2>1, <2>4 DEF Free, SocketTypes, States
    <3>2. StreamInOrder' /\ StreamFollows'
      BY <2>1, <3>1, KeptStream DEF streamVars, Synced
    <3> QED BY <1>1, <2>1, <2>2, <3>1, <3>2 DEF Kept
  <2>5. CASE state' = [state EXCEPT ![j] = "FIN_WAIT_2"]
             /\ UNCHANGED <<in_use, backlog, overdrawn>>
    <3>1. SocketTypes' /\ \A k \in Slots : state'[k] \in {state[k], "FIN_WAIT_2"}
      BY <2>1, <2>5 DEF SocketTypes, States
    <3>2. StreamInOrder' /\ StreamFollows'
      BY <2>1, <3>1, KeptStream DEF streamVars, Synced
    <3> QED BY <1>1, <2>1, <2>2, <3>1, <3>2 DEF Kept
  <2>6. CASE UNCHANGED <<in_use, state, backlog, overdrawn>>
    <3>1. UNCHANGED socketVars
      BY <2>1, <2>6 DEF socketVars
    <3>2. StreamInOrder' /\ StreamFollows'
      BY <2>1, <2>6, KeptStream DEF streamVars
    <3> QED BY <1>1, <2>1, <2>2, <3>1, <3>2 DEF Kept
  <2> QED BY <1>3, <2>3, <2>4, <2>5, <2>6 DEF Acknowledge
<1>4. ASSUME PeerClosed(h) PROVE IInv'
  <2>1. IsSegment(rx[h].seg) /\ rx[h].i \in Slots
    BY <1>4, AtSegment DEF PeerClosed, WalkLabels
  <2>2. /\ state' \in [Slots -> States]
        /\ \A k \in Slots : \/ state'[k] = state[k]
                            \/ state'[k] = "CLOSE_WAIT" /\ state[k] = "ESTABLISHED"
                            \/ state'[k] = "TIME_WAIT"
    <3>1. PICK v \in States :
            /\ state' = [state EXCEPT ![rx[h].i] = v]
            /\ \/ v \in {state[rx[h].i], "TIME_WAIT"}
               \/ v = "CLOSE_WAIT" /\ state[rx[h].i] = "ESTABLISHED"
      <4>1. state[rx[h].i] \in States /\ {"CLOSE_WAIT", "TIME_WAIT"} \subseteq States
        BY <2>1 DEF SocketTypes, States
      <4>2. CASE state[rx[h].i] = "ESTABLISHED"
        <5>1. state' = [state EXCEPT ![rx[h].i] = "CLOSE_WAIT"]
          BY <1>4, <4>2 DEF PeerClosed
        <5> QED BY <4>1, <4>2, <5>1
      <4>3. CASE state[rx[h].i] = "FIN_WAIT_2"
        <5>1. state' = [state EXCEPT ![rx[h].i] = "TIME_WAIT"]
          BY <1>4, <4>3 DEF PeerClosed
        <5> QED BY <4>1, <4>3, <5>1
      <4>4. CASE state[rx[h].i] \notin {"ESTABLISHED", "FIN_WAIT_2"}
        BY <1>4, <4>1, <4>4 DEF PeerClosed
      <4> QED BY <4>2, <4>3, <4>4
    <3> QED BY <2>1, <3>1 DEF SocketTypes
  <2>3. SocketTypes'
    BY <1>4, <2>2 DEF PeerClosed, SocketTypes
  <2>4. RxTypes'
    BY <1>4, <2>1, OnwardTypes, SlotIsNat DEF PeerClosed
  <2>5. StreamInOrder' /\ StreamFollows'
    BY <1>4, <2>2, KeptStream DEF PeerClosed, streamVars, Synced
  <2> QED BY <1>1, <1>4, <2>3, <2>4, <2>5 DEF PeerClosed, Kept
<1> QED BY <1>2, <1>3, <1>4

(* What the handler takes is what comes next: with no sequence number 0    *)
(* among those of the stream, a segment with anything else is refused.     *)
LEMMA AcceptableNext ==
  ASSUME NoWrap, TypeOK, StreamFollows, NEW j \in Slots, NEW g, IsSegment(g)
  PROVE  /\ Acceptable(j, g) \in 0 .. g.len
         /\ g.len \in Nat
         /\ Acceptable(j, g) > 0 =>
              /\ state[j] \in Synced
              /\ g.first = got[j] + Len(recv_buf[j]) + 1
              /\ g.first + Acceptable(j, g) - 1 <= STREAM
              /\ Acceptable(j, g) <= TCP_BUF_SIZE - Len(recv_buf[j])
<1> DEFINE f == g.first
           l == g.len
           m == got[j] + Len(recv_buf[j]) + 1
           free == TCP_BUF_SIZE - Len(recv_buf[j])
<1>1. f \in 0 .. STREAM + 1 /\ l \in Nat /\ (l > 0 => f + l - 1 <= STREAM)
  BY TcpAssumption DEF IsSegment, Segments
<1>2. free \in Nat /\ m \in 1 .. STREAM + 1
  <2>1. recv_buf[j] \in Seq(Nat) /\ Len(recv_buf[j]) <= TCP_BUF_SIZE /\ got[j] \in Nat
    BY DEF TypeOK, StreamTypes
  <2>2. got[j] + Len(recv_buf[j]) <= STREAM
    BY DEF StreamFollows
  <2> QED BY <2>1, <2>2, TcpAssumption
<1>3. Least(l, free) \in 0 .. l /\ Least(l, free) <= free
  BY <1>1, <1>2 DEF Least
<1>4. Acceptable(j, g) \in {0, Least(l, free)}
  BY DEF Acceptable
<1>5. ASSUME Acceptable(j, g) > 0
      PROVE  /\ state[j] \in Synced /\ f = m
             /\ Acceptable(j, g) = Least(l, free)
  <2>1. /\ state[j] \in {"ESTABLISHED", "CLOSE_WAIT"}
        /\ recv_next_seq[j] = 0 \/ SeqOf(f) = recv_next_seq[j]
        /\ Acceptable(j, g) = Least(l, free)
    BY <1>5 DEF Acceptable
  <2>2. recv_next_seq[j] = SeqOf(m)
    BY <2>1 DEF StreamFollows, Synced
  <2>3. SeqOf(m) = IRS + m
    BY <1>2, SeqOfPlain, TcpAssumption
  <2>4. SeqOf(f) = IRS + f
    BY <1>1, SeqOfPlain, TcpAssumption
  <2>5. f = m
    BY <1>1, <1>2, <2>1, <2>2, <2>3, <2>4, TcpAssumption
  <2> QED BY <2>1, <2>5 DEF Synced
<1> HIDE DEF f, l, m, free
<1>6. Acceptable(j, g) \in 0 .. l
  BY <1>1, <1>3, <1>4
<1>7. ASSUME Acceptable(j, g) > 0
      PROVE  f + Acceptable(j, g) - 1 <= STREAM /\ Acceptable(j, g) <= free
  <2>1. l > 0 /\ Acceptable(j, g) <= l
    BY <1>1, <1>6, <1>7
  <2> QED BY <1>1, <1>3, <1>5, <1>6, <1>7, <2>1, TcpAssumption
<1> QED BY <1>1, <1>5, <1>6, <1>7 DEF f, l, m, free

LEMMA TakeDataKeeps ==
  ASSUME NoWrap, IInv, NEW h \in Handlers, TakeData(h)
  PROVE  IInv'
<1> USE DEF IInv, TypeOK
<1> DEFINE g == rx[h].seg
           j == rx[h].i
           c == Acceptable(j, g)
<1>1. Kept
  BY KeptTypes
<1>2. /\ IsSegment(g) /\ j \in Slots
      /\ UNCHANGED <<socketVars, recv_window, got, netVars, app, own>>
  BY AtSegment DEF TakeData, WalkLabels
<1>3. CASE c = 0
  <2>1. ToFin(h, g, j) /\ UNCHANGED <<recv_buf, recv_next_seq, ack_num>>
    BY <1>3 DEF TakeData
  <2>2. RxTypes'
    BY <1>2, <2>1, ToFinTypes
  <2>3. StreamInOrder' /\ StreamFollows'
    BY <1>2, <2>1, KeptStream DEF socketVars
  <2> QED BY <1>1, <1>2, <2>1, <2>2, <2>3 DEF Kept, streamVars
<1>4. CASE c # 0
  <2> DEFINE s == recv_buf[j]
             n == got[j]
  <2>1. /\ c \in Nat /\ state[j] \in Synced
        /\ g.first = n + Len(s) + 1
        /\ g.first + c - 1 <= STREAM
        /\ c <= TCP_BUF_SIZE - Len(s)
    <3>1. c \in 0 .. g.len /\ g.len \in Nat
      BY <1>2, AcceptableNext
    <3>2. c > 0
      BY <1>4, <3>1
    <3> QED BY <1>2, <3>1, <3>2, AcceptableNext
  <2>2. /\ recv_buf' = [recv_buf EXCEPT ![j] = s \o Bytes(g.first, c)]
        /\ recv_next_seq' = [recv_next_seq EXCEPT ![j] = SeqOf(g.first + c)]
        /\ ack_num' = [ack_num EXCEPT ![j] = SeqOf(g.first + c)]
        /\ Walk(h, "window", g, j)
    BY <1>4 DEF TakeData, AckTaken
  <2>3. /\ s \in Seq(Nat) /\ n \in Nat /\ Len(s) \in Nat
        /\ \A i \in 1 .. Len(s) : s[i] = n + i
    BY <1>2 DEF StreamTypes, StreamInOrder
  <2> HIDE DEF g, j, c, s, n
  <2>4. PICK r \in Seq(Nat) :
          /\ r = s \o Bytes(g.first, c)
          /\ Len(r) = Len(s) + c
          /\ \A i \in 1 .. Len(r) : r[i] = n + i
    BY <2>1, <2>3, TakenInOrder
  <2>5. /\ n + Len(r) <= STREAM /\ Len(r) <= TCP_BUF_SIZE
        /\ g.first + c = n + Len(r) + 1 /\ g.first + c \in Nat
    <3>1. Len(r) = Len(s) + c /\ n \in Nat /\ Len(s) \in Nat /\ c \in Nat
      BY <2>1, <2>3, <2>4
    <3>2. g.first = n + Len(s) + 1 /\ g.first + c - 1 <= STREAM /\ c <= TCP_BUF_SIZE - Len(s)
      BY <2>1
    <3> QED BY <3>1, <3>2, TcpAssumption
  <2>6. recv_buf' = [recv_buf EXCEPT ![j] = r]
    BY <2>2, <2>4
  <2>7. SeqOf(g.first + c) \in 0 .. SEQS - 1
    BY <2>5, SeqOfType
  <2>8. StreamTypes'
    BY <1>2, <2>2, <2>5, <2>6, <2>7 DEF StreamTypes
  <2>9. RxTypes'
    BY <1>2, <2>2, WalkTypes, SlotIsNat DEF WalkLabels
  <2>10. /\ recv_buf'[j] = r /\ got'[j] = n /\ state'[j] = state[j]
         /\ recv_next_seq'[j] = SeqOf(n + Len(r) + 1)
         /\ \A k \in Slots \ {j} :
              /\ recv_buf'[k] = recv_buf[k] /\ got'[k] = got[k]
              /\ state'[k] = state[k] /\ recv_next_seq'[k] = recv_next_seq[k]
    BY <1>2, <2>2, <2>5, <2>6 DEF StreamTypes, socketVars, n
  <2>11. StreamInOrder'
    BY <2>4, <2>10 DEF StreamInOrder
  <2>12. StreamFollows'
    BY <2>1, <2>5, <2>10 DEF StreamFollows, SeqOf, Synced
  <2> QED BY <1>1, <1>2, <2>8, <2>9, <2>11, <2>12 DEF Kept
<1> QED BY <1>3, <1>4

LEMMA AnnouncementsKeep ==
  ASSUME IInv, NEW h \in Handlers
  PROVE  /\ SetWindow(h) => IInv'
         /\ SeeFin(h) => IInv'
<1> USE DEF IInv, TypeOK
<1>1. Kept
  BY KeptTypes
<1>2. ASSUME SetWindow(h) PROVE IInv'
  <2> DEFINE j == rx[h].i
  <2>1. j \in Slots /\ rx[h].at # "idle"
    BY <1>2, AtSegment DEF SetWindow, WalkLabels
  <2>2. /\ recv_window' = [recv_window EXCEPT ![j] = TCP_BUF_SIZE - Len(recv_buf[j])]
        /\ Answer(h, j, "fin", j) \/ Answer(h, j, "walk", j + 1)
        /\ UNCHANGED <<socketVars, ack_num, recv_next_seq, recv_buf, got, netVars, app, own>>
    BY <1>2 DEF SetWindow
  <2> HIDE DEF j
  <2>3. TCP_BUF_SIZE - Len(recv_buf[j]) \in 0 .. TCP_BUF_SIZE
    <3>1. Len(recv_buf[j]) \in 0 .. TCP_BUF_SIZE
      BY <2>1, TcpAssumption DEF StreamTypes
    <3> QED BY <3>1, TcpAssumption
  <2>4. StreamTypes'
    BY <2>1, <2>2, <2>3 DEF StreamTypes
  <2>5. RxTypes'
    BY <2>1, <2>2, AnswerTypes, SlotIsNat DEF WalkLabels
  <2>6. StreamInOrder' /\ StreamFollows'
    BY <2>2, KeptStream DEF socketVars
  <2> QED BY <1>1, <2>2, <2>4, <2>5, <2>6 DEF Kept
<1>3. ASSUME SeeFin(h) PROVE IInv'
  <2> DEFINE j == rx[h].i
             a == SeqOf(rx[h].seg.first + 1)
  <2>1. j \in Slots /\ rx[h].at # "idle" /\ rx[h].seg.first \in Nat
    BY <1>3, AtSegment, TcpAssumption DEF SeeFin, WalkLabels, IsSegment, Segments
  <2>2. /\ ack_num' = [ack_num EXCEPT ![j] = a]
        /\ Answer(h, j, "peer_closed", j)
        /\ UNCHANGED <<socketVars, recv_next_seq, recv_buf, recv_window, got, netVars, app, own>>
    BY <1>3 DEF SeeFin
  <2>3. a \in 0 .. SEQS - 1
    BY <2>1, SeqOfType
  <2> HIDE DEF j, a
  <2>4. StreamTypes'
    BY <2>1, <2>2, <2>3 DEF StreamTypes
  <2>5. RxTypes'
    BY <2>1, <2>2, AnswerTypes, SlotIsNat DEF WalkLabels
  <2>6. StreamInOrder' /\ StreamFollows'
    BY <2>2, KeptStream DEF socketVars
  <2> QED BY <1>1, <2>2, <2>4, <2>5, <2>6 DEF Kept
<1> QED BY <1>2, <1>3

LEMMA HandlerKeeps ==
  ASSUME NoWrap, IInv, NEW h \in Handlers, tcp_process_packet(h)
  PROVE  IInv'
BY WalkKeeps, PassiveOpenKeeps, HandshakeKeeps, StateStepsKeep, TakeDataKeeps,
   AnnouncementsKeep DEF tcp_process_packet

-----------------------------------------------------------------------------
LEMMA Initially == Init => IInv
<1> SUFFICES ASSUME Init PROVE IInv
  OBVIOUS
<1>1. SocketTypes
  BY TcpAssumption DEF Init, SocketTypes, States, OVERDRAFT
<1>2. StreamTypes
  BY TcpAssumption DEF Init, StreamTypes
<1>3. NetTypes
  BY TcpAssumption DEF Init, NetTypes
<1>4. ThreadTypes
  BY DEF Init, ThreadTypes, Idle, CallLabels
<1>5. RxTypes
  BY DEF Init, RxTypes, Quiet, WalkLabels
<1>6. StreamInOrder /\ StreamFollows
  BY TcpAssumption DEF Init, StreamInOrder, StreamFollows, Synced
<1> QED BY <1>1, <1>2, <1>3, <1>4, <1>5, <1>6 DEF IInv, TypeOK

(* The invariant holds throughout, as long as no sequence number of a      *)
(* peer's stream wraps around: tcp_process_packet reads a recv_next_seq of *)
(* 0 as "nothing known yet" and then takes any segment.                    *)
THEOREM Inductive ==
  ASSUME NoWrap
  PROVE  Spec => []IInv
<1>1. Init => IInv
  BY Initially
<1>2. IInv /\ [Next]_vars => IInv'
  <2> SUFFICES ASSUME IInv, [Next]_vars PROVE IInv'
    OBVIOUS
  <2>1. ASSUME NEW t \in Threads, CallStep(t) PROVE IInv'
    BY <2>1, CallKeeps
  <2>2. ASSUME NEW h \in Handlers, tcp_process_packet(h) PROVE IInv'
    BY <2>2, HandlerKeeps
  <2>3. CASE UNCHANGED vars
    <3>1. UNCHANGED <<socketVars, streamVars, netVars, tcp_lock, app, own, rx>>
      BY <2>3 DEF vars, socketVars, streamVars, netVars
    <3>2. ThreadTypes'
      BY <3>1, KeptTypes DEF Kept, IInv
    <3> QED BY <3>1, <3>2, OnlyMoves
  <2> QED BY <2>1, <2>2, <2>3 DEF Next
<1> QED BY <1>1, <1>2, PTL DEF Spec

(* Every field stays in its range, whatever the network delivers, resets   *)
(* included: no receive buffer overflows in the memcpy of                  *)
(* tcp_process_packet, and a backlog never has more than TCP_MAX_BACKLOG   *)
(* entries.  A backlog_count may be below 0 (down to the bound of the      *)
(* model): see CountsStayUp for when it is not.                            *)
THEOREM TypeCorrect ==
  ASSUME NoWrap
  PROVE  Spec => []TypeOK
<1>1. IInv => TypeOK
  BY DEF IInv
<1> QED BY <1>1, Inductive, PTL

(* Whatever segments arrive, in any order and any number of times, and     *)
(* whatever the threads do meanwhile, each socket's buffer holds the bytes *)
(* of the peer's stream that follow those handed out, each once and in     *)
(* order (tcp.c, the order check of tcp_process_packet and tcp_recv).      *)
THEOREM StreamArrivesInOrder ==
  ASSUME NoWrap
  PROVE  Spec => []StreamInOrder
<1>1. IInv => StreamInOrder
  BY DEF IInv
<1> QED BY <1>1, Inductive, PTL

-----------------------------------------------------------------------------
(* Acknowledgements.  AckCoversBuffered speaks of the sockets whose FIN is *)
(* not being answered; its invariant also says of those a peer opens what  *)
(* their ack_num is, and that nobody who still has data or a FIN in hand   *)
(* has it for such a socket: a handler lets go of tcp_lock before it comes *)
(* to the FIN, and meanwhile the socket may have been freed and its slot   *)
(* taken for another connection.                                           *)

(* Only a call has no ACK flag; without Resets, nothing has RST.           *)
Flagged(g) ==
  /\ "FIN" \in g.flags \/ g.len > 0 => "ACK" \in g.flags
  /\ "RST" \in g.flags => Resets

HandlerInv ==
  \A h \in Handlers :
    /\ rx[h].at # "idle" => Flagged(rx[h].seg)
    /\ rx[h].at \notin {"answer", "relock"} => rx[h].next = none
    /\ rx[h].next \in {none, "walk", "fin", "peer_closed"}

(* A workload without tcp_connect: only netd handles segments.  One        *)
(* without tcp_listen: no socket is opened by a peer.                      *)
NoCallers ==
  \A t \in Threads : app[t].at \notin {"connect", "reconnect"} /\ rx[t].at = "idle"

NoListeners ==
  \A k \in Slots :
    /\ state[k] \notin {"LISTEN", "SYN_RECEIVED"} /\ port[k] # SERVICE
    /\ in_use[k] => port[k] # none

(* The threads of the workload only call, or only listen.                  *)
OneSided == "connect" \notin Ops \/ "listen" \notin Ops

Sided ==
  /\ "connect" \notin Ops => NoCallers
  /\ "listen" \notin Ops => NoListeners

(* h has data or a FIN to handle, for the socket it is at.                 *)
Handling(h) ==
  \/ rx[h].at \in {"data", "window", "fin", "peer_closed"}
  \/ rx[h].next \in {"fin", "peer_closed"}

NotOpening == \A h \in Handlers : Handling(h) => state[rx[h].i] # "SYN_RECEIVED"

AckExact ==
  \A k \in Slots :
    (\/ state[k] = "SYN_RECEIVED"
     \/ state[k] = "ESTABLISHED" /\ ~AnsweringFin(k))
      => ack_num[k] = SeqOf(got[k] + Len(recv_buf[k]) + 1)

AckInv == HandlerInv /\ Sided /\ NotOpening /\ AckExact

-----------------------------------------------------------------------------
(* What a handler has in hand.                                             *)

LEMMA CallsLeaveRx == ASSUME NEW t \in Threads, CallStep(t) PROVE rx' = rx
BY DEF CallStep, Connect, ConnectDone, ConnectRefused, ConnectRetry, ConnectGiveUp, tcp_socket,
   tcp_bind, tcp_listen, Accept, AcceptSee, AcceptTake, Receive, ReceiveSee, ReceiveEnd,
   WaitTimeout, ReceiveCopy, Send, SendSegment, Close

LEMMA SentIsFlagged ==
  ASSUME NEW pr \in Peers, NEW pt \in Ports, NEW g \in Sent(pr, pt)
  PROVE  Flagged(g)
<1>1. CASE g = Segment(pr, pt, IF pt = SERVICE THEN {"SYN"} ELSE {"SYN", "ACK"}, 0, 0)
  BY <1>1 DEF Segment, Flagged
<1>2. CASE Resets /\ g = Segment(pr, pt, {"ACK", "RST"}, 1, 0)
  BY <1>2 DEF Segment, Flagged
<1>3. CASE \E n, c : g = Segment(pr, pt, {"ACK"}, n, c)
  BY <1>3 DEF Segment, Flagged
<1>4. CASE \E n, c : g = Segment(pr, pt, {"ACK", "FIN"}, n, c)
  BY <1>4 DEF Segment, Flagged
<1> QED BY <1>1, <1>2, <1>3, <1>4 DEF Sent

(* What becomes of rx in a step of h.                                      *)
Sound(r) ==
  /\ r.at # "idle" => Flagged(r.seg)
  /\ r.at \notin {"answer", "relock"} => r.next = none
  /\ r.next \in {none, "walk", "fin", "peer_closed"}

LEMMA WalkMoves ==
  ASSUME NEW h, NEW label \in WalkLabels, NEW g, Flagged(g), NEW i, Walk(h, label, g, i)
  PROVE  \E r : /\ rx' = [rx EXCEPT ![h] = r] /\ Sound(r)
                /\ r.at = label /\ r.next = none /\ r.i = i
<1> DEFINE r == [at |-> label, seg |-> g, i |-> i, to |-> none, next |-> none]
<1>1. rx' = [rx EXCEPT ![h] = r] /\ Sound(r) /\ r.at = label /\ r.next = none /\ r.i = i
  BY DEF Walk, Sound, WalkLabels
<1> QED BY <1>1

LEMMA OnwardMoves ==
  ASSUME NEW h, NEW g, Flagged(g), NEW i, Onward(h, g, i)
  PROVE  \E r : /\ rx' = [rx EXCEPT ![h] = r] /\ Sound(r)
                /\ r.at \in {"walk", "idle"} /\ r.next = none
<1>1. CASE Walk(h, "walk", g, i)
  <2>1. PICK r : /\ rx' = [rx EXCEPT ![h] = r] /\ Sound(r)
                 /\ r.at = "walk" /\ r.next = none /\ r.i = i
    BY <1>1, WalkMoves DEF WalkLabels
  <2> QED BY <2>1
<1>2. CASE Leave(h)
  <2>1. /\ rx' = [rx EXCEPT ![h] = Quiet]
        /\ Sound(Quiet) /\ Quiet.at = "idle" /\ Quiet.next = none
    BY <1>2 DEF Leave, Quiet, Sound
  <2> QED BY <2>1
<1> QED BY <1>1, <1>2 DEF Onward

(* After the state: to the data, to the FIN, or to the next socket.        *)
LEMMA ToFinMoves ==
  ASSUME NEW h, NEW g, Flagged(g), NEW j, ToFin(h, g, j)
  PROVE  \E r : /\ rx' = [rx EXCEPT ![h] = r] /\ Sound(r) /\ r.next = none
                /\ \/ r.at \in {"walk", "idle"}
                   \/ r.at = "fin" /\ r.i = j /\ "ACK" \in g.flags
<1>1. CASE "FIN" \in g.flags /\ Walk(h, "fin", g, j)
  <2>1. "ACK" \in g.flags
    BY <1>1 DEF Flagged
  <2>2. PICK r : /\ rx' = [rx EXCEPT ![h] = r] /\ Sound(r)
                 /\ r.at = "fin" /\ r.next = none /\ r.i = j
    BY <1>1, WalkMoves DEF WalkLabels
  <2> QED BY <2>1, <2>2
<1>2. CASE Onward(h, g, j + 1)
  BY <1>2, OnwardMoves
<1> QED BY <1>1, <1>2 DEF ToFin

LEMMA ToDataMoves ==
  ASSUME NEW h, NEW g, Flagged(g), NEW j, ToData(h, g, j)
  PROVE  \E r : /\ rx' = [rx EXCEPT ![h] = r] /\ Sound(r) /\ r.next = none
                /\ \/ r.at \in {"walk", "idle"}
                   \/ r.at \in {"data", "fin"} /\ r.i = j /\ "ACK" \in g.flags
<1>1. CASE g.len > 0 /\ Walk(h, "data", g, j)
  <2>1. "ACK" \in g.flags
    BY <1>1 DEF Flagged
  <2>2. PICK r : /\ rx' = [rx EXCEPT ![h] = r] /\ Sound(r)
                 /\ r.at = "data" /\ r.next = none /\ r.i = j
    BY <1>1, WalkMoves DEF WalkLabels
  <2> QED BY <2>1, <2>2
<1>2. CASE ToFin(h, g, j)
  BY <1>2, ToFinMoves
<1> QED BY <1>1, <1>2 DEF ToData

LEMMA AnswerMoves ==
  ASSUME NEW h, Flagged(rx[h].seg), NEW n, NEW next \in {"walk", "fin", "peer_closed"}, NEW i,
         Answer(h, n, next, i)
  PROVE  \E r : /\ rx' = [rx EXCEPT ![h] = r] /\ Sound(r)
                /\ r.at = "answer" /\ r.next = next /\ r.i = i
<1> DEFINE r == [at |-> "answer", seg |-> rx[h].seg, i |-> i, to |-> n, next |-> next]
<1>1. /\ rx' = [rx EXCEPT ![h] = r] /\ Sound(r)
      /\ r.at = "answer" /\ r.next = next /\ r.i = i
  BY DEF Answer, Sound
<1> QED BY <1>1

MovesTo(h, r) == rx' = [rx EXCEPT ![h] = r] /\ Sound(r)

(* Neither data nor a FIN in hand.                                         *)
Rests(r) ==
  /\ r.at \in {"walk", "idle", "answer", "relock"}
  /\ r.next \notin {"fin", "peer_closed"}

LEMMA NoneIsNoLabel == none \notin WalkLabels /\ none \notin {"fin", "peer_closed"}
BY TcpAssumption DEF WalkLabels

LEMMA OnwardRests ==
  ASSUME NEW h, NEW g, Flagged(g), NEW i, Onward(h, g, i)
  PROVE  \E r : MovesTo(h, r) /\ Rests(r)
<1>1. PICK r : /\ rx' = [rx EXCEPT ![h] = r] /\ Sound(r)
               /\ r.at \in {"walk", "idle"} /\ r.next = none
  BY OnwardMoves
<1> QED BY <1>1, NoneIsNoLabel DEF MovesTo, Rests

(* The steps after which h has nothing in hand.                            *)
LEMMA Resting ==
  ASSUME IInv, HandlerInv, NEW h \in Handlers
  PROVE  /\ Arrive(h) \/ WalkEnds(h) => \E r : MovesTo(h, r) /\ Rests(r)
         /\ \A j \in Slots : PassiveOpen(h, j) \/ Handshake(h, j) \/ Reset(h, j)
              => \E r : MovesTo(h, r) /\ Rests(r)
         /\ PeerClosed(h) => \E r : MovesTo(h, r) /\ Rests(r)
<1> USE DEF IInv, TypeOK
<1>1. ASSUME Arrive(h) PROVE \E r : MovesTo(h, r) /\ Rests(r)
  <2>1. PICK pr \in Peers, pt \in Ports : \E g \in Sent(pr, pt) : Walk(h, "walk", g, 0)
    BY <1>1 DEF Arrive
  <2>2. PICK g \in Sent(pr, pt) : Walk(h, "walk", g, 0)
    BY <2>1
  <2>3. Flagged(g)
    BY SentIsFlagged
  <2>4. PICK r : /\ rx' = [rx EXCEPT ![h] = r] /\ Sound(r)
                 /\ r.at = "walk" /\ r.next = none /\ r.i = 0
    BY <2>2, <2>3, WalkMoves DEF WalkLabels
  <2> QED BY <2>4, NoneIsNoLabel DEF MovesTo, Rests
<1>2. ASSUME WalkEnds(h) PROVE \E r : MovesTo(h, r) /\ Rests(r)
  <2>1. /\ rx' = [rx EXCEPT ![h] = Quiet]
        /\ Sound(Quiet) /\ Quiet.at = "idle" /\ Quiet.next = none
    BY <1>2 DEF WalkEnds, Leave, Quiet, Sound
  <2> QED BY <2>1, NoneIsNoLabel DEF MovesTo, Rests
<1>3. rx[h].at # "idle" => Flagged(rx[h].seg)
  BY DEF HandlerInv
<1>4. ASSUME NEW n, NEW i, Answer(h, n, "walk", i), rx[h].at # "idle"
      PROVE  \E r : MovesTo(h, r) /\ Rests(r)
  <2>1. PICK r : /\ rx' = [rx EXCEPT ![h] = r] /\ Sound(r)
                 /\ r.at = "answer" /\ r.next = "walk" /\ r.i = i
    BY <1>3, <1>4, AnswerMoves
  <2> QED BY <2>1 DEF MovesTo, Rests
<1>5. ASSUME NEW j \in Slots, PassiveOpen(h, j) PROVE \E r : MovesTo(h, r) /\ Rests(r)
  <2>1. rx[h].at # "idle"
    BY <1>5 DEF PassiveOpen, IsNextMatch
  <2>2. Onward(h, rx[h].seg, j + 1) \/ \E n \in Slots : Answer(h, n, "walk", j + 1)
    BY <1>5 DEF PassiveOpen
  <2> QED BY <1>3, <1>4, <2>1, <2>2, OnwardRests
<1>6. ASSUME NEW j \in Slots, Handshake(h, j) PROVE \E r : MovesTo(h, r) /\ Rests(r)
  <2>1. rx[h].at # "idle" /\ Answer(h, j, "walk", j + 1)
    BY <1>6 DEF Handshake, IsNextMatch
  <2> QED BY <1>4, <2>1
<1>7. ASSUME NEW j \in Slots, Reset(h, j) PROVE \E r : MovesTo(h, r) /\ Rests(r)
  <2>1. rx[h].at # "idle" /\ Onward(h, rx[h].seg, j + 1)
    BY <1>7 DEF Reset, IsNextMatch
  <2> QED BY <1>3, <2>1, OnwardRests
<1>8. ASSUME PeerClosed(h) PROVE \E r : MovesTo(h, r) /\ Rests(r)
  <2>1. rx[h].at # "idle" /\ Onward(h, rx[h].seg, rx[h].i + 1)
    BY <1>8 DEF PeerClosed
  <2> QED BY <1>3, <2>1, OnwardRests
<1> QED BY <1>1, <1>2, <1>5, <1>6, <1>7, <1>8

(* The others, and what h has in hand then.                                *)
LEMMA Moving ==
  ASSUME IInv, HandlerInv, NEW h \in Handlers
  PROVE  /\ \A j \in Slots : Acknowledge(h, j) =>
              \E r : /\ MovesTo(h, r) /\ r.next = none
                    /\ \/ r.at \in {"walk", "idle"}
                       \/ /\ r.at \in {"data", "fin"} /\ r.i = j
                          /\ state'[j] # "SYN_RECEIVED"
         /\ TakeData(h) \/ SetWindow(h) \/ SeeFin(h) =>
              \E r : MovesTo(h, r) /\ (Rests(r) \/ r.i = rx[h].i)
         /\ SendAnswer(h) \/ Relock(h) =>
              \E r : MovesTo(h, r) /\ (Rests(r) \/ (r.i = rx[h].i /\ Handling(h)))
<1> USE DEF IInv, TypeOK
<1>1. rx[h].at # "idle" => Flagged(rx[h].seg)
  BY DEF HandlerInv
<1>2. ASSUME NEW j \in Slots, Acknowledge(h, j)
      PROVE  \E r : /\ MovesTo(h, r) /\ r.next = none
                    /\ \/ r.at \in {"walk", "idle"}
                       \/ /\ r.at \in {"data", "fin"} /\ r.i = j
                          /\ state'[j] # "SYN_RECEIVED"
  <2> DEFINE g == rx[h].seg
  <2>1. Flagged(g)
    BY <1>1, <1>2 DEF Acknowledge, IsNextMatch
  <2>2. CASE Onward(h, g, j + 1)
    BY <2>1, <2>2, OnwardMoves DEF MovesTo
  <2>3. CASE ToData(h, g, j) /\ ("ACK" \in g.flags => state'[j] # "SYN_RECEIVED")
    <3>1. PICK r : /\ rx' = [rx EXCEPT ![h] = r] /\ Sound(r) /\ r.next = none
                   /\ \/ r.at \in {"walk", "idle"}
                      \/ r.at \in {"data", "fin"} /\ r.i = j /\ "ACK" \in g.flags
      BY <2>1, <2>3, ToDataMoves
    <3> QED BY <2>3, <3>1 DEF MovesTo
  <2>4. \/ Onward(h, g, j + 1)
        \/ ToData(h, g, j) /\ ("ACK" \in g.flags => state'[j] # "SYN_RECEIVED")
    BY <1>2 DEF Acknowledge, Establish, SocketTypes
  <2> QED BY <2>2, <2>3, <2>4
<1>3. ASSUME NEW label \in WalkLabels, NEW g, Flagged(g), NEW i, Walk(h, label, g, i)
      PROVE  \E r : MovesTo(h, r) /\ r.i = i
  BY <1>3, WalkMoves DEF MovesTo
<1>4. ASSUME TakeData(h)
      PROVE  \E r : MovesTo(h, r) /\ (Rests(r) \/ r.i = rx[h].i)
  <2> DEFINE g == rx[h].seg
             j == rx[h].i
  <2>1. Flagged(g) /\ (Walk(h, "window", g, j) \/ ToFin(h, g, j))
    BY <1>1, <1>4 DEF TakeData
  <2>2. CASE Walk(h, "window", g, j)
    BY <1>3, <2>1, <2>2 DEF WalkLabels
  <2>3. CASE ToFin(h, g, j)
    <3>1. PICK r : /\ rx' = [rx EXCEPT ![h] = r] /\ Sound(r) /\ r.next = none
                   /\ \/ r.at \in {"walk", "idle"}
                      \/ r.at = "fin" /\ r.i = j /\ "ACK" \in g.flags
      BY <2>1, <2>3, ToFinMoves
    <3> QED BY <3>1, NoneIsNoLabel DEF MovesTo, Rests
  <2> QED BY <2>1, <2>2, <2>3
<1>5. ASSUME NEW n, NEW next \in {"walk", "fin", "peer_closed"}, NEW i,
             Answer(h, n, next, i), rx[h].at # "idle"
      PROVE  \E r : MovesTo(h, r) /\ r.at = "answer" /\ r.next = next /\ r.i = i
  BY <1>1, <1>5, AnswerMoves DEF MovesTo
<1>6. ASSUME SetWindow(h) \/ SeeFin(h)
      PROVE  \E r : MovesTo(h, r) /\ (Rests(r) \/ r.i = rx[h].i)
  <2> DEFINE j == rx[h].i
  <2>1. /\ rx[h].at # "idle"
        /\ \/ Answer(h, j, "fin", j) \/ Answer(h, j, "walk", j + 1)
           \/ Answer(h, j, "peer_closed", j)
    BY <1>6 DEF SetWindow, SeeFin
  <2>2. CASE Answer(h, j, "walk", j + 1)
    <3>1. PICK r : MovesTo(h, r) /\ r.at = "answer" /\ r.next = "walk" /\ r.i = j + 1
      BY <1>5, <2>1, <2>2
    <3> QED BY <3>1 DEF Rests
  <2> QED BY <1>5, <2>1, <2>2
<1>7. ASSUME SendAnswer(h)
      PROVE  \E r : MovesTo(h, r) /\ (Rests(r) \/ (r.i = rx[h].i /\ Handling(h)))
  <2> DEFINE r == [rx[h] EXCEPT !.at = "relock"]
  <2>1. /\ rx' = [rx EXCEPT ![h] = r] /\ rx[h].at = "answer"
        /\ r.at = "relock" /\ r.seg = rx[h].seg /\ r.i = rx[h].i /\ r.next = rx[h].next
    BY <1>7 DEF SendAnswer, RxTypes
  <2>2. Sound(r)
    BY <1>1, <2>1 DEF Sound, HandlerInv
  <2> HIDE DEF r
  <2> QED BY <2>1, <2>2 DEF MovesTo, Rests, Handling
<1>8. ASSUME Relock(h)
      PROVE  \E r : MovesTo(h, r) /\ (Rests(r) \/ (r.i = rx[h].i /\ Handling(h)))
  <2>1. /\ Flagged(rx[h].seg) /\ rx[h].next \in {"walk", "fin", "peer_closed"}
        /\ IF rx[h].next = "walk" THEN Onward(h, rx[h].seg, rx[h].i)
           ELSE Walk(h, rx[h].next, rx[h].seg, rx[h].i)
    <3>1. rx[h].at = "relock" /\ rx[h].next \in WalkLabels
      BY <1>8, AtSegment DEF Relock
    <3> QED BY <1>1, <1>8, <3>1, NoneIsNoLabel DEF Relock, HandlerInv
  <2> QED BY <1>3, <2>1, OnwardRests DEF Handling, WalkLabels
<1> QED BY <1>2, <1>4, <1>6, <1>7, <1>8

LEMMA HandlerInitially == Init => HandlerInv
BY DEF Init, HandlerInv, Quiet

LEMMA MovedSound ==
  ASSUME RxTypes, HandlerInv, NEW h \in Handlers, NEW r, MovesTo(h, r)
  PROVE  HandlerInv' /\ rx'[h] = r /\ \A o \in Handlers \ {h} : rx'[o] = rx[o]
<1>1. rx'[h] = r /\ \A o \in Handlers \ {h} : rx'[o] = rx[o]
  BY DEF MovesTo, RxTypes
<1>2. Sound(r)
  BY DEF MovesTo
<1>3. HandlerInv'
  BY <1>1, <1>2 DEF HandlerInv, Sound
<1> QED BY <1>1, <1>3

LEMMA SomeMove ==
  ASSUME IInv, HandlerInv, NEW h \in Handlers, tcp_process_packet(h)
  PROVE  \E r : MovesTo(h, r)
<1>1. CASE Arrive(h) \/ WalkEnds(h) \/ PeerClosed(h)
  BY <1>1, Resting
<1>2. CASE \E j \in Slots : PassiveOpen(h, j) \/ Handshake(h, j) \/ Reset(h, j)
  BY <1>2, Resting
<1>3. CASE TakeData(h) \/ SetWindow(h) \/ SeeFin(h) \/ SendAnswer(h) \/ Relock(h)
  BY <1>3, Moving
<1>4. CASE \E j \in Slots : Acknowledge(h, j)
  BY <1>4, Moving
<1> QED BY <1>1, <1>2, <1>3, <1>4 DEF tcp_process_packet

LEMMA HandlerStays ==
  ASSUME IInv, HandlerInv, [Next]_vars
  PROVE  HandlerInv'
<1>1. CASE rx' = rx
  BY <1>1 DEF HandlerInv
<1>2. ASSUME NEW h \in Handlers, tcp_process_packet(h) PROVE HandlerInv'
  BY <1>2, SomeMove, MovedSound DEF IInv, TypeOK
<1>3. ASSUME NEW t \in Threads, CallStep(t) PROVE rx' = rx
  BY <1>3, CallsLeaveRx
<1>4. UNCHANGED vars => rx' = rx
  BY DEF vars
<1> QED BY <1>1, <1>2, <1>3, <1>4 DEF Next

-----------------------------------------------------------------------------
(* Workloads that only listen, and workloads that only call.               *)

LEMMA SidedInitially == Init => Sided
BY TcpAssumption DEF Init, Sided, NoCallers, NoListeners, Idle, Quiet, Handlers

LEMMA NoCallersStays ==
  ASSUME IInv, NoCallers, "connect" \notin Ops, [Next]_vars
  PROVE  NoCallers'
<1> USE DEF IInv, TypeOK, NoCallers
<1>1. app \in [Threads -> [at : CallLabels, fd : Slots \cup {none}]]
  BY DEF ThreadTypes
<1>2. ASSUME NEW t \in Threads, CallStep(t) PROVE NoCallers'
  <2>1. UNCHANGED rx
    BY <1>2, CallsLeaveRx
  <2>2. PICK a : /\ app' = [app EXCEPT ![t] = a] \/ app' = app
                 /\ a.at \notin {"connect", "reconnect"}
    <3>1. CASE \E k, label : Goto(t, label, k) /\ label \notin {"connect", "reconnect"}
      BY <3>1 DEF Goto
    <3>2. CASE Return(t) \/ UNCHANGED app
      <4>1. Idle.at \notin {"connect", "reconnect"}
        BY DEF Idle
      <4> QED BY <3>2, <4>1 DEF Return
    <3>3. \/ \E k, label : Goto(t, label, k) /\ label \notin {"connect", "reconnect"}
          \/ Return(t) \/ UNCHANGED app
      BY <1>2 DEF CallStep, Connect, ConnectDone, ConnectRefused, ConnectRetry, ConnectGiveUp,
         tcp_socket, tcp_bind, tcp_listen, Accept, AcceptSee, AcceptTake, Receive, ReceiveSee,
         ReceiveEnd, WaitTimeout, ReceiveCopy, Send, SendSegment, Close, Call, Connecting
    <3> QED BY <3>1, <3>2, <3>3
  <2> QED BY <1>1, <2>1, <2>2
<1>3. ASSUME NEW h \in Handlers, tcp_process_packet(h) PROVE NoCallers'
  <2>1. h = netd
    BY <1>3 DEF tcp_process_packet, Arrive, MayPoll, WalkEnds, PassiveOpen, Handshake, Reset,
       Acknowledge, IsNextMatch, TakeData, SetWindow, SeeFin, PeerClosed, SendAnswer, Relock,
       Handlers
  <2>2. UNCHANGED app
    BY <1>3 DEF tcp_process_packet, Arrive, WalkEnds, PassiveOpen, Handshake, Reset,
       Acknowledge, TakeData, SetWindow, SeeFin, PeerClosed, SendAnswer, Relock
  <2>3. \A t \in Threads : rx'[t] = rx[t]
    <3>1. \E r : rx' = [rx EXCEPT ![h] = r]
      BY <1>3 DEF tcp_process_packet, Arrive, WalkEnds, PassiveOpen, Handshake, Reset,
         Acknowledge, TakeData, SetWindow, SeeFin, PeerClosed, SendAnswer, Relock, ToData,
         ToFin, Onward, Walk, Leave, Answer
    <3> QED BY <2>1, <3>1, TcpAssumption DEF RxTypes
  <2> QED BY <2>2, <2>3
<1>4. CASE UNCHANGED vars
  BY <1>4 DEF vars
<1> QED BY <1>2, <1>3, <1>4 DEF Next

(* What a step may make of a socket without a listening one.               *)
LEMMA NoListenersStays ==
  ASSUME IInv, NoListeners, "listen" \notin Ops, [Next]_vars
  PROVE  NoListeners'
<1> USE DEF IInv, TypeOK, NoListeners
<1>0. /\ in_use \in [Slots -> BOOLEAN] /\ state \in [Slots -> States]
      /\ port \in [Slots -> Ports \cup {none}]
  BY DEF SocketTypes
(* Sockets are freed, connected, and move on, and keep their ports.        *)
<1>1. ASSUME port' = port,
             \A k \in Slots : state'[k] \in {"LISTEN", "SYN_RECEIVED"} => state'[k] = state[k],
             \A k \in Slots : in_use'[k] => in_use[k]
      PROVE  NoListeners'
  BY <1>1
<1>2. ASSUME NEW t \in Threads, CallStep(t) PROVE NoListeners'
  <2>1. ASSUME NEW pr \in Peers, Connect(t, pr) PROVE NoListeners'
    <3>1. PICK n \in Slots : Renew(n, "SYN_SENT", n, pr, 0)
      BY <2>1 DEF Connect
    <3>2. n # SERVICE /\ n # none
      BY TcpAssumption DEF Slots
    <3> QED BY <1>0, <3>1, <3>2 DEF Renew
  <2>2. CASE tcp_socket(t) \/ \E k \in Slots : tcp_bind(t, k) \/ tcp_listen(t, k)
    BY <2>2 DEF tcp_socket, tcp_bind, tcp_listen
  <2>3. CASE ConnectRefused(t) \/ ConnectGiveUp(t) \/ \E k \in Slots : Close(t, k)
    BY <1>0, <1>1, <2>3 DEF ConnectRefused, ConnectGiveUp, Close, Free
  <2>4. CASE UNCHANGED <<in_use, state, port>>
    BY <1>1, <2>4
  <2> QED BY <1>2, <2>1, <2>2, <2>3, <2>4 DEF CallStep, ConnectDone, ConnectRetry, Accept,
          AcceptSee, AcceptTake, Receive, ReceiveSee, ReceiveEnd, WaitTimeout, ReceiveCopy, Send,
          SendSegment, socketVars
<1>3. ASSUME NEW h \in Handlers, tcp_process_packet(h) PROVE NoListeners'
  <2>1. CASE \E j \in Slots : PassiveOpen(h, j)
    BY <2>1 DEF PassiveOpen, IsCall
  <2>2. CASE \E j \in Slots : Handshake(h, j) \/ Reset(h, j) \/ Acknowledge(h, j)
    BY <1>0, <1>1, <2>2 DEF Handshake, Reset, Acknowledge, Free, Establish
  <2>3. CASE PeerClosed(h)
    <3>1. \A k \in Slots : state'[k] \in {state[k], "CLOSE_WAIT", "TIME_WAIT"}
      BY <1>0, <2>3 DEF PeerClosed
    <3> QED BY <1>1, <2>3, <3>1 DEF PeerClosed
  <2>4. CASE UNCHANGED <<in_use, state, port>>
    BY <1>1, <2>4
  <2> QED BY <1>3, <2>1, <2>2, <2>3, <2>4 DEF tcp_process_packet, Arrive, WalkEnds, TakeData,
          SetWindow, SeeFin, SendAnswer, Relock, socketVars
<1>4. CASE UNCHANGED vars
  BY <1>1, <1>4 DEF vars
<1> QED BY <1>2, <1>3, <1>4 DEF Next

LEMMA SidedStays ==
  ASSUME IInv, Sided, [Next]_vars
  PROVE  Sided'
BY NoCallersStays, NoListenersStays DEF Sided

-----------------------------------------------------------------------------
(* Nobody has data or a FIN in hand for a socket its peer is opening.      *)

LEMMA HandledSlot ==
  ASSUME RxTypes, HandlerInv, NEW h \in Handlers, Handling(h)
  PROVE  rx[h].i \in Slots
<1>1. CASE rx[h].at \in {"data", "window", "fin", "peer_closed"}
  BY <1>1 DEF RxTypes, WalkLabels
<1>2. CASE rx[h].next \in {"fin", "peer_closed"}
  <2>1. rx[h].at \in {"answer", "relock"}
    BY <1>2, NoneIsNoLabel DEF HandlerInv
  <2> QED BY <1>2, <2>1 DEF RxTypes
<1> QED BY <1>1, <1>2 DEF Handling

LEMMA NotOpeningInitially == Init => NotOpening
BY NoneIsNoLabel DEF Init, NotOpening, Handling, Quiet

(* Without tcp_listen no socket is opened by a peer at all.                *)
LEMMA NotOpeningWithoutListeners ==
  ASSUME RxTypes, HandlerInv, NoListeners
  PROVE  NotOpening
BY HandledSlot DEF NotOpening, NoListeners

(* A call opens no socket for a peer.                                      *)
LEMMA CallStates ==
  ASSUME IInv, NEW t \in Threads, CallStep(t)
  PROVE  \A k \in Slots : state'[k] \in {"SYN_RECEIVED", "ESTABLISHED"} => state'[k] = state[k]
<1>0. state \in [Slots -> States]
  BY DEF IInv, TypeOK, SocketTypes
<1>1. CASE tcp_socket(t) \/ \E pr \in Peers : Connect(t, pr)
  BY <1>0, <1>1 DEF tcp_socket, Connect, Renew
<1>2. CASE ConnectGiveUp(t) \/ \E k \in Slots : tcp_listen(t, k)
  BY <1>0, <1>2 DEF ConnectGiveUp, Free, tcp_listen
<1>3. ASSUME NEW k \in Slots, Close(t, k)
      PROVE  \A i \in Slots : state'[i] \in {state[i], "CLOSED", "FIN_WAIT_1", "LAST_ACK"}
  BY <1>0, <1>3 DEF Close, Free
<1>4. CASE state' = state
  BY <1>4
<1> QED BY <1>1, <1>2, <1>3, <1>4 DEF CallStep, ConnectDone, ConnectRefused, ConnectRetry,
        tcp_bind, Accept, AcceptSee, AcceptTake, Receive, ReceiveSee, ReceiveEnd, WaitTimeout,
        ReceiveCopy, Send, SendSegment, socketVars

(* And no handler does, while it has data or a FIN in hand.                *)
LEMMA HandlerStates ==
  ASSUME IInv, NEW h \in Handlers, tcp_process_packet(h),
         ~ \E j \in Slots : PassiveOpen(h, j)
  PROVE  \A k \in Slots : state'[k] = "SYN_RECEIVED" => state[k] = "SYN_RECEIVED"
<1>0. state \in [Slots -> States]
  BY DEF IInv, TypeOK, SocketTypes
<1>1. CASE \E j \in Slots : Handshake(h, j) \/ Reset(h, j) \/ Acknowledge(h, j)
  BY <1>0, <1>1 DEF Handshake, Reset, Acknowledge, Free, Establish
<1>2. CASE PeerClosed(h)
  BY <1>0, <1>2 DEF PeerClosed
<1>3. CASE state' = state
  BY <1>3
<1> QED BY <1>1, <1>2, <1>3 DEF tcp_process_packet, Arrive, WalkEnds, TakeData, SetWindow,
        SeeFin, SendAnswer, Relock, socketVars

(* With tcp_listen and without tcp_connect there is one handler only.      *)
LEMMA NotOpeningWithoutCallers ==
  ASSUME IInv, IInv', HandlerInv, NoCallers, NoCallers', NotOpening, [Next]_vars
  PROVE  NotOpening'
<1> USE DEF IInv, TypeOK
<1>1. ASSUME NEW o \in Threads PROVE ~Handling(o)
  BY <1>1, NoneIsNoLabel DEF NoCallers, HandlerInv, Handling, Handlers
<1>2. ASSUME NEW o \in Threads, rx'[o] = rx[o] PROVE ~Handling(o)'
  BY <1>1, <1>2 DEF Handling
<1>3. Handling(netd) => rx[netd].i \in Slots /\ state[rx[netd].i] # "SYN_RECEIVED"
  BY HandledSlot DEF NotOpening, Handlers
<1>4. ASSUME rx' = rx,
             \A k \in Slots : state'[k] = "SYN_RECEIVED" => state[k] = "SYN_RECEIVED"
      PROVE  NotOpening'
  <2>1. \A o \in Threads : ~Handling(o)'
    BY <1>2, <1>4
  <2>2. Handling(netd)' => state'[rx'[netd].i] # "SYN_RECEIVED"
    BY <1>3, <1>4 DEF Handling
  <2> QED BY <2>1, <2>2 DEF NotOpening, Handlers
<1>5. ASSUME NEW t \in Threads, CallStep(t) PROVE NotOpening'
  BY <1>4, <1>5, CallStates, CallsLeaveRx
<1>6. CASE UNCHANGED vars
  BY <1>4, <1>6 DEF vars
<1>7. ASSUME NEW h \in Handlers, tcp_process_packet(h) PROVE NotOpening'
  <2>1. h = netd
    BY <1>7 DEF tcp_process_packet, Arrive, MayPoll, WalkEnds, PassiveOpen, Handshake, Reset,
       Acknowledge, IsNextMatch, TakeData, SetWindow, SeeFin, PeerClosed, SendAnswer, Relock,
       Handlers, NoCallers
  (* netd comes to r.                                                      *)
  <2>2. ASSUME NEW r, MovesTo(h, r),
               Rests(r) \/ (r.i \in Slots => state'[r.i] # "SYN_RECEIVED")
        PROVE  NotOpening'
    <3>1. rx'[netd] = r /\ \A o \in Threads : rx'[o] = rx[o]
      BY <2>1, <2>2, MovedSound, TcpAssumption DEF Handlers
    <3>2. HandlerInv'
      BY <2>2, MovedSound
    <3>3. Handling(netd)' => r.i \in Slots
      <4>1. (RxTypes /\ HandlerInv /\ Handling(netd))' => rx'[netd].i \in Slots
        BY NoneIsNoLabel DEF RxTypes, HandlerInv, Handling, Handlers, WalkLabels
      <4> QED BY <3>1, <3>2, <4>1
    <3>4. Handling(netd)' => ~Rests(r)
      BY <3>1 DEF Handling, Rests
    <3>5. \A o \in Threads : ~Handling(o)'
      BY <1>2, <3>1
    <3> QED BY <2>2, <3>1, <3>3, <3>4, <3>5 DEF NotOpening, Handlers
  <2>3. CASE \/ Arrive(h) \/ WalkEnds(h) \/ PeerClosed(h)
             \/ \E j \in Slots : PassiveOpen(h, j) \/ Handshake(h, j) \/ Reset(h, j)
    BY <2>2, <2>3, Resting
  <2>4. ASSUME NEW j \in Slots, Acknowledge(h, j) PROVE NotOpening'
    <3>1. PICK r : /\ MovesTo(h, r) /\ r.next = none
                   /\ \/ r.at \in {"walk", "idle"}
                      \/ /\ r.at \in {"data", "fin"} /\ r.i = j
                         /\ state'[j] # "SYN_RECEIVED"
      BY <2>4, Moving
    <3> QED BY <2>2, <3>1, NoneIsNoLabel DEF Rests
  <2>5. CASE TakeData(h) \/ SetWindow(h) \/ SeeFin(h) \/ SendAnswer(h) \/ Relock(h)
    <3>1. UNCHANGED state
      BY <2>5 DEF TakeData, SetWindow, SeeFin, SendAnswer, Relock, socketVars
    <3>2. TakeData(h) \/ SetWindow(h) \/ SeeFin(h) => Handling(h)
      BY DEF TakeData, SetWindow, SeeFin, Handling
    <3>3. PICK r : MovesTo(h, r) /\ (Rests(r) \/ (r.i = rx[h].i /\ Handling(h)))
      BY <2>5, <3>2, Moving
    <3> QED BY <1>3, <2>1, <2>2, <3>1, <3>3
  <2> QED BY <1>7, <2>3, <2>4, <2>5 DEF tcp_process_packet
<1> QED BY <1>5, <1>6, <1>7 DEF Next

LEMMA NotOpeningStays ==
  ASSUME OneSided, IInv, IInv', HandlerInv, HandlerInv', Sided, Sided', NotOpening, [Next]_vars
  PROVE  NotOpening'
<1>1. CASE "listen" \notin Ops
  <2>1. (RxTypes /\ HandlerInv /\ NoListeners)' => NotOpening'
    BY NotOpeningWithoutListeners, PTL
  <2> QED BY <1>1, <2>1 DEF IInv, TypeOK, Sided
<1>2. CASE "connect" \notin Ops
  BY <1>2, NotOpeningWithoutCallers DEF Sided
<1> QED BY <1>1, <1>2 DEF OneSided

-----------------------------------------------------------------------------
(* What ack_num covers.                                                    *)

(* Neither a socket's stream nor its ack_num moves, it does not become     *)
(* connected but by the last step of being opened, and no FIN of a         *)
(* connected one stops being answered.                                     *)
LEMMA AckKept ==
  ASSUME AckExact, UNCHANGED ack_num,
         \A k \in Slots : got'[k] + Len(recv_buf'[k]) = got[k] + Len(recv_buf[k]),
         \A k \in Slots :
           /\ state'[k] = "SYN_RECEIVED" => state[k] = "SYN_RECEIVED"
           /\ state'[k] = "ESTABLISHED" => state[k] \in {"SYN_RECEIVED", "ESTABLISHED"}
           /\ state'[k] = "ESTABLISHED" => (AnsweringFin(k) => AnsweringFin(k)')
  PROVE  AckExact'
<1> SUFFICES ASSUME NEW k \in Slots,
                    \/ state'[k] = "SYN_RECEIVED"
                    \/ state'[k] = "ESTABLISHED" /\ ~AnsweringFin(k)'
             PROVE  ack_num'[k] = SeqOf(got'[k] + Len(recv_buf'[k]) + 1)
  BY DEF AckExact, SeqOf
<1>1. \/ state[k] = "SYN_RECEIVED"
      \/ state[k] = "ESTABLISHED" /\ ~AnsweringFin(k)
  OBVIOUS
<1>2. ack_num[k] = SeqOf(got[k] + Len(recv_buf[k]) + 1)
  BY <1>1 DEF AckExact
<1> QED BY <1>2 DEF SeqOf

(* A new socket: opened by a peer, it has received the SYN and no more.    *)
LEMMA AckRenewed ==
  ASSUME SocketTypes, StreamTypes, AckExact, NEW n \in Slots,
         NEW st, NEW pt, NEW pr, NEW a, Renew(n, st, pt, pr, a),
         st # "ESTABLISHED", st = "SYN_RECEIVED" => a = SeqOf(1),
         \A k \in Slots : AnsweringFin(k) => AnsweringFin(k)'
  PROVE  AckExact'
<1>1. /\ recv_buf'[n] = <<>> /\ got'[n] = 0 /\ state'[n] = st /\ ack_num'[n] = a
      /\ \A k \in Slots \ {n} :
           /\ recv_buf'[k] = recv_buf[k] /\ got'[k] = got[k]
           /\ state'[k] = state[k] /\ ack_num'[k] = ack_num[k]
  BY DEF SocketTypes, StreamTypes, Renew
<1> SUFFICES ASSUME NEW k \in Slots,
                    \/ state'[k] = "SYN_RECEIVED"
                    \/ state'[k] = "ESTABLISHED" /\ ~AnsweringFin(k)'
             PROVE  ack_num'[k] = SeqOf(got'[k] + Len(recv_buf'[k]) + 1)
  BY DEF AckExact, SeqOf
<1>2. CASE k = n
  BY <1>1, <1>2 DEF SeqOf
<1>3. CASE k # n
  <2>1. ack_num[k] = SeqOf(got[k] + Len(recv_buf[k]) + 1)
    BY <1>1, <1>3 DEF AckExact
  <2> QED BY <1>1, <1>3, <2>1 DEF SeqOf
<1> QED BY <1>2, <1>3

LEMMA AckInitially == Init => AckExact
BY DEF Init, AckExact

LEMMA CallsKeepAck ==
  ASSUME IInv, AckExact, NEW t \in Threads, CallStep(t)
  PROVE  AckExact'
<1> USE DEF IInv, TypeOK
<1>1. \A k \in Slots : AnsweringFin(k)' <=> AnsweringFin(k)
  BY CallsLeaveRx DEF AnsweringFin
<1>2. \A k \in Slots : state'[k] \in {"SYN_RECEIVED", "ESTABLISHED"} => state'[k] = state[k]
  BY CallStates
<1>3. ASSUME UNCHANGED <<ack_num, got, recv_buf>> PROVE AckExact'
  BY <1>1, <1>2, <1>3, AckKept
<1>4. ASSUME NEW pr \in Peers, Connect(t, pr) PROVE AckExact'
  <2>1. PICK n \in Slots : Renew(n, "SYN_SENT", n, pr, 0)
    BY <1>4 DEF Connect
  <2> QED BY <1>1, <2>1, AckRenewed
<1>5. CASE tcp_socket(t)
  <2>1. PICK n \in Slots : Renew(n, "CLOSED", none, none, 0)
    BY <1>5 DEF tcp_socket
  <2> QED BY <1>1, <2>1, AckRenewed
<1>6. ASSUME NEW want \in 1 .. TCP_BUF_SIZE, ReceiveCopy(t, want) PROVE AckExact'
  <2> DEFINE k == app[t].fd
             copy == Least(want, Len(recv_buf[k]))
  <2>1. k \in Slots
    BY <1>6, InCall DEF ReceiveCopy, Call
  <2>2. /\ recv_buf[k] \in Seq(Nat) /\ Len(recv_buf[k]) \in Nat /\ got[k] \in Nat
        /\ copy \in 0 .. Len(recv_buf[k])
    BY <2>1, TcpAssumption DEF StreamTypes, Least
  <2>3. /\ recv_buf' = [recv_buf EXCEPT ![k] = SubSeq(recv_buf[k], copy + 1, Len(recv_buf[k]))]
        /\ got' = [got EXCEPT ![k] = got[k] + copy]
        /\ UNCHANGED ack_num
    BY <1>6 DEF ReceiveCopy
  <2> HIDE DEF k, copy
  <2>4. Len(SubSeq(recv_buf[k], copy + 1, Len(recv_buf[k]))) = Len(recv_buf[k]) - copy
    BY <2>2
  <2>5. \A i \in Slots : got'[i] + Len(recv_buf'[i]) = got[i] + Len(recv_buf[i])
    <3>1. got'[k] + Len(recv_buf'[k]) = got[k] + Len(recv_buf[k])
      BY <2>1, <2>2, <2>3, <2>4 DEF StreamTypes
    <3> QED BY <2>1, <2>3, <3>1 DEF StreamTypes
  <2> QED BY <1>1, <1>2, <2>3, <2>5, AckKept
<1> QED BY <1>3, <1>4, <1>5, <1>6 DEF CallStep, ConnectDone, ConnectRefused, ConnectRetry,
        ConnectGiveUp, tcp_bind, tcp_listen, Accept, AcceptSee, AcceptTake, Receive, ReceiveSee,
        ReceiveEnd, WaitTimeout, Send, SendSegment, Close, streamVars

(* Whoever is not answering a FIN does not stop doing so.                  *)
LEMMA AnsweringKept ==
  ASSUME IInv, HandlerInv, NEW h \in Handlers, NEW r, MovesTo(h, r),
         \/ rx[h].at \in {"idle", "walk", "data", "window", "fin"}
         \/ r.next = rx[h].next /\ r.i = rx[h].i /\ rx[h].at # "peer_closed"
         \/ r.at = rx[h].next /\ r.i = rx[h].i /\ rx[h].at # "peer_closed"
         \/ rx[h].next # "peer_closed" /\ rx[h].at # "peer_closed"
  PROVE  \A k \in Slots : AnsweringFin(k) => AnsweringFin(k)'
<1>1. rx'[h] = r /\ \A o \in Handlers \ {h} : rx'[o] = rx[o]
  BY MovedSound DEF IInv, TypeOK
<1> SUFFICES ASSUME NEW k \in Slots, AnsweringFin(k) PROVE AnsweringFin(k)'
  OBVIOUS
<1>2. PICK o \in Handlers : "peer_closed" \in {rx[o].at, rx[o].next} /\ rx[o].i = k
  BY DEF AnsweringFin
<1>3. CASE o # h
  BY <1>1, <1>2, <1>3 DEF AnsweringFin
<1>4. CASE o = h
  <2>1. rx[h].at \in {"idle", "walk", "data", "window", "fin"} => rx[h].next = none
    BY DEF HandlerInv
  <2>2. rx[h].next = "peer_closed" /\ rx[h].at # "peer_closed"
    BY <1>2, <1>4, <2>1, NoneIsNoLabel
  <2>3. rx'[h].i = k /\ "peer_closed" \in {rx'[h].at, rx'[h].next}
    BY <1>1, <1>2, <1>4, <2>1, <2>2, NoneIsNoLabel
  <2> QED BY <2>3 DEF AnsweringFin
<1> QED BY <1>3, <1>4

LEMMA HandlersKeepAnswering ==
  ASSUME IInv, HandlerInv, NEW h \in Handlers, tcp_process_packet(h), ~PeerClosed(h)
  PROVE  \A k \in Slots : AnsweringFin(k) => AnsweringFin(k)'
<1> USE DEF IInv, TypeOK
<1>1. CASE rx[h].at \in {"idle", "walk", "data", "window", "fin"}
  <2>1. PICK r : MovesTo(h, r)
    BY SomeMove
  <2> QED BY <1>1, <2>1, AnsweringKept
<1>2. CASE SendAnswer(h)
  <2> DEFINE r == [rx[h] EXCEPT !.at = "relock"]
  <2>1. /\ rx' = [rx EXCEPT ![h] = r] /\ rx[h].at = "answer" /\ Flagged(rx[h].seg)
        /\ r.at = "relock" /\ r.seg = rx[h].seg /\ r.i = rx[h].i /\ r.next = rx[h].next
    BY <1>2 DEF SendAnswer, RxTypes, HandlerInv
  <2>2. Sound(r)
    BY <2>1 DEF Sound, HandlerInv
  <2> HIDE DEF r
  <2> QED BY <2>1, <2>2, AnsweringKept DEF MovesTo
<1>3. CASE Relock(h)
  <2>1. /\ Flagged(rx[h].seg) /\ rx[h].next \in WalkLabels /\ rx[h].at = "relock"
        /\ IF rx[h].next = "walk" THEN Onward(h, rx[h].seg, rx[h].i)
           ELSE Walk(h, rx[h].next, rx[h].seg, rx[h].i)
    BY <1>3, AtSegment DEF Relock, HandlerInv
  <2>2. CASE rx[h].next = "walk"
    <3>1. PICK r : MovesTo(h, r)
      BY SomeMove
    <3> QED BY <2>1, <2>2, <3>1, AnsweringKept
  <2>3. CASE rx[h].next # "walk"
    <3> DEFINE label == rx[h].next
               g == rx[h].seg
               i == rx[h].i
    <3>1. Walk(h, label, g, i) /\ label \in WalkLabels /\ Flagged(g)
      BY <2>1, <2>3
    <3> HIDE DEF label, g, i
    <3>2. PICK r : /\ rx' = [rx EXCEPT ![h] = r] /\ Sound(r)
                   /\ r.at = label /\ r.next = none /\ r.i = i
      BY <3>1, WalkMoves
    <3> QED BY <2>1, <3>2, AnsweringKept DEF MovesTo, label, i
  <2> QED BY <2>2, <2>3
<1> QED BY <1>1, <1>2, <1>3 DEF tcp_process_packet, Arrive, MayPoll, WalkEnds, PassiveOpen,
        Handshake, Reset, Acknowledge, IsNextMatch, TakeData, SetWindow, SeeFin

LEMMA TakeDataKeepsAck ==
  ASSUME NoWrap, IInv, HandlerInv, AckExact, NEW h \in Handlers, TakeData(h),
         \A k \in Slots : AnsweringFin(k) => AnsweringFin(k)'
  PROVE  AckExact'
<1> USE DEF IInv, TypeOK
<1> DEFINE g == rx[h].seg
           j == rx[h].i
           c == Acceptable(j, g)
           s == recv_buf[j]
           n == got[j]
<1>1. IsSegment(g) /\ j \in Slots /\ UNCHANGED <<state, got>>
  BY AtSegment DEF TakeData, WalkLabels, socketVars
<1>2. CASE c = 0
  BY <1>1, <1>2, AckKept DEF TakeData
<1>3. CASE c # 0
  <2>1. /\ c \in Nat /\ g.first = n + Len(s) + 1
        /\ recv_buf' = [recv_buf EXCEPT ![j] = s \o Bytes(g.first, c)]
        /\ ack_num' = [ack_num EXCEPT ![j] = SeqOf(g.first + c)]
    <3>1. c \in 0 .. g.len /\ g.len \in Nat
      BY <1>1, AcceptableNext
    <3>2. c > 0
      BY <1>3, <3>1
    <3>3. g.first = n + Len(s) + 1
      BY <1>1, <3>2, AcceptableNext
    <3>4. /\ recv_buf' = [recv_buf EXCEPT ![j] = s \o Bytes(g.first, c)]
          /\ ack_num' = [ack_num EXCEPT ![j] = SeqOf(g.first + c)]
      BY <1>3 DEF TakeData, AckTaken
    <3> QED BY <3>1, <3>3, <3>4
  <2>2. s \in Seq(Nat) /\ n \in Nat /\ Len(s) \in Nat /\ g.first \in Nat \ {0}
    <3>1. s \in Seq(Nat) /\ n \in Nat /\ Len(s) \in Nat
      BY <1>1 DEF StreamTypes
    <3> QED BY <2>1, <3>1
  <2> HIDE DEF g, j, c, s, n
  <2>3. Len(s \o Bytes(g.first, c)) = Len(s) + c
    <3> DEFINE b == Bytes(g.first, c)
    <3>1. b \in Seq(Nat) /\ Len(b) = c
      BY <2>1, <2>2, BytesProperties
    <3> HIDE DEF b
    <3>2. Len(s \o b) = Len(s) + Len(b)
      BY <2>2, <3>1, ConcatProperties, Zenon
    <3> QED BY <3>1, <3>2 DEF b
  <2>4. /\ Len(recv_buf'[j]) = Len(s) + c /\ got'[j] = n /\ ack_num'[j] = SeqOf(g.first + c)
        /\ \A k \in Slots \ {j} : recv_buf'[k] = recv_buf[k] /\ ack_num'[k] = ack_num[k]
    BY <1>1, <2>1, <2>3 DEF StreamTypes, n
  <2>5. g.first + c = n + (Len(s) + c) + 1
    BY <2>1, <2>2
  <2> SUFFICES ASSUME NEW k \in Slots,
                      \/ state'[k] = "SYN_RECEIVED"
                      \/ state'[k] = "ESTABLISHED" /\ ~AnsweringFin(k)'
               PROVE  ack_num'[k] = SeqOf(got'[k] + Len(recv_buf'[k]) + 1)
    BY DEF AckExact, SeqOf
  <2>6. CASE k = j
    BY <2>4, <2>5, <2>6 DEF SeqOf
  <2>7. CASE k # j
    <3>1. ack_num[k] = SeqOf(got[k] + Len(recv_buf[k]) + 1)
      BY <1>1, <2>7 DEF AckExact
    <3> QED BY <1>1, <2>4, <2>7, <3>1 DEF SeqOf
  <2> QED BY <2>6, <2>7
<1> QED BY <1>2, <1>3

(* The acknowledgement of a FIN covers whatever comes before it.           *)
LEMMA SeeFinKeepsAck ==
  ASSUME IInv, HandlerInv, NotOpening, AckExact, NEW h \in Handlers, SeeFin(h),
         \A k \in Slots : AnsweringFin(k) => AnsweringFin(k)'
  PROVE  AckExact'
<1> DEFINE j == rx[h].i
<1>1. /\ rx[h].at = "fin"
      /\ ack_num' = [ack_num EXCEPT ![j] = SeqOf(rx[h].seg.first + 1)]
      /\ Answer(h, j, "peer_closed", j)
      /\ UNCHANGED <<state, recv_buf, got>>
  BY DEF SeeFin, socketVars
<1>2. j \in Slots /\ state[j] # "SYN_RECEIVED"
  BY <1>1, AtSegment DEF IInv, TypeOK, WalkLabels, NotOpening, Handling
<1>3. \A k \in Slots : k = j => AnsweringFin(k)'
  <2>1. rx'[h].next = "peer_closed" /\ rx'[h].i = j
    BY <1>1 DEF Answer, IInv, TypeOK, RxTypes
  <2> QED BY <2>1 DEF AnsweringFin
<1> SUFFICES ASSUME NEW k \in Slots,
                    \/ state'[k] = "SYN_RECEIVED"
                    \/ state'[k] = "ESTABLISHED" /\ ~AnsweringFin(k)'
             PROVE  ack_num'[k] = SeqOf(got'[k] + Len(recv_buf'[k]) + 1)
  BY DEF AckExact, SeqOf
<1>4. k # j
  BY <1>1, <1>2, <1>3
<1>5. ack_num'[k] = ack_num[k]
  BY <1>1, <1>4 DEF IInv, TypeOK, StreamTypes
<1>6. ack_num[k] = SeqOf(got[k] + Len(recv_buf[k]) + 1)
  BY <1>1 DEF AckExact
<1> QED BY <1>1, <1>5, <1>6 DEF SeqOf

LEMMA HandlersKeepAck ==
  ASSUME NoWrap, IInv, HandlerInv, NotOpening, AckExact,
         NEW h \in Handlers, tcp_process_packet(h)
  PROVE  AckExact'
<1> USE DEF IInv, TypeOK
<1>0. state \in [Slots -> States]
  BY DEF SocketTypes
<1>1. CASE PeerClosed(h)
  <2> DEFINE j == rx[h].i
  <2>1. /\ \A k \in Slots \ {j} : state'[k] = state[k]
        /\ \A k \in Slots : state'[k] \in {state[k], "CLOSE_WAIT", "TIME_WAIT"}
        /\ j \in Slots => state'[j] # "ESTABLISHED"
        /\ UNCHANGED <<ack_num, recv_buf, got>>
    BY <1>0, <1>1 DEF PeerClosed, streamVars
  <2>2. j \in Slots
    BY <1>1, AtSegment DEF PeerClosed, WalkLabels
  <2>3. PICK r : MovesTo(h, r)
    BY <1>1, Resting
  <2>4. \A o \in Handlers \ {h} : rx'[o] = rx[o]
    BY <2>3, MovedSound
  <2>5. \A k \in Slots \ {j} : AnsweringFin(k) => AnsweringFin(k)'
    BY <2>4 DEF AnsweringFin
  <2> QED BY <2>1, <2>2, <2>5, AckKept
<1>2. CASE ~PeerClosed(h)
  <2>1. \A k \in Slots : AnsweringFin(k) => AnsweringFin(k)'
    BY <1>2, HandlersKeepAnswering
  <2>2. ASSUME NEW j \in Slots, PassiveOpen(h, j) PROVE AckExact'
    <3>1. IsSegment(rx[h].seg) /\ "SYN" \in rx[h].seg.flags
      BY <2>2, AtSegment DEF PassiveOpen, IsNextMatch, IsCall
    <3>2. rx[h].seg.first = 0
      BY <3>1 DEF IsSegment
    <3>3. CASE UNCHANGED <<socketVars, streamVars>>
      BY <2>1, <3>3, AckKept DEF socketVars, streamVars
    <3>4. CASE \E n \in Slots : Renew(n, "SYN_RECEIVED", rx[h].seg.dp, rx[h].seg.src, SeqOf(0 + 1))
      <4>1. PICK n \in Slots :
              Renew(n, "SYN_RECEIVED", rx[h].seg.dp, rx[h].seg.src, SeqOf(0 + 1))
        BY <3>4
      <4>2. SeqOf(0 + 1) = SeqOf(1)
        OBVIOUS
      <4> QED BY <2>1, <4>1, <4>2, AckRenewed
    <3> QED BY <2>2, <3>2, <3>3, <3>4 DEF PassiveOpen
  <2>3. ASSUME NEW j \in Slots, Handshake(h, j) PROVE AckExact'
    <3>1. IsSegment(rx[h].seg) /\ "SYN" \in rx[h].seg.flags /\ state[j] = "SYN_SENT"
      BY <2>3, AtSegment DEF Handshake, IsNextMatch, IsAnswer
    <3>2. rx[h].seg.first = 0
      BY <3>1 DEF IsSegment
    <3>3. /\ ack_num'[j] = SeqOf(0 + 1) /\ got'[j] = 0 /\ recv_buf'[j] = <<>>
          /\ \A k \in Slots \ {j} : state'[k] = state[k] /\ ack_num'[k] = ack_num[k]
          /\ state'[j] = "ESTABLISHED"
          /\ UNCHANGED <<got, recv_buf>>
      BY <1>0, <2>3, <3>1, <3>2 DEF Handshake, StreamTypes, StreamFollows
    <3> SUFFICES ASSUME NEW k \in Slots,
                        \/ state'[k] = "SYN_RECEIVED"
                        \/ state'[k] = "ESTABLISHED" /\ ~AnsweringFin(k)'
                 PROVE  ack_num'[k] = SeqOf(got'[k] + Len(recv_buf'[k]) + 1)
      BY DEF AckExact, SeqOf
    <3>4. CASE k = j
      BY <3>3, <3>4 DEF SeqOf
    <3>5. CASE k # j
      <4>1. ack_num[k] = SeqOf(got[k] + Len(recv_buf[k]) + 1)
        BY <2>1, <3>3, <3>5 DEF AckExact
      <4> QED BY <3>3, <3>5, <4>1 DEF SeqOf
    <3> QED BY <3>4, <3>5
  <2>4. ASSUME NEW j \in Slots, Reset(h, j) PROVE AckExact'
    <3>1. /\ UNCHANGED <<ack_num, got, recv_buf>>
          /\ \A k \in Slots : state'[k] \in {state[k], "CLOSED"}
      BY <1>0, <2>4 DEF Reset, Free, streamVars
    <3> QED BY <2>1, <3>1, AckKept
  <2>5. ASSUME NEW j \in Slots, Acknowledge(h, j) PROVE AckExact'
    <3>1. UNCHANGED <<ack_num, got, recv_buf>>
      BY <2>5 DEF Acknowledge, streamVars
    <3>2. \A k \in Slots : \/ state'[k] \in {state[k], "CLOSED", "FIN_WAIT_2"}
                           \/ state'[k] = "ESTABLISHED" /\ state[k] = "SYN_RECEIVED"
      BY <1>0, <2>5 DEF Acknowledge, Establish, Free
    <3> QED BY <2>1, <3>1, <3>2, AckKept
  <2>6. CASE TakeData(h)
    BY <2>1, <2>6, TakeDataKeepsAck
  <2>7. CASE SeeFin(h)
    BY <2>1, <2>7, SeeFinKeepsAck
  <2>8. CASE UNCHANGED <<state, ack_num, got, recv_buf>>
    BY <2>1, <2>8, AckKept
  <2> QED BY <1>2, <2>2, <2>3, <2>4, <2>5, <2>6, <2>7, <2>8 DEF tcp_process_packet, Arrive,
          WalkEnds, SetWindow, SendAnswer, Relock, socketVars, streamVars
<1> QED BY <1>1, <1>2

(* The invariant of the acknowledgements.  OneSided is needed: where       *)
(* threads call and listen, a handler may answer a FIN for a socket that   *)
(* has been closed meanwhile and is being opened by a peer again.          *)
THEOREM AckInductive ==
  ASSUME NoWrap, OneSided
  PROVE  Spec => []AckInv
<1>1. Init => AckInv
  BY HandlerInitially, SidedInitially, NotOpeningInitially, AckInitially DEF AckInv
<1>2. IInv /\ IInv' /\ AckInv /\ [Next]_vars => AckInv'
  <2> SUFFICES ASSUME IInv, IInv', AckInv, [Next]_vars PROVE AckInv'
    OBVIOUS
  <2>1. HandlerInv' /\ Sided'
    BY HandlerStays, SidedStays DEF AckInv
  <2>2. NotOpening'
    BY <2>1, NotOpeningStays DEF AckInv
  <2>3. AckExact'
    <3>1. CASE UNCHANGED vars
      BY <3>1 DEF vars, AckInv, AckExact, AnsweringFin, SeqOf
    <3> QED BY <3>1, CallsKeepAck, HandlersKeepAck DEF AckInv, Next
  <2> QED BY <2>1, <2>2, <2>3 DEF AckInv
<1> QED BY <1>1, <1>2, Inductive, PTL DEF Spec

(* tcp_process_packet: a byte that the peer is told has arrived is in the  *)
(* buffer or was handed out; what does not fit, comes early or comes twice *)
(* is not acknowledged.                                                    *)
THEOREM AcknowledgedIsKept ==
  ASSUME NoWrap, OneSided
  PROVE  Spec => []AckCoversBuffered
<1>1. IInv /\ AckInv => AckCoversBuffered
  <2> SUFFICES ASSUME IInv, AckInv, NEW k \in Slots,
                      state[k] = "ESTABLISHED", ~AnsweringFin(k)
               PROVE  AckedBytes(k) <= got[k] + Len(recv_buf[k])
    BY DEF AckCoversBuffered
  <2> DEFINE m == got[k] + Len(recv_buf[k])
  <2>1. m \in 0 .. STREAM
    BY TcpAssumption DEF IInv, TypeOK, StreamTypes, StreamFollows
  <2>2. ack_num[k] = SeqOf(m + 1)
    BY DEF AckInv, AckExact
  <2> HIDE DEF m
  <2>3. SeqOf(m + 1) = IRS + (m + 1)
    BY <2>1, SeqOfPlain, TcpAssumption
  <2>4. ack_num[k] - IRS - 1 = m /\ m \in 0 .. SEQS - 1
    BY <2>1, <2>2, <2>3, TcpAssumption
  <2>5. AckedBytes(k) = m
    BY <2>4, ModSmall DEF AckedBytes
  <2> QED BY <2>1, <2>5 DEF m
<1> QED BY <1>1, Inductive, AckInductive, PTL

-----------------------------------------------------------------------------
(* Whose a socket is.  NoSharedSocket lists what is wanted of the sockets  *)
(* that threads hold and of those in backlogs; its invariant adds what     *)
(* keeps a handler from freeing a held socket (it is in none of the states *)
(* of a connection that has been closed, and in none that it has before a  *)
(* backlog gets it) and where a thread inside a call is.                   *)

Parting == {"FIN_WAIT_1", "FIN_WAIT_2", "LAST_ACK", "TIME_WAIT"}

Mine(k) == in_use[k] /\ state[k] \notin Parting \cup {"SYN_RECEIVED"}

(* The socket it connects is not yet its own; the one it accepts from      *)
(* listens as long as the thread is in the call.                           *)
Aims(t) ==
  /\ app[t].at \in {"connect", "reconnect"} => app[t].fd \notin own[t]
  /\ app[t].at \in {"accept", "accept_take"} =>
       app[t].fd \in own[t] /\ state[app[t].fd] = "LISTEN"

Held ==
  /\ NoTrampling
  /\ \A t \in Threads : Aims(t) /\ \A k \in HeldBy(t) : Mine(k)

Listens(k) == in_use[k] /\ state[k] = "LISTEN"

Unique(k) == \A a, b \in 1 .. Len(backlog[k]) : backlog[k][a] = backlog[k][b] => a = b

(* A connection that waits to be accepted.                                 *)
Offered(n) ==
  /\ in_use[n] /\ state[n] \in {"ESTABLISHED", "CLOSE_WAIT"}
  /\ \A t \in Threads : n \notin HeldBy(t)

Waiting ==
  /\ \A k \in Slots : Listens(k) => Unique(k) /\ \A n \in InBacklog(k) : Offered(n)
  /\ \A k, l \in Slots :
       Listens(k) /\ Listens(l) /\ k # l => InBacklog(k) \cap InBacklog(l) = {}

(* No count is below 0, and there is a connection for a thread that has    *)
(* seen one.                                                               *)
Stocked ==
  /\ \A k \in Slots : overdrawn[k] = 0
  /\ \A t \in Threads : app[t].at = "accept_take" => backlog[app[t].fd] # <<>>

ShareInv == Held /\ Waiting /\ Stocked

LEMMA HeldSlots ==
  ASSUME ThreadTypes, NEW t \in Threads
  PROVE  /\ own[t] \subseteq HeldBy(t) /\ HeldBy(t) \subseteq Slots
         /\ app[t].at \notin {"connect", "reconnect"} => HeldBy(t) = own[t]
         /\ app[t].at \in {"connect", "reconnect"} => HeldBy(t) = own[t] \cup {app[t].fd}
<1>1. own[t] \subseteq Slots
  BY OwnType
<1>2. app[t].at \in {"connect", "reconnect"} => app[t].fd \in Slots
  BY DEF ThreadTypes
<1> QED BY <1>1, <1>2 DEF HeldBy

(* Thread u may get the sockets N, which nobody holds.                     *)
LEMMA HeldKept ==
  ASSUME Held, NEW u, NEW N,
         \A t \in Threads : \A n \in N : n \notin HeldBy(t),
         \A t \in Threads : HeldBy(t)' \subseteq HeldBy(t) \cup (IF t = u THEN N ELSE {}),
         \A t \in Threads : Aims(t)',
         \A t \in Threads : \A k \in HeldBy(t)' : Mine(k)'
  PROVE  Held'
<1>1. NoTrampling'
  <2> SUFFICES ASSUME NEW t \in Threads, NEW v \in Threads, t # v,
                      NEW k \in HeldBy(t)' \cap HeldBy(v)'
               PROVE  FALSE
    BY DEF NoTrampling
  <2>1. HeldBy(t) \cap HeldBy(v) = {}
    BY DEF Held, NoTrampling
  <2>2. CASE k \in N
    BY <2>2
  <2>3. CASE k \notin N
    BY <2>1, <2>3
  <2> QED BY <2>2, <2>3
<1> QED BY <1>1 DEF Held

(* The backlog of socket v may get the sockets N, which are in none.       *)
LEMMA WaitingKept ==
  ASSUME Waiting, NEW v, NEW N,
         \A k \in Slots : Listens(k) => InBacklog(k) \cap N = {},
         \A k \in Slots : Listens(k)' =>
           \/ InBacklog(k)' = {} /\ Unique(k)'
           \/ /\ Listens(k) /\ Unique(k)'
              /\ InBacklog(k)' \subseteq InBacklog(k) \cup (IF k = v THEN N ELSE {})
              /\ \A n \in InBacklog(k)' : Offered(n)'
  PROVE  Waiting'
<1>1. ASSUME NEW k \in Slots, Listens(k)'
      PROVE  Unique(k)' /\ \A n \in InBacklog(k)' : Offered(n)'
  BY <1>1
<1>2. ASSUME NEW k \in Slots, NEW l \in Slots, Listens(k)', Listens(l)', k # l,
             NEW n \in InBacklog(k)' \cap InBacklog(l)'
      PROVE  FALSE
  <2>1. /\ Listens(k) /\ InBacklog(k)' \subseteq InBacklog(k) \cup (IF k = v THEN N ELSE {})
        /\ Listens(l) /\ InBacklog(l)' \subseteq InBacklog(l) \cup (IF l = v THEN N ELSE {})
    BY <1>2
  <2>2. InBacklog(k) \cap InBacklog(l) = {}
    BY <1>2, <2>1 DEF Waiting
  <2>3. InBacklog(k) \cap N = {} /\ InBacklog(l) \cap N = {}
    BY <2>1
  <2> QED BY <1>2, <2>1, <2>2, <2>3
<1> QED BY <1>1, <1>2 DEF Waiting

LEMMA AimsKept ==
  ASSUME NEW t \in Threads, Aims(t), app'[t] = app[t], own'[t] = own[t],
         \A k \in own[t] : state[k] = "LISTEN" => state'[k] = "LISTEN"
  PROVE  Aims(t)' /\ HeldBy(t)' = HeldBy(t)
BY DEF Aims, HeldBy

(* A step that touches one socket, which u may get if nobody has it.       *)
LEMMA OneSocket ==
  ASSUME SocketTypes, ThreadTypes, Held, Waiting, NEW x \in Slots, NEW u,
         \A k \in Slots \ {x} :
           in_use'[k] = in_use[k] /\ state'[k] = state[k] /\ backlog'[k] = backlog[k],
         \/ \A t \in Threads : HeldBy(t)' \subseteq HeldBy(t)
         \/ \A t \in Threads :
              x \notin HeldBy(t) /\ HeldBy(t)' \subseteq HeldBy(t) \cup (IF t = u THEN {x} ELSE {}),
         \A t \in Threads : Aims(t)',
         (\E t \in Threads : x \in HeldBy(t)') => Mine(x)',
         Listens(x)' => backlog'[x] = <<>> \/ (Listens(x) /\ backlog'[x] = backlog[x]),
         Offered(x)' \/ \A k \in Slots : Listens(k) => x \notin InBacklog(k)
  PROVE  Held' /\ Waiting'
<1> DEFINE N == IF \A t \in Threads : HeldBy(t)' \subseteq HeldBy(t) THEN {} ELSE {x}
<1>1. /\ \A t \in Threads : \A n \in N : n \notin HeldBy(t)
      /\ \A t \in Threads : HeldBy(t)' \subseteq HeldBy(t) \cup (IF t = u THEN N ELSE {})
      /\ N \subseteq {x}
  OBVIOUS
<1> HIDE DEF N
<1>2. \A t \in Threads : \A k \in HeldBy(t)' : k # x => k \in HeldBy(t) /\ k \in Slots
  BY <1>1, HeldSlots
<1>3. \A t \in Threads : \A k \in HeldBy(t)' : Mine(k)'
  BY <1>2 DEF Held, Mine
<1>4. Held'
  BY <1>1, <1>3, HeldKept
<1>5. ASSUME NEW k \in Slots, Listens(k), NEW n \in InBacklog(k) PROVE Offered(n)'
  <2>1. Offered(n)
    BY <1>5 DEF Waiting
  <2>2. CASE n # x
    <3>1. n \in Slots
      BY <1>5 DEF InBacklog, SocketTypes
    <3>2. \A t \in Threads : n \notin HeldBy(t)'
      BY <1>2, <2>1, <2>2 DEF Offered
    <3> QED BY <2>1, <2>2, <3>1, <3>2 DEF Offered
  <2>3. CASE n = x
    BY <1>5, <2>3
  <2> QED BY <2>2, <2>3
<1>6. ASSUME NEW k \in Slots, Listens(k)'
      PROVE  \/ InBacklog(k)' = {} /\ Unique(k)'
             \/ /\ Listens(k) /\ Unique(k)'
                /\ InBacklog(k)' \subseteq InBacklog(k) \cup (IF k = x THEN {} ELSE {})
                /\ \A n \in InBacklog(k)' : Offered(n)'
  <2>1. CASE backlog'[k] = <<>>
    BY <2>1 DEF InBacklog, Unique
  <2>2. CASE Listens(k) /\ backlog'[k] = backlog[k]
    <3>1. InBacklog(k)' = InBacklog(k)
      BY <2>2 DEF InBacklog
    <3>2. Unique(k)'
      BY <2>2 DEF Waiting, Unique
    <3> QED BY <1>5, <2>2, <3>1, <3>2
  <2>3. k # x => Listens(k) /\ backlog'[k] = backlog[k]
    BY <1>6 DEF Listens
  <2> QED BY <1>6, <2>1, <2>2, <2>3
<1>7. Waiting'
  BY <1>6, WaitingKept
<1> QED BY <1>4, <1>7

(* A step that touches none.                                               *)
LEMMA NoSocket ==
  ASSUME SocketTypes, ThreadTypes, Held, Waiting, UNCHANGED <<in_use, state, backlog>>,
         \A t \in Threads : Aims(t)' /\ HeldBy(t)' \subseteq HeldBy(t)
  PROVE  Held' /\ Waiting'
<1>1. 0 \in Slots
  BY TcpAssumption DEF Slots
<1>2. (\E t \in Threads : 0 \in HeldBy(t)') => Mine(0)'
  BY DEF Held, Mine
<1>3. Listens(0)' => Listens(0)
  BY DEF Listens
<1>4. Offered(0)' \/ \A k \in Slots : Listens(k) => 0 \notin InBacklog(k)
  BY DEF Waiting, Offered
<1> QED BY <1>1, <1>2, <1>3, <1>4, OneSocket

LEMMA OthersStay ==
  ASSUME ThreadTypes, NEW t \in Threads, CallStep(t), NEW u \in Threads \ {t}
  PROVE  app'[u] = app[u] /\ own'[u] = own[u]
<1>1. app \in [Threads -> [at : CallLabels, fd : Slots \cup {none}]]
  BY DEF ThreadTypes
<1>2. own \in [Threads -> SUBSET Slots]
  BY OwnType
<1>3. app' = app \/ \E a : app' = [app EXCEPT ![t] = a]
  BY DEF CallStep, Connect, ConnectDone, ConnectRefused, ConnectRetry, ConnectGiveUp, tcp_socket,
     tcp_bind, tcp_listen, Accept, AcceptSee, AcceptTake, Receive, ReceiveSee, ReceiveEnd,
     WaitTimeout, ReceiveCopy, Send, SendSegment, Close, Goto, Return
<1>4. own' = own \/ \E o : own' = [own EXCEPT ![t] = o]
  BY DEF CallStep, Connect, ConnectDone, ConnectRefused, ConnectRetry, ConnectGiveUp, tcp_socket,
     tcp_bind, tcp_listen, Accept, AcceptSee, AcceptTake, Receive, ReceiveSee, ReceiveEnd,
     WaitTimeout, ReceiveCopy, Send, SendSegment, Close
<1> QED BY <1>1, <1>2, <1>3, <1>4

(* What a call leaves to be shown, when no listening socket stops.         *)
LEMMA OthersAim ==
  ASSUME ThreadTypes, Held, NEW t \in Threads, CallStep(t),
         \A u \in Threads \ {t} : \A k \in own[u] : state[k] = "LISTEN" => state'[k] = "LISTEN"
  PROVE  \A u \in Threads \ {t} : Aims(u)' /\ HeldBy(u)' = HeldBy(u)
BY OthersStay, AimsKept DEF Held

(* The slots that are free belong to nobody.                               *)
LEMMA FreeForAll ==
  ASSUME Held, Waiting, NEW n \in FreeSlots
  PROVE  /\ \A t \in Threads : n \notin HeldBy(t)
         /\ \A k \in Slots : Listens(k) => n \notin InBacklog(k)
BY DEF FreeSlots, Held, Mine, Waiting, Offered

(* tcp_connect and tcp_socket: a new socket for the thread.                *)
LEMMA OpeningShares ==
  ASSUME IInv, Held, Waiting, NEW t \in Threads,
         tcp_socket(t) \/ \E pr \in Peers : Connect(t, pr)
  PROVE  Held' /\ Waiting'
<1> USE DEF IInv, TypeOK
<1>1. /\ in_use \in [Slots -> BOOLEAN] /\ state \in [Slots -> States]
      /\ backlog \in [Slots -> Seq(Slots)]
      /\ app \in [Threads -> [at : CallLabels, fd : Slots \cup {none}]]
      /\ own \in [Threads -> SUBSET Slots]
  BY OwnType DEF SocketTypes, ThreadTypes
<1>2. app[t].at = "idle" /\ HeldBy(t) = own[t] /\ CallStep(t)
  BY HeldSlots DEF tcp_socket, Connect, Call, CallStep
<1>3. PICK n \in FreeSlots :
        /\ in_use' = [in_use EXCEPT ![n] = TRUE]
        /\ state'[n] \in {"CLOSED", "SYN_SENT"}
        /\ \A k \in Slots \ {n} : state'[k] = state[k]
        /\ backlog' = [backlog EXCEPT ![n] = <<>>]
        /\ \/ app'[t] = app[t] /\ own'[t] = own[t] \cup {n}
           \/ app'[t] = [at |-> "connect", fd |-> n] /\ own'[t] = own[t]
  <2>1. CASE tcp_socket(t)
    BY <1>1, <2>1 DEF tcp_socket, Renew, IsFirstFree, FreeSlots
  <2>2. CASE \E pr \in Peers : Connect(t, pr)
    <3>1. PICK pr \in Peers : Connect(t, pr)
      BY <2>2
    <3>2. PICK n \in FreeSlots : /\ n \in Slots /\ Renew(n, "SYN_SENT", n, pr, 0)
                                /\ Goto(t, "connect", n)
      BY <3>1 DEF Connect, IsFirstFree, FreeSlots
    <3>3. own' = own
      BY <3>1 DEF Connect
    <3> QED BY <1>1, <3>2, <3>3 DEF Renew, Goto
  <2> QED BY <2>1, <2>2
<1>4. n \in Slots /\ ~in_use[n]
  BY <1>3 DEF FreeSlots
<1>5. n \notin own[t] /\ \A u \in Threads : n \notin HeldBy(u)
  BY <1>2, <1>3, FreeForAll
<1>6. \A u \in Threads \ {t} : Aims(u)' /\ HeldBy(u)' = HeldBy(u)
  <2>1. \A u \in Threads \ {t} : \A k \in own[u] : k # n /\ k \in Slots
    BY <1>5, HeldSlots
  <2> QED BY <1>2, <1>3, <2>1, OthersAim
<1>7. Aims(t)' /\ HeldBy(t)' = HeldBy(t) \cup {n}
  BY <1>2, <1>3, <1>5 DEF Aims, HeldBy
<1>8. Mine(n)' /\ ~Listens(n)'
  BY <1>1, <1>3, <1>4 DEF Mine, Parting, Listens
<1>9. \A k \in Slots : Listens(k) => n \notin InBacklog(k)
  BY <1>3, FreeForAll
<1>10. \A k \in Slots \ {n} :
         in_use'[k] = in_use[k] /\ state'[k] = state[k] /\ backlog'[k] = backlog[k]
  BY <1>1, <1>3
<1> QED BY <1>4, <1>5, <1>6, <1>7, <1>8, <1>9, <1>10, OneSocket

(* The end of a tcp_connect.                                               *)
LEMMA ConnectingShares ==
  ASSUME IInv, Held, Waiting, NEW t \in Threads,
         ConnectDone(t) \/ ConnectRefused(t) \/ ConnectRetry(t) \/ ConnectGiveUp(t)
  PROVE  Held' /\ Waiting'
<1> USE DEF IInv, TypeOK
<1>1. /\ in_use \in [Slots -> BOOLEAN] /\ state \in [Slots -> States]
      /\ app \in [Threads -> [at : CallLabels, fd : Slots \cup {none}]]
      /\ own \in [Threads -> SUBSET Slots]
  BY OwnType DEF SocketTypes, ThreadTypes
<1>2. PICK x : x = app[t].fd
  OBVIOUS
<1>3. app[t].at \in {"connect", "reconnect"} /\ CallStep(t)
  BY DEF ConnectDone, ConnectRefused, ConnectRetry, ConnectGiveUp, Connecting, Call, CallStep
<1>4. x \in Slots /\ HeldBy(t) = own[t] \cup {x} /\ x \notin own[t]
  BY <1>2, <1>3, InCall, HeldSlots DEF Held, Aims
<1>5. \A u \in Threads \ {t} : x \notin HeldBy(u)
  BY <1>4 DEF Held, NoTrampling
<1>6. CASE ConnectDone(t) \/ ConnectRetry(t)
  <2>1. UNCHANGED <<in_use, state, backlog>>
    BY <1>6 DEF ConnectDone, ConnectRetry, socketVars
  <2>2. \A u \in Threads \ {t} : Aims(u)' /\ HeldBy(u)' = HeldBy(u)
    BY <1>3, <2>1, OthersAim
  <2>3. Aims(t)' /\ HeldBy(t)' = HeldBy(t)
    <3>1. \/ app'[t].at = "idle" /\ own'[t] = own[t] \cup {x}
          \/ app'[t] = [at |-> "reconnect", fd |-> x] /\ own'[t] = own[t]
      BY <1>1, <1>2, <1>6 DEF ConnectDone, ConnectRetry, Goto, Return, Idle
    <3> QED BY <1>4, <3>1 DEF Aims, HeldBy
  <2> QED BY <2>1, <2>2, <2>3, NoSocket
<1>7. CASE ConnectRefused(t) \/ ConnectGiveUp(t)
  <2>1. /\ in_use' = [in_use EXCEPT ![x] = FALSE]
        /\ state'[x] = "CLOSED" /\ \A k \in Slots \ {x} : state'[k] = state[k]
        /\ backlog' = backlog /\ own' = own /\ app'[t].at = "idle"
    BY <1>1, <1>2, <1>4, <1>7 DEF ConnectRefused, ConnectGiveUp, Free, Return, Idle, Connecting
  <2>2. \A u \in Threads \ {t} : Aims(u)' /\ HeldBy(u)' = HeldBy(u)
    <3>1. \A u \in Threads \ {t} : \A k \in own[u] : k # x /\ k \in Slots
      BY <1>5, HeldSlots
    <3> QED BY <1>3, <2>1, <3>1, OthersAim
  <2>3. Aims(t)' /\ HeldBy(t)' = own[t]
    BY <2>1 DEF Aims, HeldBy
  <2>4. ~Listens(x)' /\ \A u \in Threads : x \notin HeldBy(u)'
    BY <1>4, <1>5, <2>1, <2>2, <2>3 DEF Listens
  <2>5. \A k \in Slots : Listens(k) => x \notin InBacklog(k)
    BY <1>4 DEF Waiting, Offered
  <2>6. \A k \in Slots \ {x} :
          in_use'[k] = in_use[k] /\ state'[k] = state[k] /\ backlog'[k] = backlog[k]
    BY <1>1, <2>1
  <2>7. \A u \in Threads : HeldBy(u)' \subseteq HeldBy(u) /\ Aims(u)'
    BY <1>4, <2>2, <2>3
  <2> QED BY <1>4, <2>4, <2>5, <2>6, <2>7, OneSocket
<1> QED BY <1>6, <1>7

(* tcp_listen: a new listening socket, which has no backlog yet.           *)
LEMMA ListenShares ==
  ASSUME IInv, Held, Waiting, NEW t \in Threads, NEW x \in Slots, tcp_listen(t, x)
  PROVE  Held' /\ Waiting'
<1> USE DEF IInv, TypeOK
<1>1. /\ state \in [Slots -> States] /\ backlog \in [Slots -> Seq(Slots)]
      /\ app \in [Threads -> [at : CallLabels, fd : Slots \cup {none}]]
      /\ own \in [Threads -> SUBSET Slots]
  BY OwnType DEF SocketTypes, ThreadTypes
<1>2. /\ state[x] = "CLOSED" /\ in_use[x] /\ x \in own[t] /\ app[t].at = "idle"
      /\ state' = [state EXCEPT ![x] = "LISTEN"] /\ backlog' = [backlog EXCEPT ![x] = <<>>]
      /\ UNCHANGED <<in_use, app, own>>
  BY DEF tcp_listen, Call
<1>3. /\ \A k \in Slots \ {x} : state'[k] = state[k] /\ backlog'[k] = backlog[k]
      /\ state'[x] = "LISTEN" /\ backlog'[x] = <<>>
  BY <1>1, <1>2
<1>4. \A u \in Threads : Aims(u)' /\ HeldBy(u)' = HeldBy(u)
  <2>1. \A k \in Slots : state[k] = "LISTEN" => state'[k] = "LISTEN"
    BY <1>3
  <2>2. \A u \in Threads : \A k \in own[u] : k \in Slots
    BY <1>1
  <2> QED BY <1>2, <2>1, <2>2, AimsKept DEF Held
<1>5. Mine(x)' /\ \A k \in Slots : Listens(k) => x \notin InBacklog(k)
  <2>1. ~Offered(x)
    BY <1>2 DEF Offered
  <2>2. in_use'[x] /\ state'[x] = "LISTEN"
    BY <1>2, <1>3
  <2>3. Mine(x)'
    BY <2>2 DEF Mine, Parting
  <2> QED BY <2>1, <2>3 DEF Waiting
<1>6. \A k \in Slots \ {x} :
        in_use'[k] = in_use[k] /\ state'[k] = state[k] /\ backlog'[k] = backlog[k]
  BY <1>2, <1>3
<1>7. \A u \in Threads : Aims(u)' /\ HeldBy(u)' \subseteq HeldBy(u)
  BY <1>4
<1> QED BY <1>3, <1>5, <1>6, <1>7, OneSocket

(* tcp_close: the thread gives the socket back, and nobody else has it.    *)
LEMMA CloseShares ==
  ASSUME IInv, Held, Waiting, NEW t \in Threads, NEW x \in Slots, Close(t, x)
  PROVE  Held' /\ Waiting'
<1> USE DEF IInv, TypeOK
<1>1. /\ in_use \in [Slots -> BOOLEAN] /\ state \in [Slots -> States]
      /\ app \in [Threads -> [at : CallLabels, fd : Slots \cup {none}]]
      /\ own \in [Threads -> SUBSET Slots]
  BY OwnType DEF SocketTypes, ThreadTypes
<1>2. /\ x \in own[t] /\ app[t].at = "idle" /\ HeldBy(t) = own[t] /\ CallStep(t)
      /\ own'[t] = own[t] \ {x} /\ backlog' = backlog
  BY <1>1, HeldSlots DEF Close, Call, CallStep
<1>3. x \in HeldBy(t) /\ \A u \in Threads \ {t} : x \notin HeldBy(u)
  BY <1>2 DEF Held, NoTrampling
<1>4. app'[t].at \in {"idle", "send"}
  BY <1>1, <1>2 DEF Close, Goto
<1>5. /\ \A k \in Slots \ {x} : in_use'[k] = in_use[k] /\ state'[k] = state[k]
      /\ in_use[x] /\ (state'[x] # "LISTEN")
  <2>1. in_use[x] /\ state[x] \in States
    BY <1>1, <1>3 DEF Held, Mine
  <2>2. CASE state[x] \in {"ESTABLISHED", "CLOSE_WAIT"}
    BY <1>1, <2>1, <2>2 DEF Close
  <2>3. CASE state[x] \notin {"ESTABLISHED", "CLOSE_WAIT"}
    BY <1>1, <2>1, <2>3 DEF Close, Free
  <2> QED BY <2>2, <2>3
<1>6. \A u \in Threads \ {t} : Aims(u)' /\ HeldBy(u)' = HeldBy(u)
  <2>1. \A u \in Threads \ {t} : \A k \in own[u] : k # x /\ k \in Slots
    BY <1>3, HeldSlots
  <2> QED BY <1>2, <1>5, <2>1, OthersAim
<1>7. Aims(t)' /\ HeldBy(t)' = HeldBy(t) \ {x}
  BY <1>2, <1>4 DEF Aims, HeldBy
<1>8. /\ \A u \in Threads : x \notin HeldBy(u)'
      /\ \A u \in Threads : Aims(u)' /\ HeldBy(u)' \subseteq HeldBy(u)
  BY <1>3, <1>6, <1>7
<1>9. ~Listens(x)' /\ \A k \in Slots : Listens(k) => x \notin InBacklog(k)
  BY <1>3, <1>5 DEF Waiting, Offered, Listens
<1> QED BY <1>2, <1>5, <1>8, <1>9, OneSocket

(* What is left of a backlog when its first entry is taken.                *)
LEMMA TakenFirst ==
  ASSUME backlog \in [Slots -> Seq(Slots)], NEW x \in Slots, backlog[x] # <<>>, Unique(x),
         backlog' = [backlog EXCEPT ![x] = Tail(backlog[x])]
  PROVE  /\ Head(backlog[x]) \in InBacklog(x) /\ Unique(x)'
         /\ InBacklog(x)' \subseteq InBacklog(x) \ {Head(backlog[x])}
         /\ \A k \in Slots \ {x} : InBacklog(k)' = InBacklog(k) /\ (Unique(k) => Unique(k)')
<1> DEFINE s == backlog[x]
<1>1. s \in Seq(Slots) /\ s # <<>> /\ Len(s) \in Nat \ {0} /\ Head(s) = s[1]
  OBVIOUS
<1>2. /\ backlog'[x] = Tail(s) /\ Len(Tail(s)) = Len(s) - 1
      /\ \A i \in 1 .. Len(Tail(s)) : Tail(s)[i] = s[i + 1]
  BY <1>1, HeadTailProperties
<1>3. \A a, b \in 1 .. Len(s) : s[a] = s[b] => a = b
  BY DEF Unique
<1> HIDE DEF s
<1>4. s[1] \in InBacklog(x)
  BY <1>1 DEF InBacklog, s
<1>5. Unique(x)'
  <2> SUFFICES ASSUME NEW a \in 1 .. Len(Tail(s)), NEW b \in 1 .. Len(Tail(s)),
                      Tail(s)[a] = Tail(s)[b]
               PROVE  a = b
    BY <1>2 DEF Unique
  <2>1. a + 1 \in 1 .. Len(s) /\ b + 1 \in 1 .. Len(s) /\ s[a + 1] = s[b + 1]
    BY <1>1, <1>2
  <2> QED BY <1>3, <2>1
<1>6. ASSUME NEW n \in InBacklog(x)' PROVE n \in InBacklog(x) /\ n # s[1]
  <2>1. PICK a \in 1 .. Len(Tail(s)) : n = Tail(s)[a]
    BY <1>2 DEF InBacklog
  <2>2. a + 1 \in 1 .. Len(s) /\ n = s[a + 1] /\ 1 \in 1 .. Len(s) /\ a + 1 # 1
    BY <1>1, <1>2, <2>1
  <2> QED BY <1>3, <2>2 DEF InBacklog, s
<1>7. \A k \in Slots \ {x} : InBacklog(k)' = InBacklog(k) /\ (Unique(k) => Unique(k)')
  BY DEF InBacklog, Unique
<1> QED BY <1>1, <1>4, <1>5, <1>6, <1>7 DEF s

(* tcp_accept: the first connection of the backlog changes hands.          *)
LEMMA AcceptTakeShares ==
  ASSUME IInv, Held, Waiting, Stocked, NEW t \in Threads, AcceptTake(t)
  PROVE  Held' /\ Waiting'
<1> USE DEF IInv, TypeOK
<1>1. /\ backlog \in [Slots -> Seq(Slots)]
      /\ app \in [Threads -> [at : CallLabels, fd : Slots \cup {none}]]
      /\ own \in [Threads -> SUBSET Slots]
  BY OwnType DEF SocketTypes, ThreadTypes
<1>2. PICK x : x = app[t].fd
  OBVIOUS
<1>3. PICK n : n = Head(backlog[x])
  OBVIOUS
<1>4. /\ app[t].at = "accept_take" /\ CallStep(t) /\ backlog[x] # <<>>
      /\ own'[t] = own[t] \cup {n} /\ app'[t].at = "idle"
      /\ backlog' = [backlog EXCEPT ![x] = Tail(backlog[x])]
      /\ UNCHANGED <<in_use, state>>
  <2>1. app[t].at = "accept_take" /\ CallStep(t) /\ backlog[x] # <<>>
    BY <1>2 DEF AcceptTake, Call, CallStep, Stocked
  <2>2. own' = [own EXCEPT ![t] = own[t] \cup {n}]
    BY <1>2, <1>3, <2>1 DEF AcceptTake, FirstEntry
  <2>3. backlog' = [backlog EXCEPT ![x] = Tail(backlog[x])]
    BY <1>2, <2>1 DEF AcceptTake
  <2> QED BY <1>1, <2>1, <2>2, <2>3 DEF AcceptTake, Return, Idle
<1>5. x \in Slots /\ x \in own[t] /\ state[x] = "LISTEN" /\ HeldBy(t) = own[t]
  BY <1>2, <1>4, InCall, HeldSlots DEF Held, Aims
<1>6. Listens(x) /\ Unique(x)
  BY <1>5 DEF Held, Mine, Listens, Waiting
<1>7. /\ n \in InBacklog(x) /\ Unique(x)' /\ InBacklog(x)' \subseteq InBacklog(x) \ {n}
      /\ \A k \in Slots \ {x} : InBacklog(k)' = InBacklog(k) /\ (Unique(k) => Unique(k)')
  BY <1>1, <1>3, <1>4, <1>5, <1>6, TakenFirst
<1>8. Offered(n)
  BY <1>5, <1>6, <1>7 DEF Waiting
<1>9. \A u \in Threads \ {t} : Aims(u)' /\ HeldBy(u)' = HeldBy(u)
  BY <1>4, OthersAim
<1>10. Aims(t)' /\ HeldBy(t)' = HeldBy(t) \cup {n}
  BY <1>4, <1>5 DEF Aims, HeldBy
<1>11. Held'
  <2>1. \A k : Mine(k)' <=> Mine(k)
    BY <1>4 DEF Mine
  <2>2. Mine(n) /\ \A u \in Threads : n \notin HeldBy(u)
    BY <1>8 DEF Offered, Mine, Parting
  <2>3. \A u \in Threads : \A k \in HeldBy(u)' : Mine(k)'
    BY <1>9, <1>10, <2>1, <2>2 DEF Held
  <2>4. \A u \in Threads : HeldBy(u)' \subseteq HeldBy(u) \cup (IF u = t THEN {n} ELSE {})
    BY <1>9, <1>10
  <2>5. \A u \in Threads : \A k \in {n} : k \notin HeldBy(u)
    BY <2>2
  <2>6. \A u \in Threads : Aims(u)'
    BY <1>9, <1>10
  <2> QED BY <2>3, <2>4, <2>5, <2>6, HeldKept
<1>12. Waiting'
  <2>1. \A k : Listens(k)' <=> Listens(k)
    BY <1>4 DEF Listens
  <2>2. ASSUME NEW k \in Slots, Listens(k), NEW m \in InBacklog(k), m # n PROVE Offered(m)'
    <3>1. Offered(m)
      BY <2>2 DEF Waiting
    <3> QED BY <1>4, <1>9, <1>10, <2>2, <3>1 DEF Offered
  <2>3. ASSUME NEW k \in Slots, Listens(k)'
        PROVE  /\ Listens(k) /\ Unique(k)'
               /\ InBacklog(k)' \subseteq InBacklog(k) \ {n}
    <3>1. CASE k = x
      BY <1>6, <1>7, <3>1
    <3>2. CASE k # x
      <4>1. Listens(k) /\ Unique(k) /\ InBacklog(k) \cap InBacklog(x) = {}
        BY <1>5, <1>6, <2>1, <2>3, <3>2 DEF Waiting
      <4> QED BY <1>7, <3>2, <4>1
    <3> QED BY <3>1, <3>2
  <2>4. \A k \in Slots : Listens(k)' => \A m \in InBacklog(k)' : Offered(m)'
    BY <2>2, <2>3
  <2>5. ASSUME NEW k \in Slots, Listens(k)'
        PROVE  \/ InBacklog(k)' = {} /\ Unique(k)'
               \/ /\ Listens(k) /\ Unique(k)'
                  /\ InBacklog(k)' \subseteq InBacklog(k) \cup (IF k = x THEN {} ELSE {})
                  /\ \A m \in InBacklog(k)' : Offered(m)'
    BY <2>3, <2>4, <2>5
  <2>6. \A k \in Slots : Listens(k) => InBacklog(k) \cap {} = {}
    OBVIOUS
  <2> QED BY <2>5, <2>6, WaitingKept
<1> QED BY <1>11, <1>12

(* The calls that only go from one label to the next.                      *)
LEMMA GoingShares ==
  ASSUME IInv, Held, Waiting, NEW t \in Threads, CallStep(t),
         UNCHANGED <<in_use, state, backlog, own>>,
         app[t].at \notin {"connect", "reconnect"},
         \/ app'[t] = app[t]
         \/ app'[t].at \in {"idle", "recv", "recv_copy", "send"}
         \/ /\ app'[t].at \in {"accept", "accept_take"}
            /\ app'[t].fd \in own[t] /\ state[app'[t].fd] = "LISTEN"
  PROVE  Held' /\ Waiting'
<1> USE DEF IInv, TypeOK
<1>1. \A u \in Threads \ {t} : Aims(u)' /\ HeldBy(u)' = HeldBy(u)
  BY OthersAim
<1>2. Aims(t)' /\ HeldBy(t)' = HeldBy(t)
  <2>1. CASE app'[t] = app[t]
    BY <2>1, AimsKept DEF Held
  <2>2. CASE app'[t].at \notin {"connect", "reconnect"} /\ app'[t] # app[t]
    BY <2>2 DEF Aims, HeldBy
  <2> QED BY <2>1, <2>2
<1> QED BY <1>1, <1>2, NoSocket

LEMMA CallsShare ==
  ASSUME IInv, Held, Waiting, Stocked, NEW t \in Threads, CallStep(t)
  PROVE  Held' /\ Waiting'
<1>1. /\ app \in [Threads -> [at : CallLabels, fd : Slots \cup {none}]]
      /\ own \in [Threads -> SUBSET Slots]
  BY OwnType DEF IInv, TypeOK, ThreadTypes
<1>2. CASE \E k \in Slots : Accept(t, k)
  <2>1. PICK k \in Slots : Accept(t, k)
    BY <1>2
  <2>2. /\ app'[t] = [at |-> "accept", fd |-> k] /\ k \in own[t] /\ state[k] = "LISTEN"
        /\ UNCHANGED <<in_use, state, backlog, own>> /\ app[t].at = "idle"
    BY <1>1, <2>1 DEF Accept, Goto, Call, socketVars
  <2> QED BY <2>2, GoingShares
<1>3. CASE AcceptSee(t)
  <2>1. PICK k : k = app[t].fd
    OBVIOUS
  <2>2. /\ app'[t] = [at |-> "accept_take", fd |-> k] /\ app[t].at = "accept"
        /\ UNCHANGED <<in_use, state, backlog, own>>
    BY <1>1, <1>3, <2>1 DEF AcceptSee, Goto, Call, socketVars
  <2>3. k \in own[t] /\ state[k] = "LISTEN"
    BY <2>1, <2>2 DEF Held, Aims
  <2> QED BY <2>2, <2>3, GoingShares
<1>4. CASE \E k \in Slots : Receive(t, k) \/ Send(t, k) \/ tcp_bind(t, k)
  <2>1. /\ app[t].at = "idle" /\ UNCHANGED <<in_use, state, backlog, own>>
        /\ \/ app'[t] = app[t]
           \/ app'[t].at \in {"recv", "send"}
    BY <1>1, <1>4 DEF Receive, Send, tcp_bind, Goto, Call, socketVars
  <2> QED BY <2>1, GoingShares
<1>5. CASE \/ ReceiveSee(t) \/ ReceiveEnd(t) \/ WaitTimeout(t) \/ SendSegment(t)
           \/ \E want \in 1 .. TCP_BUF_SIZE : ReceiveCopy(t, want)
  <2>1. /\ app[t].at \in {"recv", "recv_copy", "send", "accept"}
        /\ UNCHANGED <<in_use, state, backlog, own>>
        /\ app'[t].at \in {"idle", "recv_copy", "send"}
    BY <1>1, <1>5 DEF ReceiveSee, ReceiveEnd, AtEnd, WaitTimeout, SendSegment, ReceiveCopy, Goto,
       Return, Idle, Call, socketVars
  <2> QED BY <2>1, GoingShares
<1> QED BY <1>2, <1>3, <1>4, <1>5, OpeningShares, ConnectingShares, ListenShares, CloseShares,
        AcceptTakeShares DEF CallStep

(* A handler: the threads stay where they are.  The sockets that it moves  *)
(* on either stay what they were to their owners, or have none.            *)
LEMMA ThreadsStay ==
  ASSUME NEW h, tcp_process_packet(h)
  PROVE  UNCHANGED <<app, own>>
BY DEF tcp_process_packet, Arrive, WalkEnds, PassiveOpen, Handshake, Reset, Acknowledge, TakeData,
   SetWindow, SeeFin, PeerClosed, SendAnswer, Relock

LEMMA HandlerAims ==
  ASSUME ThreadTypes, Held, UNCHANGED <<app, own>>,
         \A k \in Slots : state[k] = "LISTEN" => state'[k] = "LISTEN"
  PROVE  \A t \in Threads : Aims(t)' /\ HeldBy(t)' = HeldBy(t)
BY HeldSlots, AimsKept DEF Held

(* One socket goes from one state to another.                              *)
LEMMA MovedOn ==
  ASSUME IInv, Held, Waiting, UNCHANGED <<app, own, backlog>>, NEW x \in Slots,
         \A k \in Slots \ {x} : in_use'[k] = in_use[k] /\ state'[k] = state[k],
         state[x] # "LISTEN", state'[x] # "LISTEN",
         ~Mine(x) \/ Mine(x)',
         (in_use[x] /\ state[x] \in {"ESTABLISHED", "CLOSE_WAIT"}) =>
           (in_use'[x] /\ state'[x] \in {"ESTABLISHED", "CLOSE_WAIT"})
  PROVE  Held' /\ Waiting'
<1> USE DEF IInv, TypeOK
<1>1. \A t \in Threads : Aims(t)' /\ HeldBy(t)' = HeldBy(t)
  BY HandlerAims
<1>2. (\E t \in Threads : x \in HeldBy(t)') => Mine(x)'
  BY <1>1 DEF Held
<1>3. ~Listens(x)'
  BY DEF Listens
<1>4. Offered(x)' \/ \A k \in Slots : Listens(k) => x \notin InBacklog(k)
  <2>1. CASE Offered(x)
    BY <1>1, <2>1 DEF Offered
  <2>2. CASE ~Offered(x)
    BY <2>2 DEF Waiting
  <2> QED BY <2>1, <2>2
<1>5. \A k \in Slots \ {x} :
        in_use'[k] = in_use[k] /\ state'[k] = state[k] /\ backlog'[k] = backlog[k]
  OBVIOUS
<1>6. \A t \in Threads : Aims(t)' /\ HeldBy(t)' \subseteq HeldBy(t)
  BY <1>1
<1> QED BY <1>2, <1>3, <1>4, <1>5, <1>6, OneSocket

(* A new connection, which nobody has yet.                                 *)
LEMMA PassiveOpenShares ==
  ASSUME IInv, Held, Waiting, NEW h \in Handlers, NEW j \in Slots, PassiveOpen(h, j)
  PROVE  Held' /\ Waiting'
<1> USE DEF IInv, TypeOK
<1>1. /\ in_use \in [Slots -> BOOLEAN] /\ state \in [Slots -> States]
      /\ backlog \in [Slots -> Seq(Slots)]
  BY DEF SocketTypes
<1>2. UNCHANGED <<app, own>>
  BY DEF PassiveOpen
<1>3. CASE UNCHANGED socketVars
  <2>1. UNCHANGED <<in_use, state, backlog>>
    BY <1>3 DEF socketVars
  <2>2. \A t \in Threads : Aims(t)' /\ HeldBy(t)' \subseteq HeldBy(t)
    BY <1>2, <2>1, HandlerAims
  <2> QED BY <2>1, <2>2, NoSocket
<1>4. CASE \E n \in Slots : \E pt, pr, a : n \in FreeSlots /\ Renew(n, "SYN_RECEIVED", pt, pr, a)
  <2>1. PICK n \in Slots : /\ n \in FreeSlots
                           /\ in_use' = [in_use EXCEPT ![n] = TRUE]
                           /\ state' = [state EXCEPT ![n] = "SYN_RECEIVED"]
                           /\ backlog' = [backlog EXCEPT ![n] = <<>>]
    BY <1>4 DEF Renew
  <2>2. /\ \A t \in Threads : n \notin HeldBy(t)
        /\ \A k \in Slots : Listens(k) => n \notin InBacklog(k)
    BY <2>1, FreeForAll
  <2>3. /\ state'[n] = "SYN_RECEIVED"
        /\ \A k \in Slots \ {n} :
             in_use'[k] = in_use[k] /\ state'[k] = state[k] /\ backlog'[k] = backlog[k]
    BY <1>1, <2>1
  <2>4. \A t \in Threads : Aims(t)' /\ HeldBy(t)' = HeldBy(t)
    <3>1. \A t \in Threads : \A k \in own[t] : k # n /\ k \in Slots
      BY <2>2, HeldSlots
    <3> QED BY <1>2, <2>3, <3>1, AimsKept DEF Held
  <2>5. ~Listens(n)'
    BY <2>3 DEF Listens
  <2>6. /\ \A t \in Threads : Aims(t)' /\ HeldBy(t)' \subseteq HeldBy(t)
        /\ \A t \in Threads : n \notin HeldBy(t)'
    BY <2>2, <2>4
  <2> QED BY <2>2, <2>3, <2>5, <2>6, OneSocket
<1> QED BY <1>3, <1>4 DEF PassiveOpen, IsFirstFree

LEMMA Appended ==
  ASSUME backlog \in [Slots -> Seq(Slots)], NEW x \in Slots, NEW n \in Slots,
         n \notin InBacklog(x), Unique(x), backlog'[x] = Append(backlog[x], n)
  PROVE  Unique(x)' /\ InBacklog(x)' \subseteq InBacklog(x) \cup {n}
<1> DEFINE s == backlog[x]
           m == Append(s, n)
<1>1. s \in Seq(Slots) /\ Len(s) \in Nat
  OBVIOUS
<1>2. /\ Len(m) = Len(s) + 1 /\ m[Len(s) + 1] = n
      /\ \A i \in 1 .. Len(s) : m[i] = s[i]
  BY <1>1, AppendProperties
<1>3. /\ \A a, b \in 1 .. Len(s) : s[a] = s[b] => a = b
      /\ \A a \in 1 .. Len(s) : s[a] # n
  BY DEF Unique, InBacklog
<1>4. backlog'[x] = m /\ InBacklog(x) = {s[i] : i \in 1 .. Len(s)}
  BY DEF InBacklog
<1> HIDE DEF s, m
<1>5. \A i \in 1 .. Len(m) : i \in 1 .. Len(s) \/ i = Len(s) + 1
  BY <1>1, <1>2
<1>6. Unique(x)'
  <2> SUFFICES ASSUME NEW a \in 1 .. Len(m), NEW b \in 1 .. Len(m), m[a] = m[b]
               PROVE  a = b
    BY <1>4 DEF Unique
  <2> QED BY <1>2, <1>3, <1>5
<1>7. InBacklog(x)' \subseteq InBacklog(x) \cup {n}
  <2> SUFFICES ASSUME NEW i \in 1 .. Len(m) PROVE m[i] \in InBacklog(x) \cup {n}
    BY <1>4 DEF InBacklog
  <2> QED BY <1>2, <1>4, <1>5
<1> QED BY <1>6, <1>7

(* A connection that is complete goes to the end of one backlog.           *)
LEMMA EstablishShares ==
  ASSUME IInv, Held, Waiting, Stocked, UNCHANGED <<app, own>>, NEW j \in Slots,
         in_use[j], state[j] = "SYN_RECEIVED", Establish(j)
  PROVE  Held' /\ Waiting'
<1> USE DEF IInv, TypeOK
<1> DEFINE First(k) == HasRoom(k, j) /\ \A i \in Slots : HasRoom(i, j) => k <= i
<1>1. /\ state \in [Slots -> States] /\ backlog \in [Slots -> Seq(Slots)]
      /\ in_use \in [Slots -> BOOLEAN] /\ \A k \in Slots : overdrawn[k] = 0
  BY DEF SocketTypes, Stocked
<1>2. /\ in_use' = in_use /\ state'[j] = "ESTABLISHED"
      /\ \A k \in Slots \ {j} : state'[k] = state[k]
      /\ backlog' = [k \in Slots |-> IF First(k) THEN Append(backlog[k], j) ELSE backlog[k]]
  <2>1. in_use' = [k \in Slots |-> in_use[k]]
    BY <1>1 DEF Establish
  <2>2. backlog' = [k \in Slots |-> IF First(k) THEN Append(backlog[k], j) ELSE backlog[k]]
    BY <1>1 DEF Establish, Takes
  <2> QED BY <1>1, <2>1, <2>2 DEF Establish
<1>3. ~Mine(j) /\ ~Offered(j)
  BY DEF Mine, Offered
<1>4. \A t \in Threads : j \notin HeldBy(t)
  BY <1>3 DEF Held
<1>5. \A k \in Slots : Listens(k) => j \notin InBacklog(k)
  BY <1>3 DEF Waiting
<1>6. CASE ~ \E k \in Slots : First(k)
  <2>1. backlog' = backlog
    BY <1>1, <1>2, <1>6
  <2>2. /\ \A k \in Slots \ {j} : in_use'[k] = in_use[k] /\ state'[k] = state[k]
        /\ state[j] # "LISTEN" /\ state'[j] # "LISTEN"
    BY <1>2
  <2> QED BY <1>3, <2>1, <2>2, MovedOn
<1>7. ASSUME NEW x \in Slots, First(x) PROVE Held' /\ Waiting'
  <2>1. x # j /\ Listens(x) /\ \A k \in Slots : First(k) => k = x
    <3>1. \A k \in Slots : k \in Int
      BY SlotIsNat
    <3> QED BY <1>7, <3>1 DEF HasRoom, Listens
  <2> HIDE DEF First
  <2>2. backlog'[x] = Append(backlog[x], j)
    BY <1>2, <1>7
  <2>3. \A k \in Slots \ {x} : backlog'[k] = backlog[k]
    BY <1>2, <2>1
  <2>4. \A k \in Slots : (Listens(k)' <=> Listens(k)) /\ (Mine(k) => Mine(k)')
    BY <1>2, <1>3 DEF Listens, Mine
  <2>5. \A t \in Threads : Aims(t)' /\ HeldBy(t)' = HeldBy(t)
    BY <1>2, HandlerAims
  <2>6. Held'
    <3>1. \A t \in Threads : \A k \in HeldBy(t)' : Mine(k)'
      BY <2>4, <2>5, HeldSlots DEF Held
    <3>2. \A t \in Threads : HeldBy(t)' \subseteq HeldBy(t) \cup (IF t = x THEN {j} ELSE {})
      BY <2>5
    <3>3. \A t \in Threads : \A k \in {j} : k \notin HeldBy(t)
      BY <1>4
    <3> QED BY <2>5, <3>1, <3>2, <3>3, HeldKept
  <2>7. Unique(x)' /\ InBacklog(x)' \subseteq InBacklog(x) \cup {j}
    BY <1>1, <1>5, <2>1, <2>2, Appended DEF Waiting
  <2>8. \A k \in Slots \ {x} : InBacklog(k)' = InBacklog(k) /\ (Unique(k) => Unique(k)')
    BY <2>3 DEF InBacklog, Unique
  <2>9. Offered(j)'
    BY <1>2, <1>4, <2>5 DEF Offered
  <2>10. ASSUME NEW k \in Slots, Listens(k), NEW n \in InBacklog(k) PROVE Offered(n)'
    <3>1. Offered(n) /\ n \in Slots /\ n # j
      BY <1>1, <1>5, <2>10 DEF Waiting, InBacklog
    <3> QED BY <1>2, <2>5, <3>1 DEF Offered
  <2>11. ASSUME NEW k \in Slots, Listens(k)'
         PROVE  \/ InBacklog(k)' = {} /\ Unique(k)'
                \/ /\ Listens(k) /\ Unique(k)'
                   /\ InBacklog(k)' \subseteq InBacklog(k) \cup (IF k = x THEN {j} ELSE {})
                   /\ \A n \in InBacklog(k)' : Offered(n)'
    <3>1. Listens(k) /\ Unique(k)
      BY <2>4, <2>11 DEF Waiting
    <3>2. CASE k = x
      BY <2>7, <2>9, <2>10, <3>1, <3>2
    <3>3. CASE k # x
      BY <2>8, <2>10, <3>1, <3>3
    <3> QED BY <3>2, <3>3
  <2>12. \A k \in Slots : Listens(k) => InBacklog(k) \cap {j} = {}
    BY <1>5
  <2> QED BY <2>6, <2>11, <2>12, WaitingKept
<1> QED BY <1>6, <1>7

LEMMA HandlersShare ==
  ASSUME ~Resets, IInv, HandlerInv, Held, Waiting, Stocked, NEW h \in Handlers, tcp_process_packet(h)
  PROVE  Held' /\ Waiting'
<1> USE DEF IInv, TypeOK
<1>1. in_use \in [Slots -> BOOLEAN] /\ state \in [Slots -> States]
  BY DEF SocketTypes
<1>2. UNCHANGED <<app, own>>
  BY ThreadsStay
<1>3. CASE UNCHANGED <<in_use, state, backlog>>
  <2>1. \A t \in Threads : Aims(t)' /\ HeldBy(t)' \subseteq HeldBy(t)
    BY <1>2, <1>3, HandlerAims
  <2> QED BY <1>3, <2>1, NoSocket
<1>4. ASSUME NEW j \in Slots, Handshake(h, j) PROVE Held' /\ Waiting'
  <2>1. /\ state[j] = "SYN_SENT" /\ state'[j] = "ESTABLISHED" /\ UNCHANGED <<in_use, backlog>>
        /\ \A k \in Slots \ {j} : state'[k] = state[k]
    BY <1>1, <1>4 DEF Handshake, IsAnswer
  <2>2. Mine(j) => Mine(j)'
    BY <2>1 DEF Mine, Parting
  <2> QED BY <1>2, <2>1, <2>2, MovedOn
<1>5. ASSUME NEW j \in Slots, Reset(h, j) PROVE FALSE
  BY <1>5 DEF Reset, IsNextMatch, HandlerInv, Flagged
<1>6. ASSUME NEW j \in Slots, Acknowledge(h, j) PROVE Held' /\ Waiting'
  <2>1. in_use[j]
    BY <1>6 DEF Acknowledge, IsNextMatch, Matches
  <2>2. CASE state[j] = "SYN_RECEIVED" /\ Establish(j)
    BY <1>2, <2>1, <2>2, EstablishShares
  <2>3. CASE \/ state[j] = "LAST_ACK" /\ Free(j) /\ UNCHANGED backlog
             \/ /\ state[j] = "FIN_WAIT_1" /\ state' = [state EXCEPT ![j] = "FIN_WAIT_2"]
                /\ UNCHANGED <<in_use, backlog>>
    <3>1. /\ state[j] \in Parting /\ state[j] # "LISTEN" /\ state'[j] # "LISTEN"
          /\ \A k \in Slots \ {j} : in_use'[k] = in_use[k] /\ state'[k] = state[k]
          /\ state[j] \notin {"ESTABLISHED", "CLOSE_WAIT"} /\ UNCHANGED backlog
      BY <1>1, <2>3 DEF Parting, Free
    <3>2. ~Mine(j)
      BY <3>1 DEF Mine
    <3> QED BY <1>2, <3>1, <3>2, MovedOn
  <2> QED BY <1>3, <1>6, <2>2, <2>3 DEF Acknowledge
<1>7. CASE PeerClosed(h)
  <2>1. PICK j : j = rx[h].i
    OBVIOUS
  <2>2. j \in Slots
    BY <1>7, <2>1, AtSegment DEF PeerClosed, WalkLabels
  <2>3. /\ UNCHANGED <<in_use, backlog>> /\ \A k \in Slots \ {j} : state'[k] = state[k]
        /\ state' = [state EXCEPT ![j] = CASE state[j] = "ESTABLISHED" -> "CLOSE_WAIT"
                                           [] state[j] = "FIN_WAIT_2" -> "TIME_WAIT"
                                           [] OTHER -> state[j]]
    BY <1>1, <1>7, <2>1 DEF PeerClosed
  <2>4. CASE state[j] \in {"ESTABLISHED", "FIN_WAIT_2"}
    <3>1. /\ state[j] = "ESTABLISHED" => state'[j] = "CLOSE_WAIT"
          /\ state[j] = "FIN_WAIT_2" => state'[j] = "TIME_WAIT"
      BY <1>1, <2>2, <2>3
    <3>2. Mine(j) => Mine(j)'
      BY <2>3, <2>4, <3>1 DEF Mine, Parting
    <3> QED BY <1>2, <2>2, <2>3, <2>4, <3>1, <3>2, MovedOn
  <2>5. CASE state[j] \notin {"ESTABLISHED", "FIN_WAIT_2"}
    <3>1. state' = state
      BY <1>1, <2>2, <2>3, <2>5
    <3> QED BY <1>3, <2>3, <3>1
  <2> QED BY <2>4, <2>5
<1> QED BY <1>3, <1>4, <1>5, <1>6, <1>7, PassiveOpenShares DEF tcp_process_packet, Arrive, WalkEnds,
        TakeData, SetWindow, SeeFin, SendAnswer, Relock, socketVars

(* Nobody takes a connection away from a thread that has seen one: the     *)
(* listening socket is the thread's, and keeps its slot.                   *)
LEMMA FirstStays ==
  ASSUME IInv, Held, Stocked, NEW u \in Threads, app[u].at = "accept_take", app'[u] = app[u],
         \/ backlog' = backlog
         \/ \E n \in Slots : n \notin HeldBy(u) /\ \A k \in Slots \ {n} : backlog'[k] = backlog[k]
         \/ \E n \in Slots : state[n] # "LISTEN" /\ \A k \in Slots \ {n} : backlog'[k] = backlog[k]
  PROVE  backlog'[app'[u].fd] # <<>>
<1>1. /\ app[u].fd \in own[u] /\ state[app[u].fd] = "LISTEN" /\ app[u].fd \in Slots
      /\ own[u] \subseteq HeldBy(u) /\ backlog[app[u].fd] # <<>>
  BY InCall, HeldSlots DEF Held, Aims, Stocked, IInv, TypeOK
<1> QED BY <1>1

LEMMA CallsStock ==
  ASSUME IInv, Held, Waiting, Stocked, NEW t \in Threads, CallStep(t)
  PROVE  Stocked'
<1> USE DEF IInv, TypeOK
<1>1. /\ overdrawn \in [Slots -> 0 .. OVERDRAFT] /\ backlog \in [Slots -> Seq(Slots)]
      /\ app \in [Threads -> [at : CallLabels, fd : Slots \cup {none}]]
  BY DEF SocketTypes, ThreadTypes
<1>2. \A u \in Threads \ {t} : app'[u] = app[u]
  BY OthersStay
(* The thread itself is to take a connection only if it has seen one.      *)
<1>3. app'[t].at = "accept_take" => backlog'[app'[t].fd] # <<>>
  <2>1. ASSUME app'[t].at = "accept_take" PROVE AcceptSee(t)
    <3>1. ASSUME \E label, k : Goto(t, label, k) /\ label # "accept_take" PROVE FALSE
      BY <1>1, <2>1, <3>1 DEF Goto
    <3>2. ASSUME Return(t) PROVE FALSE
      BY <1>1, <2>1, <3>2 DEF Return, Idle
    <3>3. ASSUME UNCHANGED app, app[t].at = "idle" PROVE FALSE
      BY <2>1, <3>3
    <3>4. ~(\E k \in Slots : Close(t, k))
      BY <3>1, <3>3 DEF Close, Call
    <3>5. ~(\E pr \in Peers : Connect(t, pr)) /\ ~tcp_socket(t)
      <4>1. ASSUME NEW pr \in Peers, Connect(t, pr) PROVE FALSE
        <5>1. PICK n \in Slots : Goto(t, "connect", n)
          BY <4>1 DEF Connect
        <5> QED BY <3>1, <5>1
      <4>2. ASSUME tcp_socket(t) PROVE FALSE
        BY <3>3, <4>2 DEF tcp_socket, Call
      <4> QED BY <4>1, <4>2
    <3>6. ~(\E k \in Slots : tcp_bind(t, k) \/ tcp_listen(t, k) \/ Accept(t, k))
      BY <3>1, <3>3 DEF tcp_bind, tcp_listen, Accept, Call
    <3>7. ~(\E k \in Slots : Receive(t, k) \/ Send(t, k))
      BY <3>1 DEF Receive, Send
    <3>8. ~(\/ ConnectDone(t) \/ ConnectRefused(t) \/ ConnectRetry(t) \/ ConnectGiveUp(t)
            \/ AcceptTake(t) \/ ReceiveSee(t) \/ ReceiveEnd(t) \/ WaitTimeout(t)
            \/ SendSegment(t) \/ \E want \in 1 .. TCP_BUF_SIZE : ReceiveCopy(t, want))
      BY <3>1, <3>2 DEF ConnectDone, ConnectRefused, ConnectRetry, ConnectGiveUp, AcceptTake,
         ReceiveSee, ReceiveEnd, WaitTimeout, SendSegment, ReceiveCopy
    <3> QED BY <3>4, <3>5, <3>6, <3>7, <3>8 DEF CallStep
  <2>2. ASSUME AcceptSee(t) PROVE backlog'[app'[t].fd] # <<>>
    <3>1. app[t].fd \in Slots
      BY <2>2, InCall DEF AcceptSee, Call
    <3>2. app'[t].fd = app[t].fd /\ backlog' = backlog
      BY <1>1, <2>2 DEF AcceptSee, Goto, socketVars
    <3> QED BY <2>2, <3>1, <3>2 DEF AcceptSee, NoneWaits, Stocked
  <2> QED BY <2>1, <2>2
<1>4. CASE tcp_socket(t) \/ \E pr \in Peers : Connect(t, pr)
  <2>1. PICK n \in FreeSlots : /\ n \in Slots
                               /\ backlog' = [backlog EXCEPT ![n] = <<>>]
                               /\ overdrawn' = [overdrawn EXCEPT ![n] = 0]
    BY <1>4 DEF tcp_socket, Connect, Renew, IsFirstFree, FreeSlots
  <2>2. \A u \in Threads : n \notin HeldBy(u)
    BY <2>1, FreeForAll
  <2>3. \A k \in Slots \ {n} : backlog'[k] = backlog[k]
    BY <1>1, <2>1
  <2>4. \A u \in Threads \ {t} : app'[u].at = "accept_take" => backlog'[app'[u].fd] # <<>>
    BY <1>2, <2>1, <2>2, <2>3, FirstStays
  <2> QED BY <1>1, <1>3, <2>1, <2>4 DEF Stocked
<1>5. CASE \E n \in Slots : tcp_listen(t, n)
  <2>1. PICK n \in Slots : /\ state[n] = "CLOSED"
                           /\ backlog' = [backlog EXCEPT ![n] = <<>>]
                           /\ overdrawn' = [overdrawn EXCEPT ![n] = 0]
    BY <1>5 DEF tcp_listen
  <2>2. \A k \in Slots \ {n} : backlog'[k] = backlog[k]
    BY <1>1, <2>1
  <2>3. \A u \in Threads \ {t} : app'[u].at = "accept_take" => backlog'[app'[u].fd] # <<>>
    BY <1>2, <2>1, <2>2, FirstStays
  <2> QED BY <1>1, <1>3, <2>1, <2>3 DEF Stocked
<1>6. CASE AcceptTake(t)
  <2>1. PICK n : n = app[t].fd
    OBVIOUS
  <2>2. n \in Slots /\ backlog[n] # <<>> /\ n \in HeldBy(t)
    BY <1>6, <2>1, InCall, HeldSlots DEF AcceptTake, Call, Stocked, Held, Aims
  <2>3. overdrawn' = [overdrawn EXCEPT ![n] = overdrawn[n]]
    BY <1>6, <2>1, <2>2 DEF AcceptTake
  <2>4. \A k \in Slots \ {n} : backlog'[k] = backlog[k]
    BY <1>1, <1>6, <2>1 DEF AcceptTake
  <2>5. \A u \in Threads \ {t} : n \notin HeldBy(u)
    BY <2>2 DEF Held, NoTrampling
  <2>6. \A u \in Threads \ {t} : app'[u].at = "accept_take" => backlog'[app'[u].fd] # <<>>
    BY <1>2, <2>2, <2>4, <2>5, FirstStays
  <2> QED BY <1>1, <1>3, <2>3, <2>6 DEF Stocked
<1>7. CASE UNCHANGED <<backlog, overdrawn>>
  <2>1. \A u \in Threads \ {t} : app'[u].at = "accept_take" => backlog'[app'[u].fd] # <<>>
    BY <1>2, <1>7, FirstStays
  <2> QED BY <1>3, <1>7, <2>1 DEF Stocked
<1> QED BY <1>4, <1>5, <1>6, <1>7 DEF CallStep, ConnectDone, ConnectRefused, ConnectRetry,
        ConnectGiveUp, tcp_bind, Accept, AcceptSee, Receive, ReceiveSee, ReceiveEnd, WaitTimeout,
        ReceiveCopy, Send, SendSegment, Close, socketVars

LEMMA HandlersStock ==
  ASSUME IInv, Held, Waiting, Stocked, NEW h \in Handlers, tcp_process_packet(h)
  PROVE  Stocked'
<1> USE DEF IInv, TypeOK
<1>1. overdrawn \in [Slots -> 0 .. OVERDRAFT] /\ backlog \in [Slots -> Seq(Slots)]
  BY DEF SocketTypes
<1>2. app' = app
  BY ThreadsStay
<1>3. CASE UNCHANGED <<backlog, overdrawn>>
  BY <1>2, <1>3 DEF Stocked
<1>4. CASE \E n \in Slots : \E pt, pr, a : n \in FreeSlots /\ Renew(n, "SYN_RECEIVED", pt, pr, a)
  <2>1. PICK n \in Slots : /\ n \in FreeSlots
                           /\ backlog' = [backlog EXCEPT ![n] = <<>>]
                           /\ overdrawn' = [overdrawn EXCEPT ![n] = 0]
    BY <1>4 DEF Renew
  <2>2. \A u \in Threads : n \notin HeldBy(u)
    BY <2>1, FreeForAll
  <2>3. \A k \in Slots \ {n} : backlog'[k] = backlog[k]
    BY <1>1, <2>1
  <2>4. \A u \in Threads : app'[u].at = "accept_take" => backlog'[app'[u].fd] # <<>>
    BY <1>2, <2>2, <2>3, FirstStays
  <2> QED BY <1>1, <2>1, <2>4 DEF Stocked
<1>5. ASSUME NEW j \in Slots, Establish(j) PROVE Stocked'
  <2>1. \A k \in Slots : overdrawn'[k] = 0
    BY <1>5 DEF Establish, Stocked
  <2>2. ASSUME NEW k \in Slots, backlog[k] # <<>> PROVE backlog'[k] # <<>>
    <3>1. backlog'[k] \in {backlog[k], Append(backlog[k], j)}
      BY <1>5 DEF Establish
    <3>2. Append(backlog[k], j) # <<>>
      BY <1>1, AppendProperties
    <3> QED BY <2>2, <3>1, <3>2
  <2>3. \A u \in Threads : app[u].at = "accept_take" => app[u].fd \in Slots
    BY InCall
  <2> QED BY <1>2, <2>1, <2>2, <2>3 DEF Stocked
<1> QED BY <1>3, <1>4, <1>5 DEF tcp_process_packet, Arrive, WalkEnds, PassiveOpen, IsFirstFree,
        Handshake, Reset, Acknowledge, TakeData, SetWindow, SeeFin, PeerClosed, SendAnswer, Relock,
        socketVars

LEMMA ShareInitially == Init => ShareInv
<1> SUFFICES ASSUME Init PROVE ShareInv
  OBVIOUS
<1>1. \A t \in Threads : Aims(t) /\ HeldBy(t) = {}
  BY DEF Init, Aims, HeldBy, Idle
<1>2. Held
  BY <1>1 DEF Held, NoTrampling
<1>3. Waiting
  BY DEF Init, Waiting, Listens
<1>4. Stocked
  BY DEF Init, Stocked, Idle
<1> QED BY <1>2, <1>3, <1>4 DEF ShareInv

(* The invariant of who has which socket.  ~Resets is needed: a RST frees  *)
(* a socket whoever has it.                                                *)
THEOREM ShareInductive ==
  ASSUME NoWrap, ~Resets
  PROVE  Spec => [](HandlerInv /\ ShareInv)
<1>1. Init => HandlerInv /\ ShareInv
  BY HandlerInitially, ShareInitially
<1>2. IInv /\ HandlerInv /\ ShareInv /\ [Next]_vars => HandlerInv' /\ ShareInv'
  <2> SUFFICES ASSUME IInv, HandlerInv, ShareInv, [Next]_vars PROVE HandlerInv' /\ ShareInv'
    OBVIOUS
  <2>1. HandlerInv'
    BY HandlerStays
  <2>2. CASE UNCHANGED vars
    <3>1. UNCHANGED <<in_use, state, backlog, app, own>>
      BY <2>2 DEF vars
    <3>2. \A t \in Threads : Aims(t)' /\ HeldBy(t)' \subseteq HeldBy(t)
      BY <3>1, HandlerAims DEF ShareInv, IInv, TypeOK
    <3>3. Held' /\ Waiting'
      BY <3>1, <3>2, NoSocket DEF ShareInv, IInv, TypeOK
    <3>4. Stocked'
      BY <2>2 DEF ShareInv, Stocked, vars
    <3> QED BY <2>1, <3>3, <3>4 DEF ShareInv
  <2> QED BY <2>1, <2>2, CallsShare, HandlersShare, CallsStock, HandlersStock DEF ShareInv, Next
<1> QED BY <1>1, <1>2, Inductive, PTL DEF Spec

(* As many sockets in a backlog as it has entries, if none is there twice. *)
LEMMA BacklogSize ==
  ASSUME backlog \in [Slots -> Seq(Slots)], NEW k \in Slots, Unique(k)
  PROVE  Cardinality(InBacklog(k)) = Len(backlog[k])
<1> DEFINE n == Len(backlog[k])
           f == [i \in 1 .. n |-> backlog[k][i]]
<1>1. n \in Nat
  OBVIOUS
<1>2. \A i \in 1 .. n : f[i] = backlog[k][i]
  OBVIOUS
<1>3. f \in [1 .. n -> InBacklog(k)] /\ \A m \in InBacklog(k) : \E i \in 1 .. n : f[i] = m
  BY DEF InBacklog
<1>4. \A a, b \in 1 .. n : f[a] = f[b] => a = b
  BY <1>2 DEF Unique
<1>5. f \in Bijection(1 .. n, InBacklog(k))
  <2> HIDE DEF f, n
  <2> QED BY <1>3, <1>4 DEF Bijection, Injection, Surjection, IsInjective
<1>6. ExistsBijection(1 .. n, InBacklog(k))
  BY <1>5 DEF ExistsBijection
<1>7. IsFiniteSet(1 .. n) /\ Cardinality(1 .. n) = n
  <2> HIDE DEF n, f
  <2>1. Cardinality(1 .. n) = (IF 1 > n THEN 0 ELSE n - 1 + 1) /\ IsFiniteSet(1 .. n)
    BY <1>1, FS_Interval
  <2> QED BY <1>1, <2>1
<1> QED BY <1>6, <1>7, FS_Bijection

(* tcp_connect, tcp_accept, tcp_close and the handler: as long as nobody   *)
(* resets a connection, a socket never belongs to two threads, to a thread *)
(* and a backlog, or to a backlog twice, and none that a thread has is     *)
(* freed under it.                                                         *)
THEOREM SocketsAreNotShared ==
  ASSUME NoWrap, ~Resets
  PROVE  Spec => []NoSharedSocket
<1>1. IInv /\ ShareInv => NoSharedSocket
  <2> SUFFICES ASSUME IInv, ShareInv PROVE NoSharedSocket
    OBVIOUS
  <2>1. NoTrampling /\ \A t \in Threads : \A k \in HeldBy(t) : in_use[k]
    BY DEF ShareInv, Held, Mine
  <2>2. ASSUME NEW k \in Slots, in_use[k], state[k] = "LISTEN"
        PROVE  /\ \A t \in Threads : InBacklog(k) \cap HeldBy(t) = {}
               /\ Cardinality(InBacklog(k)) = Len(backlog[k])
               /\ \A n \in InBacklog(k) : in_use[n] /\ state[n] \in {"ESTABLISHED", "CLOSE_WAIT"}
    <3>1. Unique(k) /\ \A n \in InBacklog(k) : Offered(n)
      BY <2>2 DEF ShareInv, Waiting, Listens
    <3>2. Cardinality(InBacklog(k)) = Len(backlog[k])
      BY <3>1, BacklogSize DEF IInv, TypeOK, SocketTypes
    <3> QED BY <3>1, <3>2 DEF Offered
  <2> QED BY <2>1, <2>2 DEF NoSharedSocket
<1> QED BY <1>1, Inductive, ShareInductive, PTL

(* Where no thread listens, none accepts.                                  *)
NoneAccepts ==
  /\ \A k \in Slots : overdrawn[k] = 0
  /\ \A t \in Threads : app[t].at \notin {"accept", "accept_take"}

LEMMA NoneAcceptsStays ==
  ASSUME IInv, NoListeners, NoneAccepts, [Next]_vars
  PROVE  NoneAccepts'
<1> USE DEF IInv, TypeOK
<1>1. /\ overdrawn \in [Slots -> 0 .. OVERDRAFT]
      /\ app \in [Threads -> [at : CallLabels, fd : Slots \cup {none}]]
  BY DEF SocketTypes, ThreadTypes
<1>2. ASSUME NEW t \in Threads, CallStep(t) PROVE NoneAccepts'
  <2>1. ~(\E k \in Slots : Accept(t, k)) /\ ~AcceptSee(t) /\ ~AcceptTake(t)
    BY DEF Accept, AcceptSee, AcceptTake, Call, NoListeners, NoneAccepts
  <2>2. \A u \in Threads \ {t} : app'[u] = app[u]
    BY <1>2, OthersStay
  <2>3. app'[t].at \notin {"accept", "accept_take"}
    <3>1. CASE UNCHANGED app
      BY <3>1 DEF NoneAccepts
    <3>2. CASE Return(t)
      BY <1>1, <3>2 DEF Return, Idle
    <3>3. ASSUME NEW label, NEW k, Goto(t, label, k), label \notin {"accept", "accept_take"}
          PROVE  app'[t].at \notin {"accept", "accept_take"}
      BY <1>1, <3>3 DEF Goto
    <3>4. CASE \E k \in Slots : Close(t, k) \/ Receive(t, k) \/ Send(t, k)
      BY <3>1, <3>3, <3>4 DEF Close, Receive, Send
    <3>5. CASE tcp_socket(t) \/ \E pr \in Peers : Connect(t, pr)
      BY <3>1, <3>3, <3>5 DEF Connect, tcp_socket
    <3>6. CASE \E k \in Slots : tcp_bind(t, k) \/ tcp_listen(t, k)
      BY <3>1, <3>6 DEF tcp_bind, tcp_listen
    <3>7. CASE \/ ConnectDone(t) \/ ConnectRefused(t) \/ ConnectRetry(t) \/ ConnectGiveUp(t)
               \/ ReceiveSee(t) \/ ReceiveEnd(t) \/ WaitTimeout(t)
               \/ SendSegment(t) \/ \E want \in 1 .. TCP_BUF_SIZE : ReceiveCopy(t, want)
      BY <3>2, <3>3, <3>7 DEF ConnectDone, ConnectRefused, ConnectRetry, ConnectGiveUp,
         ReceiveSee, ReceiveEnd, WaitTimeout, SendSegment, ReceiveCopy
    <3> QED BY <1>2, <2>1, <3>4, <3>5, <3>6, <3>7 DEF CallStep
  <2>4. \A k \in Slots : overdrawn'[k] = 0
    <3>1. CASE UNCHANGED overdrawn
      BY <3>1 DEF NoneAccepts
    <3>2. CASE \E n \in Slots : overdrawn' = [overdrawn EXCEPT ![n] = 0]
      BY <1>1, <3>2 DEF NoneAccepts
    <3>3. CASE tcp_socket(t) \/ \E pr \in Peers : Connect(t, pr)
      BY <3>2, <3>3 DEF Connect, tcp_socket, Renew
    <3>4. CASE \E k \in Slots : tcp_listen(t, k)
      BY <3>2, <3>4 DEF tcp_listen
    <3> QED BY <1>2, <2>1, <3>1, <3>3, <3>4 DEF CallStep, ConnectDone, ConnectRefused, ConnectRetry,
            ConnectGiveUp, tcp_bind, Receive, ReceiveSee, ReceiveEnd, WaitTimeout, ReceiveCopy,
            Send, SendSegment, Close, socketVars
  <2> QED BY <2>2, <2>3, <2>4 DEF NoneAccepts
<1>3. ASSUME NEW h \in Handlers, tcp_process_packet(h) PROVE NoneAccepts'
  <2>1. app' = app
    BY <1>3, ThreadsStay
  <2>2. CASE UNCHANGED overdrawn
    BY <2>1, <2>2 DEF NoneAccepts
  <2>3. CASE \E j \in Slots : Establish(j)
    BY <2>1, <2>3 DEF Establish, NoneAccepts
  <2>4. CASE \E n \in Slots : overdrawn' = [overdrawn EXCEPT ![n] = 0]
    BY <1>1, <2>1, <2>4 DEF NoneAccepts
  <2> QED BY <1>3, <2>2, <2>3, <2>4 DEF tcp_process_packet, Arrive, WalkEnds, PassiveOpen, Renew,
          Handshake, Reset, Acknowledge, TakeData, SetWindow, SeeFin, PeerClosed, SendAnswer,
          Relock, socketVars
<1>4. CASE UNCHANGED vars
  BY <1>4 DEF vars, NoneAccepts
<1> QED BY <1>2, <1>3, <1>4 DEF Next

(* tcp_accept and tcp_process_packet: a backlog_count never goes below 0,  *)
(* and so no connection is written before the array of a backlog, as long  *)
(* as nobody resets a connection or no thread listens.  With both, a reset *)
(* of the listening socket between tcp_accept's look at the count and its  *)
(* lock, and a new owner of the slot, are enough.                          *)
THEOREM CountsStayUp ==
  ASSUME NoWrap, ~Resets \/ "listen" \notin Ops
  PROVE  Spec => [](TypeOK /\ \A k \in Slots : overdrawn[k] = 0)
<1> DEFINE Up == \A k \in Slots : overdrawn[k] = 0
<1>1. IInv => TypeOK
  BY DEF IInv
<1>2. CASE ~Resets
  <2>1. ShareInv => Up
    BY DEF ShareInv, Stocked
  <2> QED BY <1>1, <1>2, <2>1, Inductive, ShareInductive, PTL
<1>3. CASE "listen" \notin Ops
  <2>1. Init => NoneAccepts
    BY DEF Init, NoneAccepts, Idle
  <2>2. AckInv => NoListeners
    BY <1>3 DEF AckInv, Sided
  <2>3. IInv /\ NoListeners /\ NoneAccepts /\ [Next]_vars => NoneAccepts'
    BY NoneAcceptsStays
  <2>4. NoneAccepts => Up
    BY DEF NoneAccepts
  <2>5. OneSided
    BY <1>3 DEF OneSided
  <2>6. Spec => []AckInv
    BY <2>5, AckInductive
  <2> QED BY <1>1, <2>1, <2>2, <2>3, <2>4, <2>6, Inductive, PTL DEF Spec
<1> QED BY <1>2, <1>3

=============================================================================
