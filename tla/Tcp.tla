-------------------------------- MODULE Tcp ---------------------------------
(***************************************************************************)
(* The TCP layer, src/kernel/tcp.c: its table of sockets, the segment      *)
(* handler that net_poll() runs in the netd thread and in every thread     *)
(* that is connecting, and the calls of the threads that use sockets.      *)
(*                                                                         *)
(* Whoever holds tcp_lock can be preempted, and the code lets go of the    *)
(* lock around every segment it sends, so the steps are the stretches      *)
(* between taking and releasing it; calls that read or write a socket      *)
(* without the lock have steps that do not wait for it.                    *)
(*                                                                         *)
(* The other ends and the network are external.  Byte n of a peer's stream *)
(* is the number n and travels as sequence number SeqOf(n); byte 0 is its  *)
(* SYN, byte STREAM + 1 its FIN.  A segment that may have been sent can    *)
(* arrive now, later, again or never: that is loss, delay, reordering and  *)
(* duplication.  Peers never send past the window they were offered.       *)
(*                                                                         *)
(* Left out, because nothing here depends on them: what this end sends     *)
(* (its sequence numbers are never compared with an acknowledgement),      *)
(* send_window, checksums, the calls that only read, and tcp_timer_tick    *)
(* and tcp_reset, which have no caller.                                    *)
(***************************************************************************)
EXTENDS Integers, FiniteSets, Sequences

CONSTANTS
  Threads,          (* threads that use sockets                            *)
  netd,             (* the thread that polls the network card              *)
  Peers,            (* remote ends, address and port                       *)
  TCP_MAX_SOCKETS,
  TCP_MAX_BACKLOG,
  TCP_BUF_SIZE,     (* also TCP_DEFAULT_WINDOW                             *)
  TCP_MSS,          (* most bytes in a segment of a peer                   *)
  SEQS,             (* how many sequence numbers there are, 2^32           *)
  IRS,              (* the sequence number of a peer's SYN                 *)
  STREAM,           (* bytes a peer has to say                             *)
  SERVICE,          (* the port of the listening socket                    *)
  Ops,              (* what the threads of the workload do                 *)
  Resets,           (* may peers send RST?                                 *)
  none

ASSUME TcpAssumption ==
  /\ TCP_MAX_SOCKETS \in Nat \ {0} /\ TCP_MAX_BACKLOG \in Nat \ {0}
  /\ TCP_BUF_SIZE \in Nat \ {0} /\ TCP_MSS \in Nat \ {0}
  /\ SEQS \in Nat \ {0} /\ IRS \in 0 .. SEQS - 1 /\ STREAM \in Nat
  /\ STREAM + 2 < SEQS
  /\ netd \notin Threads
  /\ none \notin Threads \cup {netd} \cup Peers
  /\ SERVICE \notin Nat /\ none \notin Nat /\ none # SERVICE
  /\ none \notin {"walk", "data", "window", "fin", "peer_closed"}
  /\ Resets \in BOOLEAN

VARIABLES
  in_use, state, port, peer, backlog,             (* per socket             *)
  overdrawn,        (* per socket: how far its backlog_count is below 0    *)
  ack_num, recv_next_seq, recv_buf, recv_window,  (* per socket             *)
  tcp_lock,         (* its holder                                          *)
  app,              (* per thread: the call it is in                       *)
  own,              (* per thread: the sockets it has got and not closed   *)
  rx,               (* per polling thread: its walk through the sockets    *)
  linked,           (* the peer and port pairs ACKs were sent on           *)
  edge,             (* per pair: the last byte the peer may send           *)
  got               (* per socket, history: bytes handed out               *)

socketVars == <<in_use, state, port, peer, backlog, overdrawn>>
streamVars == <<ack_num, recv_next_seq, recv_buf, recv_window, got>>
netVars    == <<linked, edge>>
vars == <<in_use, state, port, peer, backlog, overdrawn, ack_num, recv_next_seq, recv_buf,
          recv_window, tcp_lock, app, own, rx, linked, edge, got>>

Slots == 0 .. TCP_MAX_SOCKETS - 1

(* Bound of the model: how far below 0 a backlog_count goes.  Two ints lie *)
(* between it and its array, and the next before them is the count itself. *)
OVERDRAFT == 2

(* tcp_connect derives the local port from the slot.                       *)
Ports == Slots \cup {SERVICE}

Handlers == Threads \cup {netd}

States == {"CLOSED", "LISTEN", "SYN_SENT", "SYN_RECEIVED", "ESTABLISHED", "CLOSE_WAIT",
           "LAST_ACK", "FIN_WAIT_1", "FIN_WAIT_2", "TIME_WAIT"}

SeqOf(n) == (IRS + n) % SEQS

Bytes(first, c) == [i \in 1 .. c |-> first + i - 1]

Least(a, b) == IF a <= b THEN a ELSE b
Most(a, b)  == IF a >= b THEN a ELSE b

-----------------------------------------------------------------------------
(* The network and the peers.                                              *)

Segments == [src : Peers, dp : Ports, flags : SUBSET {"SYN", "ACK", "FIN", "RST"},
             first : 0 .. STREAM + 1, len : 0 .. TCP_MSS]

Segment(pr, pt, flags, first, len) ==
  [src |-> pr, dp |-> pt, flags |-> flags, first |-> first, len |-> len]

(* What peer pr may have sent to port pt: a call or the answer to a call   *)
(* (one that answers nothing finds no socket); once the pair is linked,    *)
(* acknowledgements, data within the window, and the FIN.                  *)
Sent(pr, pt) ==
  LET room == edge[<<pr, pt>>] IN
  {Segment(pr, pt, IF pt = SERVICE THEN {"SYN"} ELSE {"SYN", "ACK"}, 0, 0)}
  \cup (IF Resets THEN {Segment(pr, pt, {"ACK", "RST"}, 1, 0)} ELSE {})
  \cup IF <<pr, pt>> \notin linked THEN {}
       ELSE {Segment(pr, pt, {"ACK"}, 1, 0)}
            \cup {g \in {Segment(pr, pt, {"ACK"}, n, c) : n \in 1 .. room, c \in 1 .. TCP_MSS} :
                    g.first + g.len - 1 <= room}
            \cup {Segment(pr, pt, {"ACK", "FIN"}, STREAM + 1 - c, c) :
                    c \in IF room = STREAM THEN 0 .. Least(TCP_MSS, STREAM) ELSE {}}

(* The bytes that ack_num tells the peer have been received.               *)
AckedBytes(k) == (ack_num[k] - IRS - 1) % SEQS

(* tcp_send_segment with the ACK flag: the peer learns what was received   *)
(* and how much it may send.  A pair it knows nothing about it ignores.    *)
Transmit(k) ==
  IF in_use[k] /\ peer[k] # none /\ state[k] \notin {"CLOSED", "SYN_SENT"}
  THEN /\ linked' = linked \cup {<<peer[k], port[k]>>}
       /\ edge' = [edge EXCEPT ![<<peer[k], port[k]>>] =
                      Most(@, Least(STREAM, AckedBytes(k) + recv_window[k]))]
  ELSE UNCHANGED netVars

-----------------------------------------------------------------------------
(* The socket table.                                                       *)

FreeSlots == {k \in Slots : ~in_use[k]}

(* The scan for a socket takes the first free one.                         *)
IsFirstFree(n) == n \in FreeSlots /\ \A k \in FreeSlots : n <= k

(* memset and the initial values; `a' is what is known of the peer's       *)
(* sequence numbers.                                                       *)
Renew(n, st, pt, pr, a) ==
  /\ in_use' = [in_use EXCEPT ![n] = TRUE]
  /\ state' = [state EXCEPT ![n] = st]
  /\ port' = [port EXCEPT ![n] = pt]
  /\ peer' = [peer EXCEPT ![n] = pr]
  /\ backlog' = [backlog EXCEPT ![n] = <<>>]
  /\ overdrawn' = [overdrawn EXCEPT ![n] = 0]
  /\ ack_num' = [ack_num EXCEPT ![n] = a]
  /\ recv_next_seq' = [recv_next_seq EXCEPT ![n] = a]
  /\ recv_buf' = [recv_buf EXCEPT ![n] = <<>>]
  /\ recv_window' = [recv_window EXCEPT ![n] = TCP_BUF_SIZE]
  /\ got' = [got EXCEPT ![n] = 0]

Free(k) ==
  /\ in_use' = [in_use EXCEPT ![k] = FALSE]
  /\ state' = [state EXCEPT ![k] = "CLOSED"]

Idle == [at |-> "idle", fd |-> none]
Quiet == [at |-> "idle", seg |-> none, i |-> 0, to |-> none, next |-> none]

Init ==
  /\ in_use = [k \in Slots |-> FALSE]
  /\ state = [k \in Slots |-> "CLOSED"]
  /\ port = [k \in Slots |-> none]
  /\ peer = [k \in Slots |-> none]
  /\ backlog = [k \in Slots |-> <<>>]
  /\ overdrawn = [k \in Slots |-> 0]
  /\ ack_num = [k \in Slots |-> 0]
  /\ recv_next_seq = [k \in Slots |-> 0]
  /\ recv_buf = [k \in Slots |-> <<>>]
  /\ recv_window = [k \in Slots |-> 0]
  /\ tcp_lock = none
  /\ app = [t \in Threads |-> Idle]
  /\ own = [t \in Threads |-> {}]
  /\ rx = [h \in Handlers |-> Quiet]
  /\ linked = {}
  /\ edge = [q \in Peers \X Ports |-> 0]
  /\ got = [k \in Slots |-> 0]

(* Calls of a thread: from one label to the next, on a socket.             *)
Call(t, from) == t \in Threads /\ app[t].at = from /\ rx[t].at = "idle"
Goto(t, label, k) == app' = [app EXCEPT ![t] = [at |-> label, fd |-> k]]
Return(t) == app' = [app EXCEPT ![t] = Idle]

-----------------------------------------------------------------------------
(* tcp_connect                                                             *)

Connect(t, pr) ==
  /\ "connect" \in Ops
  /\ Call(t, "idle") /\ tcp_lock = none
  /\ \E n \in Slots :
       /\ IsFirstFree(n)
       /\ Renew(n, "SYN_SENT", n, pr, 0)
       /\ linked' = linked \ {<<pr, n>>}
       /\ edge' = [edge EXCEPT ![<<pr, n>>] = 0]
       /\ Goto(t, "connect", n)
  /\ UNCHANGED <<tcp_lock, own, rx>>

Connecting(t) == Call(t, "connect") \/ Call(t, "reconnect")

ConnectDone(t) ==
  /\ Connecting(t) /\ state[app[t].fd] = "ESTABLISHED"
  /\ own' = [own EXCEPT ![t] = @ \cup {app[t].fd}]
  /\ Return(t)
  /\ UNCHANGED <<socketVars, streamVars, netVars, tcp_lock, rx>>

ConnectRefused(t) ==
  /\ Connecting(t) /\ state[app[t].fd] = "CLOSED"
  /\ in_use' = [in_use EXCEPT ![app[t].fd] = FALSE]
  /\ Return(t)
  /\ UNCHANGED <<state, port, peer, backlog, overdrawn, streamVars, netVars, tcp_lock, own, rx>>

(* The first wait is over: the SYN goes out again, whatever came in while  *)
(* the thread slept.                                                       *)
ConnectRetry(t) ==
  /\ Call(t, "connect")
  /\ Goto(t, "reconnect", app[t].fd)
  /\ UNCHANGED <<socketVars, streamVars, netVars, tcp_lock, own, rx>>

ConnectGiveUp(t) ==
  /\ Call(t, "reconnect")
  /\ Free(app[t].fd)
  /\ Return(t)
  /\ UNCHANGED <<port, peer, backlog, overdrawn, streamVars, netVars, tcp_lock, own, rx>>

-----------------------------------------------------------------------------
(* tcp_socket, tcp_bind, tcp_listen, tcp_accept                            *)

tcp_socket(t) ==
  /\ "listen" \in Ops
  /\ Call(t, "idle") /\ tcp_lock = none
  /\ \E n \in Slots :
       /\ IsFirstFree(n)
       /\ Renew(n, "CLOSED", none, none, 0)
       /\ own' = [own EXCEPT ![t] = @ \cup {n}]
  /\ UNCHANGED <<netVars, tcp_lock, app, rx>>

(* Refused as long as any other socket has the port.                       *)
tcp_bind(t, k) ==
  /\ Call(t, "idle") /\ k \in own[t] /\ tcp_lock = none
  /\ in_use[k] /\ state[k] = "CLOSED" /\ port[k] = none
  /\ \A i \in Slots \ {k} : in_use[i] => port[i] # SERVICE
  /\ port' = [port EXCEPT ![k] = SERVICE]
  /\ UNCHANGED <<in_use, state, peer, backlog, overdrawn, streamVars, netVars, tcp_lock, app,
                 own, rx>>

tcp_listen(t, k) ==
  /\ Call(t, "idle") /\ k \in own[t] /\ tcp_lock = none
  /\ in_use[k] /\ port[k] = SERVICE /\ state[k] = "CLOSED"
  /\ state' = [state EXCEPT ![k] = "LISTEN"]
  /\ backlog' = [backlog EXCEPT ![k] = <<>>]
  /\ overdrawn' = [overdrawn EXCEPT ![k] = 0]
  /\ UNCHANGED <<in_use, port, peer, streamVars, netVars, tcp_lock, app, own, rx>>

Accept(t, k) ==
  /\ Call(t, "idle") /\ k \in own[t] /\ state[k] = "LISTEN"
  /\ Goto(t, "accept", k)
  /\ UNCHANGED <<socketVars, streamVars, netVars, tcp_lock, own, rx>>

(* backlog_count is 0.                                                     *)
NoneWaits(k) == backlog[k] = <<>> /\ overdrawn[k] = 0

AcceptSee(t) ==
  /\ Call(t, "accept") /\ ~NoneWaits(app[t].fd)
  /\ Goto(t, "accept_take", app[t].fd)
  /\ UNCHANGED <<socketVars, streamVars, netVars, tcp_lock, own, rx>>

(* What backlog_fds[0] of a socket is: where nobody waits, whatever an     *)
(* earlier tcp_accept or the memset has left there.                        *)
FirstEntry(k) == IF backlog[k] = <<>> THEN Slots ELSE {Head(backlog[k])}

(* Faulty variant, for mutation: the entry stays in the backlog.           *)
AcceptTakeKeeps(t) ==
  /\ Call(t, "accept_take") /\ tcp_lock = none
  /\ \E n \in FirstEntry(app[t].fd) : own' = [own EXCEPT ![t] = @ \cup {n}]
  /\ Return(t)
  /\ UNCHANGED <<socketVars, streamVars, netVars, tcp_lock, rx>>

(* The count is not looked at again under the lock: if the socket has been *)
(* reset and its slot taken since, it goes below 0.                        *)
AcceptTake(t) ==
  LET k == app[t].fd
  IN  /\ Call(t, "accept_take") /\ tcp_lock = none /\ overdrawn[k] < OVERDRAFT
      /\ \E n \in FirstEntry(k) : own' = [own EXCEPT ![t] = @ \cup {n}]
      /\ backlog' = [backlog EXCEPT ![k] = IF @ = <<>> THEN <<>> ELSE Tail(@)]
      /\ overdrawn' = [overdrawn EXCEPT ![k] = IF backlog[k] = <<>> THEN @ + 1 ELSE @]
      /\ Return(t)
      /\ UNCHANGED <<in_use, state, port, peer, streamVars, netVars, tcp_lock, rx>>

-----------------------------------------------------------------------------
(* tcp_recv, tcp_send, tcp_close                                           *)

Receive(t, k) ==
  /\ "recv" \in Ops
  /\ Call(t, "idle") /\ k \in own[t] /\ state[k] \in {"ESTABLISHED", "CLOSE_WAIT"}
  /\ Goto(t, "recv", k)
  /\ UNCHANGED <<socketVars, streamVars, netVars, tcp_lock, own, rx>>

ReceiveSee(t) ==
  /\ Call(t, "recv") /\ recv_buf[app[t].fd] # <<>>
  /\ Goto(t, "recv_copy", app[t].fd)
  /\ UNCHANGED <<socketVars, streamVars, netVars, tcp_lock, own, rx>>

(* The thread finds nothing to read and takes it for the end.              *)
AtEnd(t) ==
  /\ Call(t, "recv")
  /\ recv_buf[app[t].fd] = <<>> /\ state[app[t].fd] \in {"CLOSED", "CLOSE_WAIT"}

ReceiveEnd(t) ==
  /\ AtEnd(t)
  /\ Return(t)
  /\ UNCHANGED <<socketVars, streamVars, netVars, tcp_lock, own, rx>>

(* An accept or a receive that finds nothing for 30 seconds.               *)
WaitTimeout(t) ==
  /\ \/ Call(t, "accept") /\ NoneWaits(app[t].fd)
     \/ Call(t, "recv") /\ recv_buf[app[t].fd] = <<>>
  /\ Return(t)
  /\ UNCHANGED <<socketVars, streamVars, netVars, tcp_lock, own, rx>>

(* Up to `want' bytes; the acknowledgement with the new window follows     *)
(* after the lock is released.                                             *)
ReceiveCopy(t, want) ==
  LET k == app[t].fd
      copy == Least(want, Len(recv_buf[k]))
  IN  /\ Call(t, "recv_copy") /\ tcp_lock = none
      /\ recv_buf' = [recv_buf EXCEPT ![k] = SubSeq(@, copy + 1, Len(@))]
      /\ recv_window' = [recv_window EXCEPT ![k] = TCP_BUF_SIZE - (Len(recv_buf[k]) - copy)]
      /\ got' = [got EXCEPT ![k] = @ + copy]
      /\ Goto(t, "send", k)
      /\ UNCHANGED <<socketVars, ack_num, recv_next_seq, netVars, tcp_lock, own, rx>>

Send(t, k) ==
  /\ "send" \in Ops
  /\ Call(t, "idle") /\ k \in own[t] /\ tcp_lock = none /\ state[k] = "ESTABLISHED"
  /\ Goto(t, "send", k)
  /\ UNCHANGED <<socketVars, streamVars, netVars, tcp_lock, own, rx>>

SendSegment(t) ==
  /\ Call(t, "send")
  /\ Transmit(app[t].fd)
  /\ Return(t)
  /\ UNCHANGED <<socketVars, streamVars, tcp_lock, own, rx>>

(* A connection says FIN; any other socket is free at once.                *)
Close(t, k) ==
  /\ "close" \in Ops
  /\ Call(t, "idle") /\ k \in own[t] /\ tcp_lock = none
  /\ own' = [own EXCEPT ![t] = @ \ {k}]
  /\ \/ /\ in_use[k] /\ state[k] \in {"ESTABLISHED", "CLOSE_WAIT"}
        /\ state' = [state EXCEPT ![k] = IF @ = "ESTABLISHED" THEN "FIN_WAIT_1" ELSE "LAST_ACK"]
        /\ Goto(t, "send", k)
        /\ UNCHANGED in_use
     \/ /\ in_use[k] /\ state[k] \notin {"ESTABLISHED", "CLOSE_WAIT"}
        /\ Free(k)
        /\ UNCHANGED app
     \/ ~in_use[k] /\ UNCHANGED <<in_use, state, app>>
  /\ UNCHANGED <<port, peer, backlog, overdrawn, streamVars, netVars, tcp_lock, rx>>

-----------------------------------------------------------------------------
(* tcp_process_packet, run by netd and by threads that are connecting.     *)

(* A listening socket takes segments from anyone.                          *)
Matches(k, g) ==
  in_use[k] /\ port[k] = g.dp /\ (state[k] = "LISTEN" \/ peer[k] = g.src)

(* h has the lock and is at `label' with segment g and socket i.           *)
Walk(h, label, g, i) ==
  /\ tcp_lock' = h
  /\ rx' = [rx EXCEPT ![h] = [at |-> label, seg |-> g, i |-> i, to |-> none, next |-> none]]

Leave(h) ==
  /\ tcp_lock' = none
  /\ rx' = [rx EXCEPT ![h] = Quiet]

(* On to the sockets from i on: if the segment is for none of them, the    *)
(* walk ends.                                                              *)
Onward(h, g, i) ==
  IF \E k \in i .. TCP_MAX_SOCKETS - 1 : Matches(k, g)
  THEN Walk(h, "walk", g, i) ELSE Leave(h)

(* On to the FIN, if there is one; on to the data.                         *)
ToFin(h, g, j) == IF "FIN" \in g.flags THEN Walk(h, "fin", g, j) ELSE Onward(h, g, j + 1)

ToData(h, g, j) == IF g.len > 0 THEN Walk(h, "data", g, j) ELSE ToFin(h, g, j)

(* Unlock, send from socket n, lock again, and go on at `next'.            *)
Answer(h, n, next, i) ==
  /\ tcp_lock' = none
  /\ rx' = [rx EXCEPT ![h] = [at |-> "answer", seg |-> rx[h].seg, i |-> i, to |-> n, next |-> next]]

MayPoll(h) ==
  /\ rx[h].at = "idle" /\ tcp_lock = none
  /\ h # netd => app[h].at \in {"connect", "reconnect"}

(* A segment that no socket matches has no effect.                         *)
Arrive(h) ==
  /\ MayPoll(h)
  /\ \E pr \in Peers, pt \in Ports : \E g \in Sent(pr, pt) :
       /\ \E k \in Slots : Matches(k, g)
       /\ Walk(h, "walk", g, 0)
  /\ UNCHANGED <<socketVars, streamVars, netVars, app, own>>

(* The next socket, from h's place on, that the segment is for.            *)
IsNextMatch(h, j) ==
  /\ rx[h].at = "walk" /\ j \in rx[h].i .. TCP_MAX_SOCKETS - 1
  /\ Matches(j, rx[h].seg)
  /\ \A k \in rx[h].i .. j - 1 : ~Matches(k, rx[h].seg)

(* A connect that gave up, without the lock, may leave none.               *)
WalkEnds(h) ==
  /\ rx[h].at = "walk"
  /\ \A k \in rx[h].i .. TCP_MAX_SOCKETS - 1 : ~Matches(k, rx[h].seg)
  /\ Leave(h)
  /\ UNCHANGED <<socketVars, streamVars, netVars, app, own>>

IsCall(j, g)   == state[j] = "LISTEN" /\ "SYN" \in g.flags
IsAnswer(j, g) == state[j] = "SYN_SENT" /\ {"SYN", "ACK"} \subseteq g.flags

(* A SYN for a listening socket makes a new socket, if there is room.      *)
PassiveOpen(h, j) ==
  LET g == rx[h].seg
      room == Len(backlog[j]) < TCP_MAX_BACKLOG /\ FreeSlots # {}
  IN  /\ IsNextMatch(h, j) /\ IsCall(j, g)
      /\ \/ /\ ~room
            /\ Onward(h, g, j + 1)
            /\ UNCHANGED <<socketVars, streamVars>>
         \/ \E n \in Slots :
              /\ room /\ IsFirstFree(n)
              /\ Renew(n, "SYN_RECEIVED", g.dp, g.src, SeqOf(g.first + 1))
              /\ Answer(h, n, "walk", j + 1)
      /\ UNCHANGED <<netVars, app, own>>

Handshake(h, j) ==
  LET g == rx[h].seg
  IN  /\ IsNextMatch(h, j) /\ IsAnswer(j, g)
      /\ ack_num' = [ack_num EXCEPT ![j] = SeqOf(g.first + 1)]
      /\ recv_next_seq' = [recv_next_seq EXCEPT ![j] = SeqOf(g.first + 1)]
      /\ state' = [state EXCEPT ![j] = "ESTABLISHED"]
      /\ Answer(h, j, "walk", j + 1)
      /\ UNCHANGED <<in_use, port, peer, backlog, overdrawn, recv_buf, recv_window, got, netVars,
                     app, own>>

Reset(h, j) ==
  LET g == rx[h].seg
  IN  /\ IsNextMatch(h, j) /\ "RST" \in g.flags
      /\ ~IsCall(j, g) /\ ~IsAnswer(j, g)
      /\ Free(j)
      /\ Onward(h, g, j + 1)
      /\ UNCHANGED <<port, peer, backlog, overdrawn, streamVars, netVars, app, own>>

(* The acknowledgement of our SYN puts the new socket into the backlog of  *)
(* the first listening socket with room.                                   *)
HasRoom(k, j) ==
  /\ k # j /\ in_use[k] /\ state[k] = "LISTEN" /\ port[k] = port[j]
  /\ Len(backlog[k]) < TCP_MAX_BACKLOG

Takes(k, j) == HasRoom(k, j) /\ \A i \in Slots : HasRoom(i, j) => k <= i

(* A count below 0 is an index before the array: the connection's number   *)
(* is written over in_use, or over the flags before it, and is lost.       *)
Establish(j) ==
  /\ state' = [state EXCEPT ![j] = "ESTABLISHED"]
  /\ backlog' = [k \in Slots |-> IF Takes(k, j) /\ overdrawn[k] = 0
                                 THEN Append(backlog[k], j) ELSE backlog[k]]
  /\ overdrawn' = [k \in Slots |-> IF Takes(k, j) /\ overdrawn[k] > 0
                                   THEN overdrawn[k] - 1 ELSE overdrawn[k]]
  /\ in_use' = [k \in Slots |-> IF Takes(k, j) /\ overdrawn[k] = 1
                                THEN j # 0 ELSE in_use[k]]

(* What an acknowledgement does to the state.  The last one, and the first *)
(* after our FIN, end the handling of the segment for this socket.         *)
Acknowledge(h, j) ==
  LET g == rx[h].seg
  IN  /\ IsNextMatch(h, j) /\ "RST" \notin g.flags
      /\ ~IsCall(j, g) /\ ~IsAnswer(j, g)
      /\ \/ /\ "ACK" \in g.flags /\ state[j] = "SYN_RECEIVED"
            /\ Establish(j)
            /\ ToData(h, g, j)
         \/ /\ "ACK" \in g.flags /\ state[j] = "LAST_ACK"
            /\ Free(j)
            /\ Onward(h, g, j + 1)
            /\ UNCHANGED <<backlog, overdrawn>>
         \/ /\ "ACK" \in g.flags /\ state[j] = "FIN_WAIT_1"
            /\ state' = [state EXCEPT ![j] = "FIN_WAIT_2"]
            /\ Onward(h, g, j + 1)
            /\ UNCHANGED <<in_use, backlog, overdrawn>>
         \/ /\ "ACK" \in g.flags => state[j] \notin {"SYN_RECEIVED", "LAST_ACK", "FIN_WAIT_1"}
            /\ ToData(h, g, j)
            /\ UNCHANGED <<in_use, state, backlog, overdrawn>>
      /\ UNCHANGED <<port, peer, streamVars, netVars, app, own>>

(* Faulty variants, for mutation: duplicates are taken again; what does    *)
(* not fit is taken as well.                                               *)
AcceptableAny(j, g) ==
  IF state[j] \notin {"ESTABLISHED", "CLOSE_WAIT"}
  THEN 0 ELSE Least(g.len, TCP_BUF_SIZE - Len(recv_buf[j]))

AcceptableUnbounded(j, g) ==
  IF \/ state[j] \notin {"ESTABLISHED", "CLOSE_WAIT"}
     \/ recv_next_seq[j] # 0 /\ SeqOf(g.first) # recv_next_seq[j]
  THEN 0 ELSE g.len

(* How many bytes of the segment are taken: none out of order.             *)
Acceptable(j, g) ==
  IF \/ state[j] \notin {"ESTABLISHED", "CLOSE_WAIT"}
     \/ recv_next_seq[j] # 0 /\ SeqOf(g.first) # recv_next_seq[j]
  THEN 0 ELSE Least(g.len, TCP_BUF_SIZE - Len(recv_buf[j]))

(* Faulty variant, for mutation: what did not fit is acknowledged as well. *)
AckAll(j, g) == SeqOf(g.first + g.len)

(* The acknowledgement covers what was taken.                              *)
AckTaken(j, g) == SeqOf(g.first + Acceptable(j, g))

(* The bytes, their acknowledgement, and then the window: a thread that    *)
(* sends without the lock can see one without the other.                   *)
TakeData(h) ==
  LET g == rx[h].seg
      j == rx[h].i
      c == Acceptable(j, g)
  IN  /\ rx[h].at = "data"
      /\ \/ /\ c > 0
            /\ recv_buf' = [recv_buf EXCEPT ![j] = @ \o Bytes(g.first, c)]
            /\ recv_next_seq' = [recv_next_seq EXCEPT ![j] = SeqOf(g.first + c)]
            /\ ack_num' = [ack_num EXCEPT ![j] = AckTaken(j, g)]
            /\ Walk(h, "window", g, j)
         \/ /\ c = 0
            /\ ToFin(h, g, j)
            /\ UNCHANGED <<recv_buf, recv_next_seq, ack_num>>
      /\ UNCHANGED <<socketVars, recv_window, got, netVars, app, own>>

SetWindow(h) ==
  LET g == rx[h].seg
      j == rx[h].i
  IN  /\ rx[h].at = "window"
      /\ recv_window' = [recv_window EXCEPT ![j] = TCP_BUF_SIZE - Len(recv_buf[j])]
      /\ IF "FIN" \in g.flags THEN Answer(h, j, "fin", j) ELSE Answer(h, j, "walk", j + 1)
      /\ UNCHANGED <<socketVars, ack_num, recv_next_seq, recv_buf, got, netVars, app, own>>

SeeFin(h) ==
  LET g == rx[h].seg
      j == rx[h].i
  IN  /\ rx[h].at = "fin"
      /\ ack_num' = [ack_num EXCEPT ![j] = SeqOf(g.first + 1)]
      /\ Answer(h, j, "peer_closed", j)
      /\ UNCHANGED <<socketVars, recv_next_seq, recv_buf, recv_window, got, netVars, app, own>>

PeerClosed(h) ==
  LET j == rx[h].i
  IN  /\ rx[h].at = "peer_closed"
      /\ state' = [state EXCEPT ![j] = CASE @ = "ESTABLISHED" -> "CLOSE_WAIT"
                                         [] @ = "FIN_WAIT_2" -> "TIME_WAIT"
                                         [] OTHER -> @]
      /\ Onward(h, rx[h].seg, j + 1)
      /\ UNCHANGED <<in_use, port, peer, backlog, overdrawn, streamVars, netVars, app, own>>

SendAnswer(h) ==
  /\ rx[h].at = "answer"
  /\ Transmit(rx[h].to)
  /\ rx' = [rx EXCEPT ![h].at = "relock"]
  /\ UNCHANGED <<socketVars, streamVars, tcp_lock, app, own>>

Relock(h) ==
  LET r == rx[h]
  IN  /\ r.at = "relock" /\ tcp_lock = none
      /\ IF r.next = "walk" THEN Onward(h, r.seg, r.i) ELSE Walk(h, r.next, r.seg, r.i)
      /\ UNCHANGED <<socketVars, streamVars, netVars, app, own>>

-----------------------------------------------------------------------------
CallStep(t) ==
  \/ \E pr \in Peers : Connect(t, pr)
  \/ ConnectDone(t)
  \/ ConnectRefused(t)
  \/ ConnectRetry(t)
  \/ ConnectGiveUp(t)
  \/ tcp_socket(t)
  \/ \E k \in Slots : tcp_bind(t, k)
  \/ \E k \in Slots : tcp_listen(t, k)
  \/ \E k \in Slots : Accept(t, k)
  \/ AcceptSee(t)
  \/ AcceptTake(t)
  \/ \E k \in Slots : Receive(t, k)
  \/ ReceiveSee(t)
  \/ ReceiveEnd(t)
  \/ WaitTimeout(t)
  \/ \E want \in 1 .. TCP_BUF_SIZE : ReceiveCopy(t, want)
  \/ \E k \in Slots : Send(t, k)
  \/ SendSegment(t)
  \/ \E k \in Slots : Close(t, k)

tcp_process_packet(h) ==
  \/ Arrive(h)
  \/ WalkEnds(h)
  \/ \E j \in Slots : PassiveOpen(h, j)
  \/ \E j \in Slots : Handshake(h, j)
  \/ \E j \in Slots : Reset(h, j)
  \/ \E j \in Slots : Acknowledge(h, j)
  \/ TakeData(h)
  \/ SetWindow(h)
  \/ SeeFin(h)
  \/ PeerClosed(h)
  \/ SendAnswer(h)
  \/ Relock(h)

Next ==
  \/ \E t \in Threads : CallStep(t)
  \/ \E h \in Handlers : tcp_process_packet(h)

Spec == Init /\ [][Next]_vars

-----------------------------------------------------------------------------
(* Types: every field in its range; no receive buffer ever holds more than *)
(* TCP_BUF_SIZE bytes (the memcpy of tcp_process_packet stays inside       *)
(* recv_buf) and no backlog more than TCP_MAX_BACKLOG sockets.             *)
SocketTypes ==
  /\ in_use \in [Slots -> BOOLEAN]
  /\ state \in [Slots -> States]
  /\ port \in [Slots -> Ports \cup {none}]
  /\ peer \in [Slots -> Peers \cup {none}]
  /\ backlog \in [Slots -> Seq(Slots)]
  /\ overdrawn \in [Slots -> 0 .. OVERDRAFT]
  /\ \A k \in Slots : Len(backlog[k]) <= TCP_MAX_BACKLOG
  /\ \A k \in Slots : peer[k] # none => port[k] # none

StreamTypes ==
  /\ ack_num \in [Slots -> 0 .. SEQS - 1]
  /\ recv_next_seq \in [Slots -> 0 .. SEQS - 1]
  /\ recv_window \in [Slots -> 0 .. TCP_BUF_SIZE]
  /\ recv_buf \in [Slots -> Seq(Nat)]
  /\ got \in [Slots -> Nat]
  /\ \A k \in Slots : Len(recv_buf[k]) <= TCP_BUF_SIZE

NetTypes ==
  /\ linked \subseteq Peers \X Ports
  /\ edge \in [Peers \X Ports -> 0 .. STREAM]

CallLabels ==
  {"idle", "connect", "reconnect", "accept", "accept_take", "recv", "recv_copy", "send"}

ThreadTypes ==
  /\ app \in [Threads -> [at : CallLabels, fd : Slots \cup {none}]]
  /\ \A t \in Threads : app[t].at # "idle" => app[t].fd \in Slots
  /\ own \in [Threads -> SUBSET Slots]

(* Segments as peers make them: a SYN is byte 0, data bytes are 1..STREAM. *)
IsSegment(g) ==
  /\ g \in Segments
  /\ "SYN" \in g.flags => g.first = 0
  /\ g.len > 0 => g.first >= 1 /\ g.first + g.len - 1 <= STREAM

WalkLabels == {"walk", "data", "window", "fin", "peer_closed"}

RxTypes ==
  /\ tcp_lock \in Handlers \cup {none}
  /\ rx \in [Handlers -> [at : WalkLabels \cup {"idle", "answer", "relock"},
                          seg : Segments \cup {none}, i : Nat,
                          to : Slots \cup {none}, next : WalkLabels \cup {none}]]
  /\ \A h \in Handlers :
       /\ rx[h].at # "idle" => IsSegment(rx[h].seg)
       /\ rx[h].at \in WalkLabels \ {"walk"} => rx[h].i \in Slots
       /\ rx[h].at \in {"answer", "relock"} =>
            /\ rx[h].to \in Slots /\ rx[h].next \in WalkLabels
            /\ rx[h].next # "walk" => rx[h].i \in Slots

TypeOK == SocketTypes /\ StreamTypes /\ NetTypes /\ ThreadTypes /\ RxTypes

(* The stream stays ordered: whatever segments arrive, in whatever order   *)
(* and however often, the buffer of a socket holds the bytes of its peer's *)
(* stream that follow those already handed out, each once and in order.    *)
StreamInOrder ==
  \A k \in Slots : \A i \in 1 .. Len(recv_buf[k]) : recv_buf[k][i] = got[k] + i

(* A handler is about to move socket k on after the FIN it answers.        *)
AnsweringFin(k) ==
  \E h \in Handlers : "peer_closed" \in {rx[h].at, rx[h].next} /\ rx[h].i = k

(* A byte the peer is told has arrived is in the buffer or was handed out: *)
(* what does not fit, comes early or comes twice is not acknowledged.  (A  *)
(* FIN is acknowledged whatever is missing before it.)                     *)
AckCoversBuffered ==
  \A k \in Slots : in_use[k] /\ state[k] = "ESTABLISHED" /\ ~AnsweringFin(k) =>
    AckedBytes(k) <= got[k] + Len(recv_buf[k])

(* The sockets a thread has: those it was given and the one it connects.   *)
HeldBy(t) == own[t] \cup (IF app[t].at \in {"connect", "reconnect"} THEN {app[t].fd} ELSE {})

InBacklog(k) == {backlog[k][i] : i \in 1 .. Len(backlog[k])}

(* Several connections run at once without one trampling another's state:  *)
(* no socket belongs to two threads.                                       *)
NoTrampling ==
  \A t, u \in Threads : t # u => HeldBy(t) \cap HeldBy(u) = {}

(* As long as nobody resets a connection: no socket belongs to two         *)
(* threads, to a thread and to a backlog, or to a backlog twice; none that *)
(* belongs to a thread is free, and all in a backlog are connected.        *)
NoSharedSocket ==
  /\ NoTrampling
  /\ \A t \in Threads : \A k \in HeldBy(t) : in_use[k]
  /\ \A k \in Slots : in_use[k] /\ state[k] = "LISTEN" =>
       /\ \A t \in Threads : InBacklog(k) \cap HeldBy(t) = {}
       /\ Cardinality(InBacklog(k)) = Len(backlog[k])
       /\ \A n \in InBacklog(k) : in_use[n] /\ state[n] \in {"ESTABLISHED", "CLOSE_WAIT"}

(* When tcp_recv reports the end of the stream because the peer has        *)
(* closed, everything the peer said has been handed out.                   *)
EofMeansDrained ==
  \A t \in Threads :
    AtEnd(t) /\ state[app[t].fd] = "CLOSE_WAIT" => got[app[t].fd] = STREAM
=============================================================================
