----------------------------- MODULE DnsProofs ------------------------------
(***************************************************************************)
(* Proofs about dns_resolve: its type invariant and the three invariants   *)
(* of its run, for one resolver, any set of names, number of servers, of   *)
(* tries and of calls, size of buffer and whatever the servers say.  What  *)
(* is cached is proved as long as the query ids, 16 bits wide in the code, *)
(* do not come round (IdsLast); the others need no such thing.             *)
(*                                                                         *)
(* None of the three is inductive.  That a reply with the id of the query  *)
(* is a reply to the query is Genuine: every reply on its way, in the      *)
(* card, in the socket or in the resolver's hand, is what its server says  *)
(* to a request that went out, and Numbered says that no two of the        *)
(* requests that went out have one id and two names.  Peered says whose    *)
(* replies a socket holds, Covered which tries a call has behind it.       *)
(***************************************************************************)
EXTENDS Dns, TLAPS

(* r is what its server says to a request that went out.                   *)
IsGenuine(r) ==
  /\ r.kind = Says(r.server, r.name)
  /\ [id |-> r.id, name |-> r.name, server |-> r.server] \in sent

Genuine ==
  /\ \A i \in 1 .. Len(ring) : IsGenuine(ring[i])
  /\ \A i \in 1 .. Len(rx) : IsGenuine(rx[i])
  /\ pc = "parse" => resp \in Reply /\ IsGenuine(resp)

(* No id is given twice in the calls of the model.                         *)
IdsLast == MAX_CALLS < IDS

(* The query in progress has the last id, and no request to another name   *)
(* has it.                                                                 *)
Numbered ==
  /\ dns_next_id = calls /\ query.id = dns_next_id /\ query.name \in Names
  /\ pc # "idle" => query.name = hostname
  /\ \A q \in sent : q.id <= dns_next_id /\ (q.id = query.id => q.name = query.name)

Peered ==
  /\ pc = "wait" => \A i \in 1 .. Len(rx) : rx[i].server = si
  /\ RepliesFromPeer

(* The try q comes before the one in progress, or is it and has begun.     *)
Behind(q) ==
  \/ q[1] < si
  \/ q[1] = si /\ q[2] < retry
  \/ q[1] = si /\ q[2] = retry /\ pc # "ask"

Covered ==
  /\ pc # "idle" => \A q \in Tries : Behind(q) => q \in tried \/ q[1] \in aliased
  /\ heard \subseteq {Try}
  /\ pc \notin {"wait", "parse"} => heard = {}
  /\ FailsOnlyUnheard

(* What holds whatever the ids, and what holds as long as they last.       *)
Steady == TypeOK /\ Genuine /\ Peered /\ Covered

IInv == Steady /\ Numbered /\ CachedIsTheNames

-----------------------------------------------------------------------------
(* The queues: a reply joins at the end, the first ones leave.             *)

LEMMA Joined ==
  ASSUME NEW R, NEW s \in Seq(R), NEW r \in R
  PROVE  /\ Append(s, r) \in Seq(R)
         /\ \A i \in 1 .. Len(Append(s, r)) :
              \/ i \in 1 .. Len(s) /\ Append(s, r)[i] = s[i]
              \/ Append(s, r)[i] = r
OBVIOUS

LEMMA Left ==
  ASSUME NEW R, NEW s \in Seq(R), s # << >>
  PROVE  /\ Head(s) \in R /\ Tail(s) \in Seq(R)
         /\ 1 \in 1 .. Len(s) /\ Head(s) = s[1]
         /\ \A i \in 1 .. Len(Tail(s)) : i + 1 \in 1 .. Len(s) /\ Tail(s)[i] = s[i + 1]
OBVIOUS

LEMMA Dropped ==
  ASSUME NEW R, NEW s \in Seq(R), NEW k \in 0 .. Len(s)
  PROVE  /\ SubSeq(s, k + 1, Len(s)) \in Seq(R)
         /\ \A i \in 1 .. Len(SubSeq(s, k + 1, Len(s))) :
              i + k \in 1 .. Len(s) /\ SubSeq(s, k + 1, Len(s))[i] = s[i + k]
<1>1. Len(SubSeq(s, k + 1, Len(s))) = Len(s) - k
  OBVIOUS
<1>2. SubSeq(s, k + 1, Len(s)) \in Seq(R)
  OBVIOUS
<1>3. \A i \in 1 .. Len(s) - k : SubSeq(s, k + 1, Len(s))[i] = s[k + i]
  OBVIOUS
<1> QED BY <1>1, <1>2, <1>3

(* What is known of an answer, by its kind.                                *)
LEMMA AnswerKinds ==
  ASSUME NEW s \in Servers, NEW n
  PROVE  Addr(s, n) \notin {None, Neg} /\ Addr(s, n)[1] = s /\ Addr(s, n)[2] = n
BY DnsAssumption DEF Addr, None, Neg, Servers

LEMMA NegIsNotNone == Neg # None
BY DEF Neg, None

-----------------------------------------------------------------------------
(* Types.                                                                  *)

LEMMA TypesInitially == Init => TypeOK
<1> SUFFICES ASSUME Init PROVE TypeOK
  OBVIOUS
<1>1. 0 \in Ids /\ 0 \in 0 .. MAX_CALLS /\ 1 \in Servers /\ 0 \in 0 .. DNS_RETRIES - 1
  BY DnsAssumption DEF Servers, Ids
<1>2. query \in Query /\ hostname \in Names /\ current_name \in Asked
  BY <1>1 DEF Init, Query, Asked
<1>3. rx \in Seq(Reply) /\ ring \in Seq(Reply)
  BY DEF Init
<1>4. cache \in [Names -> Answers] /\ result \in Answers
  BY DEF Init, Answers
<1> QED BY <1>1, <1>2, <1>3, <1>4 DEF Init, TypeOK

(* What a server says is a reply.                                          *)
LEMMA AnswerIsReply ==
  ASSUME TypeOK, NEW q \in sent
  PROVE  [id |-> q.id, name |-> q.name, server |-> q.server,
          kind |-> Says(q.server, q.name)] \in Reply
<1>1. q.id \in Ids /\ q.name \in Asked /\ q.server \in Servers
  BY DEF TypeOK
<1>2. Says(q.server, q.name) \in Kind
  BY <1>1, DnsAssumption DEF TypeOK, Says, Asked, Kind
<1> QED BY <1>1, <1>2 DEF Reply

LEMMA NextId ==
  ASSUME NEW i \in Ids
  PROVE  /\ (i + 1) % IDS \in Ids
         /\ i + 1 < IDS => (i + 1) % IDS = i + 1
BY DnsAssumption DEF Ids

LEMMA TypesKept == TypeOK /\ [Next]_vars => TypeOK'
<1> SUFFICES ASSUME TypeOK, [Next]_vars PROVE TypeOK'
  OBVIOUS
<1> USE DEF TypeOK
<1>0. DNS_RETRIES \in Nat /\ N_SERVERS \in Nat /\ MAX_CALLS \in Nat
  BY DnsAssumption
<1>1. ASSUME NEW n \in Names, Cached(n) PROVE TypeOK'
  BY <1>1 DEF Cached
<1>2. ASSUME NEW n \in Names, Resolve(n) PROVE TypeOK'
  <2>1. /\ dns_next_id' \in Ids /\ calls' \in 0 .. MAX_CALLS
        /\ 1 \in Servers /\ 0 \in 0 .. DNS_RETRIES - 1
    <3>1. dns_next_id' \in Ids
      BY <1>2, NextId DEF Resolve
    <3> QED BY <1>0, <1>2, <3>1, DnsAssumption DEF Resolve, Servers
  <2>2. query' \in Query /\ hostname' \in Names /\ current_name' \in Asked
    BY <1>2, <2>1 DEF Resolve, Query, Asked
  <2>3. result' \in Answers /\ pc' \in {"idle", "ask"}
    BY <1>2 DEF Resolve, Answers
  <2> QED BY <1>2, <2>1, <2>2, <2>3 DEF Resolve
<1>3. ASSUME NEW n \in Names, Expire(n) PROVE TypeOK'
  BY <1>3 DEF Expire, Answers, call
<1>4. CASE Ask
  <2>1. Try \in Tries
    BY DEF Try, Tries
  <2>2. [id |-> query.id, name |-> query.name, server |-> si]
          \in [id : Ids, name : Asked, server : Servers]
    BY DEF Query
  <2>3. rx' \in Seq(Reply)
    BY <1>4 DEF Ask, Cleared
  <2> QED BY <1>4, <2>1, <2>2, <2>3 DEF Ask
<1>5. CASE AskFails
  BY <1>5 DEF AskFails, Try, Tries
<1>6. CASE Recv
  <2>1. Head(rx) \in Reply /\ Tail(rx) \in Seq(Reply)
    BY <1>6, Left DEF Recv
  <2> QED BY <1>6, <2>1 DEF Recv, call
<1>7. CASE Timeout
  BY <1>7 DEF Timeout, call
<1>8. CASE NextTry
  <2>1. CASE ~LastTry(retry) /\ retry' = retry + 1 /\ pc' = "ask" /\ UNCHANGED <<si, result>>
    <3>1. retry' \in 0 .. DNS_RETRIES - 1
      BY <1>0, <2>1 DEF LastTry
    <3> QED BY <1>8, <2>1, <3>1 DEF NextTry
  <2>2. CASE ~LastServer(si) /\ si' = ServerAfter(si) /\ retry' = 0 /\ pc' = "ask"
             /\ UNCHANGED result
    <3>1. si' \in Servers /\ retry' \in 0 .. DNS_RETRIES - 1
      BY <1>0, <2>2, DnsAssumption DEF LastServer, ServerAfter, Servers
    <3> QED BY <1>8, <2>2, <3>1 DEF NextTry
  <2>3. CASE result' = None /\ pc' = "idle" /\ UNCHANGED <<si, retry>>
    BY <1>8, <2>3 DEF NextTry, Answers
  <2> QED BY <1>8, <2>1, <2>2, <2>3 DEF NextTry
<1>9. CASE ParseAddress
  <2>1. Addr(resp.server, resp.name) \in Answers
    <3>1. resp \in Reply
      BY <1>9 DEF ParseAddress, NoReply
    <3> QED BY <3>1 DEF Reply, Answers
  <2> QED BY <1>9, <2>1 DEF ParseAddress, call
<1>10. CASE ParseNegative
  BY <1>10 DEF ParseNegative, call, Answers
<1>11. CASE ParseAlias
  <2>1. DNS_RETRIES - 1 \in 0 .. DNS_RETRIES - 1
    BY DnsAssumption
  <2> QED BY <1>11, <2>1 DEF ParseAlias, Asked
<1>12. CASE ParseUseless
  BY <1>12 DEF ParseUseless, call
<1>13. ASSUME NEW k \in 0 .. Len(ring), ParseTruncated(k) PROVE TypeOK'
  <2>1. ring' \in Seq(Reply)
    BY <1>13, Dropped DEF ParseTruncated
  <2>2. Addr(si, query.name) \in Answers
    BY DEF Query, Answers
  <2>3. cache' \in [Names -> Answers] /\ result' \in Answers /\ pc' \in {"idle", "next"}
    BY <1>13, <2>2 DEF ParseTruncated
  <2> QED BY <1>13, <2>1, <2>3 DEF ParseTruncated, call
<1>14. ASSUME NEW q \in sent, Answer(q) PROVE TypeOK'
  <2>1. ring' \in Seq(Reply)
    BY <1>14, AnswerIsReply, Joined DEF Answer
  <2> QED BY <1>14, <2>1 DEF Answer, call
<1>15. CASE Deliver
  <2>1. Head(ring) \in Reply /\ ring' \in Seq(Reply)
    BY <1>15, Left DEF Deliver
  <2>2. rx' \in Seq(Reply)
    BY <1>15, <2>1, Joined DEF Deliver
  <2>3. heard' \subseteq Tries
    BY <1>15 DEF Deliver, Try, Tries
  <2> QED BY <1>15, <2>1, <2>2, <2>3 DEF Deliver, call
<1>16. CASE ArpWait
  <2>1. ring' \in Seq(Reply)
    BY <1>16, Left DEF ArpWait
  <2> QED BY <1>16, <2>1 DEF ArpWait, call, FromPeer, Accepts
<1>17. CASE UNCHANGED vars
  BY <1>17 DEF vars
<1> QED BY <1>1, <1>2, <1>3, <1>4, <1>5, <1>6, <1>7, <1>8, <1>9, <1>10, <1>11, <1>12, <1>13,
           <1>14, <1>15, <1>16, <1>17 DEF Next, Work

-----------------------------------------------------------------------------
(* Replies are genuine.                                                    *)

(* A reply that was on its way is still genuine wherever it is now.        *)
LEMMA GenuineKept ==
  ASSUME Genuine, zone' = zone, sent \subseteq sent',
         \A i \in 1 .. Len(ring') : \E j \in 1 .. Len(ring) : ring'[i] = ring[j],
         \A i \in 1 .. Len(rx') :
           \/ \E j \in 1 .. Len(rx) : rx'[i] = rx[j]
           \/ \E j \in 1 .. Len(ring) : rx'[i] = ring[j],
         pc' = "parse" => \/ pc = "parse" /\ resp' = resp
                          \/ resp' \in Reply /\ \E j \in 1 .. Len(rx) : resp' = rx[j]
  PROVE  Genuine'
<1>1. ASSUME NEW i \in 1 .. Len(ring') PROVE IsGenuine(ring[i])'
  <2>1. PICK j \in 1 .. Len(ring) : ring'[i] = ring[j]
    OBVIOUS
  <2>2. IsGenuine(ring[j])
    BY DEF Genuine
  <2> QED BY <2>1, <2>2 DEF IsGenuine, Says
<1>2. ASSUME NEW i \in 1 .. Len(rx') PROVE IsGenuine(rx[i])'
  <2>1. CASE \E j \in 1 .. Len(rx) : rx'[i] = rx[j]
    BY <2>1 DEF Genuine, IsGenuine, Says
  <2>2. CASE \E j \in 1 .. Len(ring) : rx'[i] = ring[j]
    BY <2>2 DEF Genuine, IsGenuine, Says
  <2> QED BY <2>1, <2>2
<1>3. ASSUME pc' = "parse" PROVE resp' \in Reply /\ IsGenuine(resp)'
  <2>1. CASE pc = "parse" /\ resp' = resp
    BY <2>1 DEF Genuine, IsGenuine, Says
  <2>2. CASE resp' \in Reply /\ \E j \in 1 .. Len(rx) : resp' = rx[j]
    BY <2>2 DEF Genuine, IsGenuine, Says
  <2> QED BY <1>3, <2>1, <2>2
<1> QED BY <1>1, <1>2, <1>3 DEF Genuine

LEMMA GenuineInitially == Init => Genuine
BY DEF Init, Genuine

LEMMA GenuineStays == TypeOK /\ Genuine /\ [Next]_vars => Genuine'
<1> SUFFICES ASSUME TypeOK, Genuine, [Next]_vars PROVE Genuine'
  OBVIOUS
<1>0. /\ rx \in Seq(Reply) /\ ring \in Seq(Reply)
      /\ \A i \in 1 .. Len(ring) : \E j \in 1 .. Len(ring) : ring[i] = ring[j]
      /\ \A i \in 1 .. Len(rx) : \E j \in 1 .. Len(rx) : rx[i] = rx[j]
  BY DEF TypeOK
(* Most steps move no reply.                                               *)
<1>1. ASSUME UNCHANGED <<ring, rx, zone>>, sent \subseteq sent', pc' # "parse"
      PROVE  Genuine'
  BY <1>0, <1>1, GenuineKept
<1>2. ASSUME UNCHANGED <<ring, rx, zone, sent, pc, resp>> PROVE Genuine'
  BY <1>0, <1>2, GenuineKept
<1>3. ASSUME NEW n \in Names, Cached(n) \/ Resolve(n) \/ Expire(n) PROVE Genuine'
  <2>1. CASE Cached(n) \/ Expire(n)
    BY <1>2, <2>1 DEF Cached, Expire
  <2>2. CASE Resolve(n)
    <3>1. UNCHANGED <<ring, rx, zone, sent>> /\ pc' # "parse"
      BY <2>2 DEF Resolve
    <3> QED BY <1>1, <3>1
  <2> QED BY <1>3, <2>1, <2>2
<1>4. CASE Ask
  <2>1. /\ rx' = << >> /\ ring' = ring /\ zone' = zone /\ sent \subseteq sent'
        /\ pc' = "wait"
    BY <1>4 DEF Ask, Cleared
  <2> QED BY <1>0, <2>1, GenuineKept
<1>5. CASE AskFails \/ Timeout \/ NextTry
  BY <1>1, <1>5 DEF AskFails, Timeout, NextTry
<1>6. CASE ParseAddress \/ ParseNegative \/ ParseAlias \/ ParseUseless
  BY <1>1, <1>6 DEF ParseAddress, ParseNegative, ParseAlias, ParseUseless
<1>7. CASE Recv
  <2>1. /\ rx # << >> /\ resp' = Head(rx) /\ rx' = Tail(rx)
        /\ UNCHANGED <<ring, zone, sent>>
    BY <1>7 DEF Recv
  <2>2. /\ resp' \in Reply /\ \E j \in 1 .. Len(rx) : resp' = rx[j]
        /\ \A i \in 1 .. Len(rx') : \E j \in 1 .. Len(rx) : rx'[i] = rx[j]
    BY <1>0, <2>1, Left
  <2> QED BY <1>0, <2>1, <2>2, GenuineKept
<1>8. ASSUME NEW k \in 0 .. Len(ring), ParseTruncated(k) PROVE Genuine'
  <2>1. /\ ring' = SubSeq(ring, k + 1, Len(ring)) /\ pc' # "parse"
        /\ UNCHANGED <<rx, zone, sent>>
    BY <1>8 DEF ParseTruncated
  <2>2. \A i \in 1 .. Len(ring') : i + k \in 1 .. Len(ring) /\ ring'[i] = ring[i + k]
    <3>1. \A i \in 1 .. Len(SubSeq(ring, k + 1, Len(ring))) :
            /\ i + k \in 1 .. Len(ring)
            /\ SubSeq(ring, k + 1, Len(ring))[i] = ring[i + k]
      BY <1>0, Dropped, Zenon
    <3> QED BY <2>1, <3>1, Zenon
  <2> QED BY <1>0, <2>1, <2>2, GenuineKept
<1>9. ASSUME NEW q \in sent, Answer(q) PROVE Genuine'
  <2> DEFINE r == [id |-> q.id, name |-> q.name, server |-> q.server,
                   kind |-> Says(q.server, q.name)]
  <2>1. ring' = Append(ring, r) /\ UNCHANGED <<rx, zone, sent, pc, resp>>
    BY <1>9 DEF Answer
  <2>2. /\ r.kind = Says(r.server, r.name)
        /\ [id |-> r.id, name |-> r.name, server |-> r.server] = q
    BY DEF TypeOK
  <2> HIDE DEF r
  <2>3. ASSUME NEW i \in 1 .. Len(ring') PROVE IsGenuine(ring[i])'
    <3>1. r \in Reply
      BY AnswerIsReply DEF r
    <3>2. ring'[i] = r \/ (i \in 1 .. Len(ring) /\ ring'[i] = ring[i])
      BY <1>0, <2>1, <3>1, Joined
    <3> QED BY <2>1, <2>2, <3>2 DEF Genuine, IsGenuine, Says
  <2> QED BY <2>1, <2>3 DEF Genuine, IsGenuine, Says
<1>10. CASE Deliver
  <2>1. /\ ring # << >> /\ ring' = Tail(ring)
        /\ rx' = rx \/ rx' = Append(rx, Head(ring))
        /\ UNCHANGED <<zone, sent, pc, resp>>
    BY <1>10 DEF Deliver
  <2>2. /\ \A i \in 1 .. Len(ring') : \E j \in 1 .. Len(ring) : ring'[i] = ring[j]
        /\ Head(ring) \in Reply /\ \E j \in 1 .. Len(ring) : Head(ring) = ring[j]
    BY <1>0, <2>1, Left
  <2>3. ASSUME NEW i \in 1 .. Len(rx')
        PROVE  \/ \E j \in 1 .. Len(rx) : rx'[i] = rx[j]
               \/ \E j \in 1 .. Len(ring) : rx'[i] = ring[j]
    <3>1. CASE rx' = rx
      BY <1>0, <3>1
    <3>2. CASE rx' = Append(rx, Head(ring))
      <4>1. (i \in 1 .. Len(rx) /\ rx'[i] = rx[i]) \/ rx'[i] = Head(ring)
        BY <1>0, <2>2, <3>2, Joined
      <4> QED BY <2>2, <4>1
    <3> QED BY <2>1, <3>1, <3>2
  <2> QED BY <2>1, <2>2, <2>3, GenuineKept
<1>11. CASE ArpWait
  <2>1. ring # << >> /\ ring' = Tail(ring) /\ UNCHANGED <<rx, zone, sent, pc, resp>>
    BY <1>11 DEF ArpWait
  <2>2. \A i \in 1 .. Len(ring') : \E j \in 1 .. Len(ring) : ring'[i] = ring[j]
    BY <1>0, <2>1, Left
  <2> QED BY <1>0, <2>1, <2>2, GenuineKept
<1>12. CASE UNCHANGED vars
  BY <1>2, <1>12 DEF vars
<1> QED BY <1>3, <1>4, <1>5, <1>6, <1>7, <1>8, <1>9, <1>10, <1>11, <1>12 DEF Next, Work

-----------------------------------------------------------------------------
(* Requests are numbered.                                                  *)

LEMMA NumberedInitially == Init => Numbered
BY DEF Init, Numbered

LEMMA NumberedStays ==
  ASSUME IdsLast
  PROVE  TypeOK /\ Numbered /\ [Next]_vars => Numbered'
<1> SUFFICES ASSUME TypeOK, Numbered, [Next]_vars PROVE Numbered'
  OBVIOUS
<1>0. dns_next_id \in Int /\ calls \in Int /\ \A q \in sent : q.id \in Int
  BY DnsAssumption DEF TypeOK, Ids
(* Most steps ask nothing.                                                 *)
<1>1. ASSUME UNCHANGED <<hostname, query, dns_next_id, sent, calls>>,
             pc' = "idle" \/ pc # "idle"
      PROVE  Numbered'
  BY <1>1 DEF Numbered
<1>2. ASSUME NEW n \in Names, Cached(n) \/ Expire(n) PROVE Numbered'
  BY <1>2 DEF Cached, Expire, call, Numbered
<1>3. ASSUME NEW n \in Names, Resolve(n) PROVE Numbered'
  <2>1. /\ calls + 1 < IDS /\ dns_next_id = calls /\ dns_next_id \in Ids
        /\ calls' = calls + 1
    BY <1>0, <1>3, DnsAssumption DEF Resolve, Numbered, IdsLast, TypeOK
  <2>2. dns_next_id' = calls + 1
    BY <1>3, <2>1, NextId DEF Resolve
  <2> QED BY <1>0, <1>3, <2>1, <2>2 DEF Resolve, Numbered
<1>4. CASE Ask
  BY <1>0, <1>4 DEF Ask, Numbered
<1>5. CASE AskFails \/ Timeout \/ NextTry \/ Recv \/ ParseAddress \/ ParseNegative
           \/ ParseAlias \/ ParseUseless
  BY <1>1, <1>5 DEF AskFails, Timeout, NextTry, Recv, ParseAddress, ParseNegative,
     ParseAlias, ParseUseless, call
<1>6. ASSUME NEW k \in 0 .. Len(ring), ParseTruncated(k) PROVE Numbered'
  BY <1>1, <1>6 DEF ParseTruncated, call
<1>7. ASSUME \/ \E q \in sent : Answer(q)
             \/ Deliver \/ ArpWait \/ UNCHANGED vars
      PROVE  Numbered'
  BY <1>1, <1>7 DEF Answer, Deliver, ArpWait, vars, call
<1> QED BY <1>2, <1>3, <1>4, <1>5, <1>6, <1>7 DEF Next, Work

-----------------------------------------------------------------------------
(* A socket holds the replies of the server it is connected to.            *)

LEMMA PeeredInitially == Init => Peered
BY DEF Init, Peered, RepliesFromPeer

LEMMA PeeredStays == TypeOK /\ Peered /\ [Next]_vars => Peered'
<1> SUFFICES ASSUME TypeOK, Peered, [Next]_vars PROVE Peered'
  OBVIOUS
<1> USE DEF Peered, RepliesFromPeer
<1>0. rx \in Seq(Reply) /\ ring \in Seq(Reply)
  BY DEF TypeOK
<1>1. ASSUME pc' \notin {"wait", "parse"} PROVE Peered'
  BY <1>1
<1>2. ASSUME UNCHANGED <<pc, rx, resp, si>> PROVE Peered'
  BY <1>2
<1>3. ASSUME NEW n \in Names, Cached(n) \/ Resolve(n) \/ Expire(n) PROVE Peered'
  BY <1>2, <1>3 DEF Cached, Resolve, Expire, call
<1>4. CASE Ask
  BY <1>4 DEF Ask, Cleared
<1>5. CASE Recv
  <2>1. 1 \in 1 .. Len(rx) /\ Head(rx) = rx[1]
    BY <1>0, <1>5, Left DEF Recv
  <2> QED BY <1>5, <2>1 DEF Recv, call
<1>6. CASE AskFails \/ Timeout \/ NextTry \/ ParseAddress \/ ParseNegative
           \/ ParseAlias \/ ParseUseless
  BY <1>1, <1>6 DEF AskFails, Timeout, NextTry, ParseAddress, ParseNegative,
     ParseAlias, ParseUseless
<1>7. ASSUME NEW k \in 0 .. Len(ring), ParseTruncated(k) PROVE Peered'
  BY <1>1, <1>7 DEF ParseTruncated
<1>8. CASE Deliver
  <2>1. Head(ring) \in Reply
    BY <1>0, <1>8, Left DEF Deliver
  <2>2. \/ rx' = rx
        \/ /\ rx' = Append(rx, Head(ring)) /\ Head(ring).server = si
    BY <1>8 DEF Deliver, FromPeer
  <2>3. ASSUME pc = "wait", NEW i \in 1 .. Len(rx') PROVE rx'[i].server = si
    <3>1. CASE rx' = rx
      BY <2>3, <3>1
    <3>2. CASE rx' = Append(rx, Head(ring)) /\ Head(ring).server = si
      <4>1. i \in 1 .. Len(Append(rx, Head(ring)))
        BY <2>3, <3>2
      <4>2. rx'[i] = Head(ring) \/ (i \in 1 .. Len(rx) /\ rx'[i] = rx[i])
        BY <1>0, <2>1, <3>2, <4>1, Joined
      <4> QED BY <2>3, <3>2, <4>2
    <3> QED BY <2>2, <3>1, <3>2
  <2> QED BY <1>8, <2>3 DEF Deliver, call
<1>9. ASSUME (\E q \in sent : Answer(q)) \/ ArpWait \/ UNCHANGED vars PROVE Peered'
  BY <1>2, <1>9 DEF Answer, ArpWait, vars, call
<1> QED BY <1>3, <1>4, <1>5, <1>6, <1>7, <1>8, <1>9 DEF Next, Work

-----------------------------------------------------------------------------
(* A call has the tries before its present one behind it.                  *)

LEMMA CoveredInitially == Init => Covered
BY DEF Init, Covered, FailsOnlyUnheard

LEMMA CoveredStays == TypeOK /\ Covered /\ [Next]_vars => Covered'
<1> SUFFICES ASSUME TypeOK, Covered, [Next]_vars PROVE Covered'
  OBVIOUS
<1>0. /\ N_SERVERS \in Nat /\ DNS_RETRIES \in Nat
      /\ si \in Servers /\ retry \in 0 .. DNS_RETRIES - 1 /\ tried \subseteq Tries
      /\ result \in Answers
      /\ \A q \in Tries : q[1] \in 1 .. N_SERVERS /\ q[2] \in 0 .. DNS_RETRIES - 1
                          /\ q = <<q[1], q[2]>>
  BY DnsAssumption DEF TypeOK, Tries, Servers
<1>1. si \in Int /\ retry \in Int /\ \A q \in Tries : q[1] \in Int /\ q[2] \in Int
  BY <1>0 DEF Servers
(* The call goes on with the same try.                                     *)
<1>2. ASSUME pc \notin {"idle", "ask"}, pc' \notin {"idle", "ask"},
             UNCHANGED <<si, retry, tried, aliased>>, heard' \subseteq heard,
             pc' = "next" => heard' = {}, pc' \in {"wait", "parse", "next"}
      PROVE  Covered'
  BY <1>2 DEF Covered, FailsOnlyUnheard, Behind, Try
(* The call returns an answer.                                             *)
<1>3. ASSUME pc' = "idle", result' # None, heard' = {} PROVE Covered'
  BY <1>3 DEF Covered, FailsOnlyUnheard
(* Nothing happens to the call.                                            *)
<1>4. ASSUME UNCHANGED <<pc, si, retry, tried, aliased, heard, result, calls, hostname>>
      PROVE  Covered'
  BY <1>4 DEF Covered, FailsOnlyUnheard, Behind, Try
<1>5. ASSUME NEW n \in Names, Cached(n) \/ Resolve(n) \/ Expire(n) PROVE Covered'
  <2>1. CASE Cached(n)
    BY <1>3, <2>1 DEF Cached, Covered
  <2>2. CASE Resolve(n)
    <3>1. si' = 1 /\ retry' = 0 /\ heard' = {}
      BY <2>2 DEF Resolve
    <3>2. CASE pc' = "ask"
      <4>1. \A q \in Tries : ~Behind(q)'
        BY <1>0, <3>1, <3>2 DEF Behind
      <4> QED BY <3>1, <3>2, <4>1 DEF Covered, FailsOnlyUnheard
    <3>3. CASE pc' = "idle" /\ hostname' \in Long
      BY <3>1, <3>3 DEF Covered, FailsOnlyUnheard
    <3> QED BY <2>2, <3>2, <3>3 DEF Resolve
  <2>3. CASE Expire(n)
    BY <1>4, <2>3 DEF Expire, call
  <2> QED BY <1>5, <2>1, <2>2, <2>3
<1>6. CASE Ask \/ AskFails
  <2>1. /\ pc = "ask" /\ pc' \notin {"idle", "ask"}
        /\ tried' = tried \cup {<<si, retry>>}
        /\ UNCHANGED <<si, retry, aliased, heard>>
    BY <1>6 DEF Ask, AskFails, Try
  <2>2. \A q \in Tries : Behind(q)' => Behind(q) \/ q = <<si, retry>>
    BY <1>0, <2>1 DEF Behind
  <2> QED BY <2>1, <2>2 DEF Covered, FailsOnlyUnheard
<1>7. CASE Recv \/ Timeout \/ ParseUseless
  <2>1. CASE Recv
    BY <1>2, <2>1 DEF Recv, call
  <2>2. CASE Timeout
    BY <1>2, <2>2 DEF Timeout, call, Covered
  <2>3. CASE ParseUseless
    <3>1. ~Usable(resp)
      BY <2>3 DEF ParseUseless, Accepts, Usable
    <3>2. heard' = {}
      BY <2>3, <3>1 DEF ParseUseless, Covered
    <3> QED BY <1>2, <2>3, <3>2 DEF ParseUseless, call
  <2> QED BY <1>7, <2>1, <2>2, <2>3
<1>8. CASE ParseAddress
  <2>1. resp.server \in Servers
    BY <1>8 DEF TypeOK, ParseAddress, NoReply, Reply
  <2>2. hostname \in Names /\ cache \in [Names -> Answers]
    BY DEF TypeOK
  <2>3. pc' = "idle" /\ result' = Addr(resp.server, resp.name) /\ heard' = {}
    BY <1>8, <2>2 DEF ParseAddress, Covered
  <2> QED BY <1>3, <2>1, <2>3, AnswerKinds
<1>9. CASE ParseNegative
  BY <1>3, <1>9, NegIsNotNone DEF ParseNegative, Covered
<1>10. CASE ParseAlias
  <2>1. /\ pc = "parse" /\ pc' = "next" /\ si' = si /\ heard' = {} /\ tried' = tried
        /\ aliased' = aliased \cup {si}
    BY <1>10 DEF ParseAlias, Covered
  <2>2. \A q \in Tries : Behind(q)' => Behind(q) \/ q[1] = si
    BY <2>1 DEF Behind
  <2> QED BY <2>1, <2>2 DEF Covered, FailsOnlyUnheard
<1>11. ASSUME NEW k \in 0 .. Len(ring), ParseTruncated(k) PROVE Covered'
  <2>1. hostname \in Names /\ cache \in [Names -> Answers]
    BY DEF TypeOK
  <2>4. heard' = {}
    BY <1>11 DEF ParseTruncated, Covered
  <2>2. CASE result' = cache'[hostname] /\ pc' = "idle"
             /\ cache' = [cache EXCEPT ![hostname] = Addr(si, query.name)]
    BY <1>0, <1>3, <2>1, <2>2, <2>4, AnswerKinds
  <2>3. CASE pc' = "next"
    BY <1>2, <1>11, <2>3, <2>4 DEF ParseTruncated, call
  <2> QED BY <1>11, <2>2, <2>3 DEF ParseTruncated
<1>12. CASE NextTry
  <2>1. pc = "next" /\ UNCHANGED <<tried, aliased, heard>> /\ heard = {}
    BY <1>12 DEF NextTry, Covered
  <2>2. CASE ~LastTry(retry) /\ retry' = retry + 1 /\ pc' = "ask" /\ UNCHANGED si
    <3>1. \A q \in Tries : Behind(q)' => Behind(q)
      BY <1>1, <2>1, <2>2 DEF Behind
    <3> QED BY <2>1, <2>2, <3>1 DEF Covered, FailsOnlyUnheard
  <2>3. CASE LastTry(retry) /\ si' = ServerAfter(si) /\ retry' = 0 /\ pc' = "ask"
    <3>1. \A q \in Tries : Behind(q)' => Behind(q)
      BY <1>0, <1>1, <2>1, <2>3 DEF Behind, LastTry, ServerAfter
    <3> QED BY <2>1, <2>3, <3>1 DEF Covered, FailsOnlyUnheard
  <2>4. CASE LastTry(retry) /\ LastServer(si) /\ pc' = "idle"
    <3>1. \A q \in Tries : Behind(q)
      BY <1>0, <1>1, <2>1, <2>4 DEF Behind, LastTry, LastServer
    <3>2. ASSUME NEW s \in Servers, NEW r \in 0 .. DNS_RETRIES - 1
          PROVE  s \in aliased \/ <<s, r>> \in tried
      <4>1. <<s, r>> \in Tries /\ <<s, r>>[1] = s
        BY DEF Tries
      <4> QED BY <2>1, <3>1, <4>1 DEF Covered
    <3> QED BY <2>1, <2>4, <3>2 DEF Covered, FailsOnlyUnheard
  <2> QED BY <1>12, <2>2, <2>3, <2>4 DEF NextTry
<1>13. ASSUME (\E q \in sent : Answer(q)) \/ ArpWait \/ UNCHANGED vars
       PROVE  Covered'
  BY <1>4, <1>13 DEF Answer, ArpWait, vars, call
<1>14. CASE Deliver
  <2>1. /\ UNCHANGED <<pc, si, retry, tried, aliased, result, calls, hostname>>
        /\ heard' \subseteq heard \cup {Try}
        /\ pc # "wait" => heard' = heard
    BY <1>14 DEF Deliver, call
  <2>2. Try' = Try /\ \A q \in Tries : Behind(q)' <=> Behind(q)
    BY <2>1 DEF Try, Behind
  <2> QED BY <2>1, <2>2 DEF Covered, FailsOnlyUnheard
<1> QED BY <1>5, <1>6, <1>7, <1>8, <1>9, <1>10, <1>11, <1>12, <1>13, <1>14 DEF Next, Work

-----------------------------------------------------------------------------
(* What is cached is what was asked for.                                   *)

LEMMA CachedInitially == Init => CachedIsTheNames
BY NegIsNotNone DEF Init, CachedIsTheNames

LEMMA CachedStays == IInv /\ [Next]_vars => CachedIsTheNames'
<1> SUFFICES ASSUME IInv, [Next]_vars PROVE CachedIsTheNames'
  OBVIOUS
<1> USE DEF IInv, Steady
<1>0. /\ cache \in [Names -> Answers] /\ hostname \in Names /\ hostname # Target
      /\ si \in Servers /\ zone' = zone
  <2>1. zone' = zone
    BY DEF Next, Work, Cached, Resolve, Expire, Ask, AskFails, Recv, Timeout, NextTry,
       ParseAddress, ParseNegative, ParseAlias, ParseUseless, ParseTruncated, Answer,
       Deliver, ArpWait, vars
  <2> QED BY <2>1, DnsAssumption DEF TypeOK
(* A reply that is accepted is about the name that was asked for.          *)
<1>1. ASSUME pc = "parse", Accepts(resp)
      PROVE  /\ resp.name = hostname /\ query.name = hostname
             /\ resp.server = si
             /\ zone[<<si, hostname>>] = resp.kind
  <2>1. /\ resp \in Reply /\ resp.server = si /\ query.name = hostname
        /\ resp.kind = Says(resp.server, resp.name)
        /\ [id |-> resp.id, name |-> resp.name, server |-> resp.server] \in sent
    BY <1>1 DEF Genuine, IsGenuine, Peered, RepliesFromPeer, Numbered
  <2>2. resp.id = query.id
    BY <1>1 DEF Accepts
  <2>3. resp.name = query.name
    BY <2>1, <2>2 DEF Numbered
  <2> QED BY <1>0, <2>1, <2>3 DEF Says
<1>2. CASE cache' = cache
  BY <1>0, <1>2 DEF CachedIsTheNames
(* The server in question has an address for the name.                     *)
<1>3. ASSUME cache' = [cache EXCEPT ![hostname] = Addr(si, hostname)],
             zone[<<si, hostname>>] \in {"addr", "tc"}
      PROVE  CachedIsTheNames'
  <2>1. ASSUME NEW n \in Names \ {hostname}
        PROVE  cache'[n] = cache[n]
    BY <1>0, <1>3
  <2>2. cache'[hostname] = Addr(si, hostname)
    BY <1>0, <1>3
  <2>3. Addr(si, hostname) # Neg /\ Addr(si, hostname)[1] = si
        /\ Addr(si, hostname)[2] = hostname
    BY <1>0, AnswerKinds
  <2> QED BY <1>0, <1>3, <2>1, <2>2, <2>3 DEF CachedIsTheNames
<1>4. ASSUME NEW n \in Names, Expire(n) PROVE CachedIsTheNames'
  BY <1>0, <1>4, NegIsNotNone DEF Expire, CachedIsTheNames
<1>5. CASE ParseAddress
  <2>1. pc = "parse" /\ Accepts(resp) /\ resp.kind = "addr"
        /\ cache' = [cache EXCEPT ![hostname] = Addr(resp.server, resp.name)]
    BY <1>5 DEF ParseAddress
  <2> QED BY <1>1, <1>3, <2>1
<1>6. CASE ParseNegative
  <2>1. /\ pc = "parse" /\ Accepts(resp) /\ resp.kind = "neg"
        /\ cache' = [cache EXCEPT ![hostname] = Neg]
    BY <1>6 DEF ParseNegative
  <2>2. zone[<<si, hostname>>] = "neg"
    BY <1>1, <2>1
  <2>3. cache'[hostname] = Neg /\ \A n \in Names \ {hostname} : cache'[n] = cache[n]
    BY <1>0, <2>1
  <2> QED BY <1>0, <2>2, <2>3 DEF CachedIsTheNames
<1>7. ASSUME NEW k \in 0 .. Len(ring), ParseTruncated(k) PROVE CachedIsTheNames'
  <2>1. /\ pc = "parse" /\ Accepts(resp) /\ resp.kind = "tc"
        /\ \/ cache' = cache
           \/ cache' = [cache EXCEPT ![hostname] = Addr(si, query.name)]
    BY <1>7 DEF ParseTruncated
  <2> QED BY <1>1, <1>2, <1>3, <2>1
<1> QED BY <1>2, <1>4, <1>5, <1>6, <1>7 DEF Next, Work, Cached, Resolve, Ask, AskFails, Recv,
        Timeout, NextTry, ParseAlias, ParseUseless, Answer, Deliver, ArpWait, vars, call

-----------------------------------------------------------------------------
(* The loops, the sockets and the card: the part of the invariant that     *)
(* holds however ids repeat, whatever the servers say and whoever takes    *)
(* the frames from the card.                                               *)
THEOREM SteadyInductive == Spec => []Steady
<1>1. Init => Steady
  BY TypesInitially, GenuineInitially, PeeredInitially, CoveredInitially DEF Steady
<1>2. Steady /\ [Next]_vars => Steady'
  BY TypesKept, GenuineStays, PeeredStays, CoveredStays DEF Steady
<1> QED BY <1>1, <1>2, PTL DEF Spec

(* And the whole of it, as long as the ids do not come round.              *)
THEOREM Inductive ==
  ASSUME IdsLast
  PROVE  Spec => []IInv
<1>1. Init => Numbered /\ CachedIsTheNames
  BY NumberedInitially, CachedInitially
<1>2. IInv /\ [Next]_vars => Numbered' /\ CachedIsTheNames'
  BY NumberedStays, CachedStays DEF IInv, Steady
<1>3. IInv <=> Steady /\ Numbered /\ CachedIsTheNames
  BY DEF IInv
<1> QED BY <1>1, <1>2, <1>3, SteadyInductive, PTL DEF Spec

(* Every variable keeps its type, the ids when they come round as well.    *)
THEOREM TypeCorrect == Spec => []TypeOK
<1>1. Steady => TypeOK
  BY DEF Steady
<1> QED BY <1>1, SteadyInductive, PTL

(* dns_resolve and dns_cache_store: as long as no id is given twice, what  *)
(* is cached for a name is what some server says of that very name, never  *)
(* the answer to another question that came late, twice or out of order.   *)
THEOREM CacheIsTrue ==
  ASSUME IdsLast
  PROVE  Spec => []CachedIsTheNames
<1>1. IInv => CachedIsTheNames
  BY DEF IInv
<1> QED BY <1>1, Inductive, PTL

(* udp_socket_create and udp_recv_packet: a reply is looked at only in a   *)
(* try with the server that sent it.                                       *)
THEOREM RepliesAreOfThePeer == Spec => []RepliesFromPeer
<1>1. Steady => RepliesFromPeer
  BY DEF Steady, Peered
<1> QED BY <1>1, SteadyInductive, PTL

(* The loops of dns_resolve: a call for a name that can be encoded returns *)
(* no answer only after DNS_RETRIES tries with each server that named no   *)
(* alias, none of which was left with a usable reply in its socket unless  *)
(* it came as the time ran out or after a useless one.                     *)
THEOREM OnlyUnheardFail == Spec => []FailsOnlyUnheard
<1>1. Steady => FailsOnlyUnheard
  BY DEF Steady, Covered
<1> QED BY <1>1, SteadyInductive, PTL

=============================================================================
