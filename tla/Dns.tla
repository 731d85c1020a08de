-------------------------------- MODULE Dns --------------------------------
(***************************************************************************)
(* dns_resolve of src/kernel/net.c, with the UDP socket each of its tries  *)
(* opens (src/kernel/udp.c) and the two threads that take frames from the  *)
(* card: netd, which passes a reply on to the socket, and any thread that  *)
(* sends to a neighbour it has no address of, whose arp_wait               *)
(* (src/kernel/ip.c) empties the card and keeps the ARP replies only.  One *)
(* thread resolves names.  The servers are external: a request may be      *)
(* answered never, late, or more than once, and replies overtake others.   *)
(*                                                                         *)
(* The cache is a function from names; an entry may go at any time, as it  *)
(* expires, is evicted or flushed.  Address literals and blocked names,    *)
(* which return at once, are left out.                                     *)
(***************************************************************************)
EXTENDS Integers, Sequences, FiniteSets

CONSTANTS
  Names,          (* the names programs ask for                            *)
  Long,           (* those that cannot be encoded: a label over 63 bytes   *)
  Target,         (* the name they are aliases of, where they are          *)
  N_SERVERS,      (* servers, asked in the order 1 .. N_SERVERS            *)
  DNS_RETRIES,    (* tries with each of them                               *)
  Kinds,          (* what a server may say: see Kind                       *)
  UDP_BUF_SIZE,   (* replies a socket's buffer holds                       *)
  IDS,            (* how many query ids there are, 2^16                    *)
  MAX_CALLS,      (* bound of the model: calls the cache does not answer   *)
  MAX_RING        (* bound of the model: replies waiting in the card       *)

(* An address, an alias, no such name, too long for UDP, nothing usable.   *)
Kind == {"addr", "cname", "neg", "tc", "empty"}

ASSUME DnsAssumption ==
  /\ Target \notin Names /\ Long \subseteq Names /\ IDS \in Nat \ {0}
  /\ N_SERVERS \in Nat \ {0} /\ DNS_RETRIES \in Nat \ {0}
  /\ Kinds \subseteq Kind /\ UDP_BUF_SIZE \in Nat \ {0} /\ MAX_CALLS \in Nat /\ MAX_RING \in Nat

VARIABLES
  pc, hostname,       (* the call in progress, and what it was asked for   *)
  query,              (* the query: its id and the name in it              *)
  current_name,       (* the name the next query is to be for              *)
  si, retry,          (* the server, and the try with it                   *)
  rx,                 (* what the try's socket has received                *)
  resp,               (* the reply to look at                              *)
  result,             (* what the last call returned                       *)
  dns_next_id, cache, (* the id given last; what is cached for each name   *)
  ring,               (* replies in the card's receive ring                *)
  zone,               (* what each server says of each name                *)
  sent,               (* requests that have gone out                       *)
  calls,              (* history: calls the cache did not answer           *)
  tried, aliased,     (* history: the call's tries, servers with an alias  *)
  heard,              (* history: its tries that have a reply to look at   *)
  discarded           (* history: the reply a try waits for was discarded  *)

call == <<hostname, query, current_name, si, retry, calls, tried, aliased>>
vars == <<pc, hostname, query, current_name, si, retry, rx, resp, result, dns_next_id,
          cache, ring, zone, sent, calls, tried, aliased, heard, discarded>>

Servers == 1 .. N_SERVERS
Tries   == Servers \X (0 .. DNS_RETRIES - 1)
Try     == <<si, retry>>
Asked   == Names \cup {Target}
Ids     == 0 .. IDS - 1

(* The address of name n, as server s has it; nothing; that there is none. *)
Addr(s, n) == <<s, n>>
None       == <<0, "none">>
Neg        == <<0, "neg">>

NoReply == [id |-> 0, name |-> Target, server |-> 0, kind |-> "empty"]

Query == [id : Ids, name : Asked]
Reply == [id : Ids, name : Asked, server : Servers, kind : Kind]

Init ==
  /\ pc = "idle" /\ result = None
  /\ hostname \in Names /\ current_name = hostname
  /\ query = [id |-> 0, name |-> hostname]
  /\ si = 1 /\ retry = 0 /\ rx = << >>
  /\ resp = NoReply
  /\ dns_next_id = 0 /\ cache = [n \in Names |-> None]
  /\ ring = << >> /\ zone \in [Servers \X Names -> Kinds] /\ sent = {}
  /\ calls = 0 /\ tried = {} /\ aliased = {} /\ heard = {} /\ discarded = FALSE

----------------------------------------------------------------------------
(* The resolver.                                                           *)

(* dns_cache_lookup finds an address: the call returns it.                 *)
Cached(n) ==
  /\ pc = "idle" /\ cache[n] \notin {None, Neg}
  /\ hostname' = n /\ result' = cache[n]
  /\ UNCHANGED <<pc, query, current_name, si, retry, rx, resp, dns_next_id, cache, ring,
                 zone, sent, calls, tried, aliased, heard, discarded>>

(* It finds none, or one that says there is none: both return -1.  The     *)
(* query gets the next id, a uint16_t; a name that cannot be encoded ends  *)
(* the call there.                                                         *)
Resolve(n) ==
  /\ pc = "idle" /\ cache[n] \in {None, Neg}
  /\ calls < MAX_CALLS /\ calls' = calls + 1
  /\ dns_next_id' = (dns_next_id + 1) % IDS
  /\ hostname' = n /\ current_name' = n
  /\ query' = [id |-> dns_next_id', name |-> n]
  /\ si' = 1 /\ retry' = 0 /\ tried' = {} /\ aliased' = {} /\ heard' = {}
  /\ \/ n \in Long /\ result' = None /\ UNCHANGED pc
     \/ n \notin Long /\ pc' = "ask" /\ UNCHANGED result
  /\ UNCHANGED <<rx, resp, cache, ring, zone, sent, discarded>>

(* Faulty variant, for mutation: the slot's old content stays.             *)
KeepsContent(b) == b

(* udp_socket_create clears the slot, whatever its last user left there.   *)
Cleared(b) == << >>

(* dns_send_and_wait opens a socket, connected to the server; the request  *)
(* goes out.                                                               *)
Ask ==
  /\ pc = "ask"
  /\ rx' = Cleared(rx)
  /\ sent' = sent \cup {[id |-> query.id, name |-> query.name, server |-> si]}
  /\ tried' = tried \cup {Try}
  /\ pc' = "wait"
  /\ UNCHANGED <<hostname, query, current_name, si, retry, resp, result, dns_next_id, cache,
                 ring, zone, calls, aliased, heard, discarded>>

(* There is no socket, or ip_send fails.                                   *)
AskFails ==
  /\ pc = "ask"
  /\ tried' = tried \cup {Try}
  /\ pc' = "next"
  /\ UNCHANGED <<hostname, query, current_name, si, retry, rx, resp, result, dns_next_id,
                 cache, ring, zone, sent, calls, aliased, heard, discarded>>

(* udp_recv_timeout returns what the socket has, and the socket is closed. *)
(* Several replies have run together in its buffer: only the first counts. *)
(* What is not read of the rest stays in the slot.                         *)
Recv ==
  /\ pc = "wait" /\ rx # << >>
  /\ resp' = Head(rx) /\ rx' = Tail(rx)
  /\ pc' = "parse"
  /\ UNCHANGED <<call, result, dns_next_id, cache, ring, zone, sent, heard, discarded>>

(* The time is up after a sleep: the buffer is not looked at again, and a  *)
(* reply that has come meanwhile is thrown away.                           *)
Timeout ==
  /\ pc = "wait"
  /\ pc' = "next" /\ heard' = heard \ {Try}
  /\ UNCHANGED <<call, rx, resp, result, dns_next_id, cache, ring, zone, sent, discarded>>

(* For the history: a reply to the query, with something in it.            *)
Usable(r) == r.id = query.id /\ r.kind # "empty"

(* Faulty variants, for mutation: the reply to any query will do; the id   *)
(* is compared as it is on the wire, its bytes swapped (a small id is 256  *)
(* times what it should be).                                               *)
AcceptsAny(r) == TRUE

AcceptsSwapped(r) == r.id = (256 * query.id) % IDS

(* The reply has the id of the query.                                      *)
Accepts(r) == r.id = query.id

(* dns_parse_response found an address: it is cached and returned.         *)
ParseAddress ==
  /\ pc = "parse" /\ Accepts(resp) /\ resp.kind = "addr"
  /\ cache' = [cache EXCEPT ![hostname] = Addr(resp.server, resp.name)]
  /\ result' = cache'[hostname]
  /\ pc' = "idle" /\ resp' = NoReply /\ heard' = heard \ {Try}
  /\ UNCHANGED <<call, rx, dns_next_id, ring, zone, sent, discarded>>

(* A return code: no such name, for one.                                   *)
ParseNegative ==
  /\ pc = "parse" /\ Accepts(resp) /\ resp.kind = "neg"
  /\ cache' = [cache EXCEPT ![hostname] = Neg]
  /\ result' = Neg
  /\ pc' = "idle" /\ resp' = NoReply /\ heard' = heard \ {Try}
  /\ UNCHANGED <<call, rx, dns_next_id, ring, zone, sent, discarded>>

(* An alias: the next query is to be for its target.  The break leaves the *)
(* loop over the tries, and the next server is asked the old query.        *)
ParseAlias ==
  /\ pc = "parse" /\ Accepts(resp) /\ resp.kind = "cname"
  /\ current_name' = Target
  /\ aliased' = aliased \cup {si}
  /\ retry' = DNS_RETRIES - 1
  /\ pc' = "next" /\ resp' = NoReply /\ heard' = heard \ {Try}
  /\ UNCHANGED <<hostname, query, si, rx, result, dns_next_id, cache, ring, zone, sent,
                 calls, tried, discarded>>

(* The reply was cut off: dns_tcp_query asks again, and gets the address   *)
(* or does not.  It polls the card itself, and keeps the segments of its   *)
(* connection only.                                                        *)
ParseTruncated(k) ==
  /\ pc = "parse" /\ Accepts(resp) /\ resp.kind = "tc"
  /\ ring' = SubSeq(ring, k + 1, Len(ring))
  /\ \/ /\ cache' = [cache EXCEPT ![hostname] = Addr(si, query.name)]
        /\ result' = cache'[hostname]
        /\ pc' = "idle"
     \/ /\ pc' = "next"
        /\ UNCHANGED <<cache, result>>
  /\ resp' = NoReply /\ heard' = heard \ {Try}
  /\ UNCHANGED <<call, rx, dns_next_id, zone, sent, discarded>>

(* Not the reply to this query, or nothing in it.  The replies behind it   *)
(* in the buffer are not looked at.                                        *)
ParseUseless ==
  /\ pc = "parse" /\ (Accepts(resp) => resp.kind = "empty")
  /\ pc' = "next" /\ resp' = NoReply
  /\ heard' = IF Usable(resp) THEN heard ELSE heard \ {Try}
  /\ UNCHANGED <<call, rx, result, dns_next_id, cache, ring, zone, sent, discarded>>

(* No server is left after s.                                              *)
LastServer(s) == s = N_SERVERS

(* Faulty variant, for mutation: the next server is the same again.        *)
SameServer(s) == s

ServerAfter(s) == s + 1

(* No try with the server is left after r.                                 *)
LastTry(r) == r = DNS_RETRIES - 1

(* The next try with the server, the next server, or the end: the loop     *)
(* over aliases ends in a break.                                           *)
NextTry ==
  /\ pc = "next"
  /\ \/ /\ ~LastTry(retry)
        /\ retry' = retry + 1 /\ pc' = "ask"
        /\ UNCHANGED <<si, result>>
     \/ /\ LastTry(retry) /\ ~LastServer(si)
        /\ si' = ServerAfter(si) /\ retry' = 0 /\ pc' = "ask"
        /\ UNCHANGED result
     \/ /\ LastTry(retry) /\ LastServer(si)
        /\ result' = None /\ pc' = "idle"
        /\ UNCHANGED <<si, retry>>
  /\ UNCHANGED <<hostname, query, current_name, rx, resp, dns_next_id, cache, ring, zone, sent,
                 calls, tried, aliased, heard, discarded>>

Expire(n) ==
  /\ cache[n] # None
  /\ cache' = [cache EXCEPT ![n] = None]
  /\ UNCHANGED <<pc, call, rx, resp, result, dns_next_id, ring, zone, sent, heard, discarded>>

----------------------------------------------------------------------------
(* The network, and the threads that take frames from the card.            *)

(* What server s says of name n: the target of an alias has an address.    *)
Says(s, n) == IF n = Target THEN "addr" ELSE zone[<<s, n>>]

Answer(q) ==
  /\ Len(ring) < MAX_RING
  /\ ring' = Append(ring, [id |-> q.id, name |-> q.name, server |-> q.server,
                           kind |-> Says(q.server, q.name)])
  /\ UNCHANGED <<pc, call, rx, resp, result, dns_next_id, cache, zone, sent, heard, discarded>>

(* udp_recv_packet: the socket is connected to the server of the try.      *)
FromPeer(r) == r.server = si

(* net_poll, ip_recv, udp_recv_packet.  A socket has the same port in each *)
(* try, so a late reply finds the socket of a later one; what does not fit *)
(* in its buffer is lost.                                                  *)
Deliver ==
  LET r == Head(ring)
      fits == pc = "wait" /\ FromPeer(r) /\ Len(rx) < UDP_BUF_SIZE
  IN  /\ ring # << >> /\ ring' = Tail(ring)
      /\ rx' = IF fits THEN Append(rx, r) ELSE rx
      /\ heard' = IF fits /\ Usable(r) THEN heard \cup {Try} ELSE heard
      /\ UNCHANGED <<pc, call, resp, result, dns_next_id, cache, zone, sent, discarded>>

(* arp_wait, in any thread that sends.                                     *)
ArpWait ==
  /\ ring # << >>
  /\ ring' = Tail(ring)
  /\ discarded' = (discarded \/ (pc = "wait" /\ FromPeer(Head(ring)) /\ Accepts(Head(ring))))
  /\ UNCHANGED <<pc, call, rx, resp, result, dns_next_id, cache, zone, sent, heard>>

Work ==
  \/ Ask \/ AskFails \/ Recv \/ Timeout \/ NextTry
  \/ ParseAddress \/ ParseNegative \/ ParseAlias \/ ParseUseless
  \/ \E k \in 0 .. Len(ring) : ParseTruncated(k)

Next ==
  \/ \E n \in Names : Cached(n) \/ Resolve(n) \/ Expire(n)
  \/ Work
  \/ \E q \in sent : Answer(q)
  \/ Deliver \/ ArpWait

Spec == Init /\ [][Next]_vars

(* A call goes on: a wait ends, by a reply or when its time is up.         *)
FairSpec == Spec /\ WF_vars(Work)

----------------------------------------------------------------------------
(* The type invariant.                                                     *)
Answers == {None, Neg} \cup {Addr(s, n) : s \in Servers, n \in Asked}

TypeOK ==
  /\ pc \in {"idle", "ask", "wait", "parse", "next"}
  /\ hostname \in Names /\ current_name \in Asked /\ query \in Query
  /\ si \in Servers /\ retry \in 0 .. DNS_RETRIES - 1
  /\ rx \in Seq(Reply) /\ resp \in Reply \cup {NoReply} /\ ring \in Seq(Reply)
  /\ dns_next_id \in Ids /\ cache \in [Names -> Answers] /\ result \in Answers
  /\ zone \in [Servers \X Names -> Kinds]
  /\ sent \subseteq [id : Ids, name : Asked, server : Servers]
  /\ calls \in 0 .. MAX_CALLS /\ tried \subseteq Tries /\ aliased \subseteq Servers
  /\ heard \subseteq Tries /\ discarded \in BOOLEAN

(* What is cached for a name is what some server says of that very name:   *)
(* never the answer to another question, come late, twice or out of order. *)
CachedIsTheNames ==
  \A n \in Names :
    /\ cache[n] \notin {None, Neg} =>
         cache[n][2] = n /\ zone[<<cache[n][1], n>>] \in {"addr", "tc"}
    /\ cache[n] = Neg => \E s \in Servers : zone[<<s, n>>] = "neg"

(* A reply is looked at only in a try with the server that sent it: none   *)
(* is left in the slot from an earlier try, or taken from another server.  *)
RepliesFromPeer == pc = "parse" => resp.server = si

(* A call for a name that can be encoded returns no answer only if each    *)
(* server was tried DNS_RETRIES times, or named an alias, and no try was   *)
(* left with a usable reply in its socket: such a reply is passed over     *)
(* only if it comes in the very sleep in which the time runs out, or after *)
(* a useless one.                                                          *)
FailsOnlyUnheard ==
  pc = "idle" /\ calls > 0 /\ result = None /\ hostname \notin Long =>
    /\ \A s \in Servers : s \in aliased \/ \A r \in 0 .. DNS_RETRIES - 1 : <<s, r>> \in tried
    /\ heard = {}

(* Every call returns, whatever the servers and the other threads do.      *)
EveryCallReturns == pc # "idle" ~> pc = "idle"

(* net.c:816: "the reply is delivered to this socket by netd", and is no   *)
(* longer consumed by whichever thread drained the card first.             *)
RepliesReachNetd == ~discarded

(* net.c:802 and net.c:963: an alias is followed, its target asked for.    *)
AliasFollowed ==
  current_name = Target ~> query.name = Target

(* dns.h:15: a negative answer is cached: while it is, the name is not     *)
(* asked for.                                                              *)
NegativeIsCached ==
  [][\A q \in sent' \ sent : q.name \in Names => cache[q.name] # Neg]_vars
=============================================================================
