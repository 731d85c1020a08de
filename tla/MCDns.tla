------------------------------- MODULE MCDns -------------------------------
(***************************************************************************)
(* Dns with fewer zones: only the servers' answers for one name are of     *)
(* every kind.  The name Plain, which all of them have an address of, is   *)
(* there for its late replies to be mistaken, and the Long ones, which no  *)
(* server is asked for.                                                    *)
(***************************************************************************)
EXTENDS Dns

CONSTANT Plain   (* the name with an address                               *)

ASSUME PlainAssumption == Plain \in Names \ Long

MCInit ==
  /\ Init
  /\ hostname \notin Long \cup {Plain}
  /\ \A s \in Servers : \A n \in Long \cup {Plain} : zone[<<s, n>>] = "addr"

MCSpec == MCInit /\ [][Next]_vars /\ WF_vars(Work)
=============================================================================
