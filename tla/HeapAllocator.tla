--------------------------- MODULE HeapAllocator ---------------------------
(***************************************************************************)
(* What malloc and free promise: a block that is handed out has the size   *)
(* asked for, lies in memory, and shares no unit of it with a block that   *)
(* has not been given back; a block given back is gone, and no other is.   *)
(***************************************************************************)
EXTENDS Integers

CONSTANTS
  UNITS,                (* units of memory                                 *)
  SIZES                 (* sizes that are asked for                        *)

VARIABLE live           (* the blocks handed out: [at, size]               *)

Disjoint(a, b) == a.at + a.size <= b.at \/ b.at + b.size <= a.at

Init == live = {}

Allocate(b) ==
  /\ b.at >= 0 /\ b.at + b.size <= UNITS
  /\ \A c \in live : Disjoint(b, c)
  /\ live' = live \cup {b}

Release(b) == b \in live /\ live' = live \ {b}

Next ==
  \/ \E at \in 0 .. UNITS - 1, size \in SIZES : Allocate([at |-> at, size |-> size])
  \/ \E b \in live : Release(b)

Spec == Init /\ [][Next]_live
=============================================================================
