--------------------------- MODULE FrameAllocator ---------------------------
(***************************************************************************)
(* What the physical memory manager promises its callers (pmm.h): a block  *)
(* of frames handed out is free until then and contiguous, a frame has one *)
(* holder at a time, reserved frames are never handed out, and the count   *)
(* pmm_count_free() reports is the number of frames nobody holds.          *)
(*                                                                         *)
(* A request may always fail: failing is a stuttering step here.           *)
(***************************************************************************)
EXTENDS Naturals, FiniteSets

CONSTANTS
  Frames,     (* frame numbers of the machine                              *)
  Reserved,   (* frames of the firmware and of the kernel image            *)
  Clients     (* kernel subsystems that hold frames                        *)

VARIABLES
  owned,      (* owned[c]: the frames client c holds                       *)
  available   (* the free count the allocator reports                      *)

vars == <<owned, available>>

Held == UNION {owned[c] : c \in Clients}

Unheld == Frames \ (Reserved \cup Held)

Init ==
  /\ owned = [c \in Clients |-> {}]
  /\ available = Cardinality(Frames \ Reserved)

(* A block of n >= 1 free, contiguous frames becomes c's.                  *)
Alloc(c, start, n) ==
  /\ n >= 1
  /\ owned' = [owned EXCEPT ![c] = @ \cup (start .. (start + n - 1))]
  /\ start .. (start + n - 1) \subseteq Unheld
  /\ available' = available - n

(* c gives back some of the frames it holds.                               *)
Free(c, S) ==
  /\ S \subseteq owned[c]
  /\ S # {}
  /\ owned' = [owned EXCEPT ![c] = @ \ S]
  /\ available' = available + Cardinality(S)

Next ==
  \E c \in Clients :
    \/ \E start \in Unheld : \E n \in 1 .. Cardinality(Frames) : Alloc(c, start, n)
    \/ \E S \in SUBSET owned[c] : Free(c, S)

Spec == Init /\ [][Next]_vars

=============================================================================
