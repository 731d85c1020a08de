----------------------------- MODULE FrameQueue -----------------------------
(***************************************************************************)
(* What one direction of a network interface promises: the frames come out *)
(* in the order in which they went in, each of them once, and never more   *)
(* than Capacity of them wait.  A frame that finds the queue full is no    *)
(* step: it was never taken in.                                            *)
(***************************************************************************)
EXTENDS Naturals, Sequences

CONSTANTS Frame, Capacity

VARIABLES
  queue,    (* the frames that wait, the oldest first                      *)
  taken     (* the frame taken out last                                    *)

Init == queue = << >> /\ taken \in Frame

Put(f) ==
  /\ Len(queue) < Capacity
  /\ queue' = Append(queue, f)
  /\ UNCHANGED taken

Take ==
  /\ queue # << >>
  /\ taken' = Head(queue)
  /\ queue' = Tail(queue)

Next == (\E f \in Frame : Put(f)) \/ Take

Spec == Init /\ [][Next]_<<queue, taken>>
=============================================================================
