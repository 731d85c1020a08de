------------------------------- MODULE MCPmm --------------------------------
(***************************************************************************)
(* A machine of a few frames for TLC.  Small runs are of two pages and a   *)
(* byte of the bitmap holds three frames, so that every path of            *)
(* pmm_alloc_pages is taken; the stack is as small as the assumption       *)
(* allows, so that pushes are dropped too.                                 *)
(***************************************************************************)
EXTENDS Pmm, TLC

CONSTANTS heap, vmm

MCClients == {heap, vmm}

ClientSymmetry == Permutations(MCClients)

=============================================================================
