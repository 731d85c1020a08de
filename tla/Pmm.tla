-------------------------------- MODULE Pmm ---------------------------------
(***************************************************************************)
(* The physical memory manager, src/kernel/pmm.c: a bitmap that says which *)
(* frames are taken, and a stack of frames believed free that makes the    *)
(* allocation of one page O(1).  Multi-page allocations beyond SMALL_RUN   *)
(* pages, and those that fall back to the bitmap, leave their frames on    *)
(* the stack: its entries can be stale or duplicated, and every pop checks *)
(* the bitmap again.                                                       *)
(*                                                                         *)
(* Every operation runs under pmm_lock from end to end and is one action.  *)
(* Addresses are frame numbers; address 0 is the failure result, and       *)
(* frame 0 is always reserved.  first_free_page is written and never read: *)
(* it is left out.                                                         *)
(***************************************************************************)
EXTENDS Integers, FiniteSets, Sequences

CONSTANTS
  TOTAL,            (* total_page_count                                    *)
  LOW_END,          (* first frame above the protected low memory          *)
  KSTART, KEND,     (* the kernel image is frames KSTART .. KEND-1         *)
  FREE_STACK_SIZE,  (* capacity of free_stack                              *)
  SMALL_RUN,        (* largest request served from the stack: 4            *)
  BITS_PER_BYTE,    (* frames per byte of the bitmap: 8                    *)
  Clients,          (* the kernel subsystems that allocate                 *)
  MAX_REQUEST       (* bound of the model: largest n a client asks for     *)

ASSUME LayoutAssumption ==
  /\ TOTAL \in Nat /\ LOW_END \in Nat /\ KSTART \in Nat /\ KEND \in Nat
  /\ 1 <= LOW_END /\ LOW_END <= KSTART /\ KSTART <= KEND /\ KEND <= TOTAL

ASSUME SizesAssumption ==
  /\ FREE_STACK_SIZE \in Nat /\ FREE_STACK_SIZE >= TOTAL
  /\ SMALL_RUN \in Nat \ {0}
  /\ BITS_PER_BYTE \in Nat \ {0}
  /\ MAX_REQUEST \in Nat

VARIABLES
  bitmap,           (* the frames whose bit is set                         *)
  free_stack,       (* the stack, its top last                             *)
  free_page_count,
  owned,            (* history: the frames each client believes are its    *)
  overflowed        (* history: some push was dropped on a full stack      *)

vars == <<bitmap, free_stack, free_page_count, owned, overflowed>>

Frames == 0 .. TOTAL - 1

Reserved == (0 .. LOW_END - 1) \cup (KSTART .. KEND - 1)

FreeFrames == Frames \ bitmap

Block(start, n) == start .. (start + n - 1)

(* The members of a finite set of integers in increasing order.            *)
Ascending(S) ==
  [k \in 1 .. Cardinality(S) |->
     CHOOSE x \in S : Cardinality({y \in S : y < x}) = k - 1]

(* free_stack_push for every element of q in turn: dropped when full.      *)
PushAll(s, q) ==
  LET all == s \o q
  IN  IF Len(all) <= FREE_STACK_SIZE THEN all ELSE SubSeq(all, 1, FREE_STACK_SIZE)

(* Faulty variant, for mutation: a pop trusts every entry.                 *)
LiveUnchecked == 1 .. Len(free_stack)

(* Positions of the entries a pop would not skip.                          *)
Live == {i \in 1 .. Len(free_stack) : free_stack[i] \notin bitmap}

(* Position of the k-th live entry, counted from the top.                  *)
TopLive(k) == Ascending(Live)[Cardinality(Live) - k + 1]

(* cand[k-1]: the k-th live entry from the top.                            *)
Candidate(k) == free_stack[TopLive(k)]

(* The first c live entries are contiguous frames, ascending.              *)
IsRun(c) == \A k \in 1 .. c : Candidate(k) = Candidate(1) + k - 1

(* Is `got' what the gather loop collects when it wants n frames?          *)
Gathers(n, got) ==
  /\ got <= n /\ got <= Cardinality(Live) /\ IsRun(got)
  /\ got < n /\ got < Cardinality(Live) => ~ IsRun(got + 1)

(* Faulty variant, for mutation: the partial run is not pushed back.       *)
PushBackForgotten(got) ==
  SubSeq(free_stack, 1, IF got = Cardinality(Live) THEN 0 ELSE TopLive(got + 1))

(* The stack after a partial run of `got': the stale entries met on the    *)
(* way are gone, the live ones are back in their order.                    *)
PushBack(got) ==
  LET kept == IF got = Cardinality(Live) THEN 0 ELSE TopLive(got + 1)
  IN  SubSeq(free_stack, 1, kept) \o [k \in 1 .. got |-> Candidate(got - k + 1)]

(* bitmap_find_free only ever returns the lowest free frame of a byte.     *)
LowestOfByte ==
  {f \in FreeFrames : \A g \in FreeFrames :
      g \div BITS_PER_BYTE = f \div BITS_PER_BYTE => f <= g}

IsLeast(x, S) == x \in S /\ \A y \in S : x <= y

bitmap_find_free(pos) ==
  IF \E f \in LowestOfByte : f >= pos
  THEN CHOOSE f \in LowestOfByte : IsLeast(f, {g \in LowestOfByte : g >= pos})
  ELSE TOTAL

(* Faulty variant, for mutation: the last frame is not looked at.          *)
SmallStartsShort(n) ==
  {f \in LowestOfByte : f + n <= TOTAL /\ Block(f, n - 1) \subseteq FreeFrames}

(* Starts the bitmap scan of a small request tries and accepts.            *)
SmallStarts(n) ==
  {f \in LowestOfByte : f + n <= TOTAL /\ Block(f, n) \subseteq FreeFrames}

(* Starts the streak scan of a large request accepts.                      *)
LargeStarts(n) ==
  {f \in FreeFrames : f + n <= TOTAL /\ Block(f, n) \subseteq FreeFrames}

-----------------------------------------------------------------------------

(* pmm_init: the lowest free frame ends on top of the stack.               *)
pmm_init ==
  LET free == Frames \ Reserved
      asc  == Ascending(free)
  IN  /\ bitmap = Reserved
      /\ free_stack = [k \in 1 .. Cardinality(free) |-> asc[Cardinality(free) - k + 1]]
      /\ free_page_count = Cardinality(free)
      /\ owned = [c \in Clients |-> {}]
      /\ overflowed = FALSE

(* A block found by any of the paths is marked and goes to c.              *)
Take(c, start, n) ==
  /\ bitmap' = bitmap \cup Block(start, n)
  /\ free_page_count' = free_page_count - n
  /\ owned' = [owned EXCEPT ![c] = @ \cup Block(start, n)]

Fail == UNCHANGED <<bitmap, free_page_count, owned>>

(* pmm_alloc_page, also pmm_alloc_pages(1): pop until a live entry.        *)
pmm_alloc_page(c) ==
  /\ \/ /\ Live # {}
        /\ free_stack' = SubSeq(free_stack, 1, TopLive(1) - 1)
        /\ Take(c, Candidate(1), 1)
     \/ /\ Live = {}
        /\ free_stack' = << >>
        /\ Fail
  /\ UNCHANGED overflowed

(* Take the least start of a scan, or fail when there is none.             *)
TakeLeast(c, starts, n) ==
  IF starts = {} THEN Fail ELSE \E f \in starts : IsLeast(f, starts) /\ Take(c, f, n)

(* pmm_alloc_pages for 2 .. SMALL_RUN: gather from the stack, stale        *)
(* entries dropped on the way; a partial run is pushed back and the bitmap *)
(* scanned, which leaves the frames it takes on the stack.                 *)
AllocSmall(c, n) ==
  /\ n \in 2 .. SMALL_RUN
  /\ \E got \in 0 .. n :
       /\ Gathers(n, got)
       /\ \/ /\ got = n
             /\ free_stack' = SubSeq(free_stack, 1, TopLive(n) - 1)
             /\ Take(c, Candidate(1), n)
          \/ /\ got < n
             /\ free_stack' = PushBack(got)
             /\ TakeLeast(c, SmallStarts(n), n)
  /\ UNCHANGED overflowed

(* pmm_alloc_pages beyond SMALL_RUN: first streak in the bitmap; the stack *)
(* is not touched.                                                         *)
AllocLarge(c, n) ==
  /\ n > SMALL_RUN /\ n > 1
  /\ TakeLeast(c, LargeStarts(n), n)
  /\ UNCHANGED <<free_stack, overflowed>>

(* Frames whose bit is set are cleared and pushed; the others are skipped. *)
GiveBack(c, freed, pushed) ==
  /\ bitmap' = bitmap \ freed
  /\ free_stack' = PushAll(free_stack, pushed)
  /\ overflowed' = (overflowed \/ Len(free_stack) + Len(pushed) > FREE_STACK_SIZE)
  /\ free_page_count' = free_page_count + Cardinality(freed)
  /\ owned' = [owned EXCEPT ![c] = @ \ freed]

(* The frees a client issues: frames it holds, or a second free of frames  *)
(* nobody holds any more.                                                  *)
MayFree(c, S) == S \cap bitmap \subseteq owned[c]

(* pmm_free_page: nothing for 0, beyond the end, or a clear bit.           *)
pmm_free_page(c, f) ==
  /\ MayFree(c, {f})
  /\ IF f # 0 /\ f < TOTAL /\ f \in bitmap
     THEN GiveBack(c, {f}, <<f>>)
     ELSE UNCHANGED vars

(* pmm_free_pages: the length is cut at the end of memory.                 *)
pmm_free_pages(c, start, n) ==
  /\ start # 0 /\ n > 0
  /\ LET freed == Block(start, n) \cap bitmap
     IN  /\ MayFree(c, freed)
         /\ GiveBack(c, freed, Ascending(freed))

Next ==
  \E c \in Clients :
    \/ pmm_alloc_page(c)
    \/ \E n \in 2 .. MAX_REQUEST : AllocSmall(c, n) \/ AllocLarge(c, n)
    \/ \E f \in 0 .. TOTAL : pmm_free_page(c, f)
    \/ \E start \in 1 .. TOTAL - 1, n \in 1 .. MAX_REQUEST : pmm_free_pages(c, start, n)

Spec == pmm_init /\ [][Next]_vars

-----------------------------------------------------------------------------

(* Types: the stack never outgrows its array and holds allocatable frames. *)
TypeOK ==
  /\ bitmap \subseteq Frames
  /\ free_stack \in Seq(Frames \ Reserved)
  /\ Len(free_stack) <= FREE_STACK_SIZE
  /\ free_page_count \in Nat
  /\ owned \in [Clients -> SUBSET Frames]
  /\ overflowed \in BOOLEAN

(* No frame has two holders, no reserved frame has one, and the bitmap is  *)
(* exactly the reserved frames and the held ones: stale and duplicate      *)
(* stack entries never hand a frame out twice, and no frame is lost.       *)
NoSharedFrame ==
  /\ \A c, d \in Clients : c # d => owned[c] \cap owned[d] = {}
  /\ \A c \in Clients : owned[c] \cap Reserved = {}
  /\ bitmap = Reserved \cup UNION {owned[c] : c \in Clients}

(* pmm_count_free() is exact and never wraps below zero, double frees and  *)
(* partial frees included.                                                 *)
FreeCountExact == free_page_count = Cardinality(FreeFrames)

(* Every free frame is on the stack, so that pmm_alloc_page fails only     *)
(* when no frame is free; this lasts until a push is dropped.              *)
FreeFramesReachable ==
  ~ overflowed => \A f \in FreeFrames : \E i \in 1 .. Len(free_stack) : free_stack[i] = f

(* bitmap_find_free does what its comment says (pmm.c:61-62): the index of *)
(* the next free bit from pos on, or total_page_count if there is none.    *)
FindFreeReturnsNextFree ==
  \A pos \in Frames :
    LET next == {f \in FreeFrames : f >= pos}
    IN  IF next = {} THEN bitmap_find_free(pos) = TOTAL
        ELSE IsLeast(bitmap_find_free(pos), next)

(* The allocator implements the abstract one.                              *)
FA == INSTANCE FrameAllocator WITH available <- free_page_count

ImplementsFrameAllocator == FA!Spec

=============================================================================
