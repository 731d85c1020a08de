-------------------------------- MODULE Heap --------------------------------
(***************************************************************************)
(* The kernel heap, src/kernel/mm.c: free lists of small blocks, one per   *)
(* size class, and a list of chunks for everything else, both growing out  *)
(* of pages of the page allocator and never giving one back.  Memory is    *)
(* counted in units of 16 bytes.  Every step below is one critical section *)
(* of heap_lock; between the two attempts of a malloc, and between those   *)
(* of a realloc and its free, other threads run.  The chunk list, doubly   *)
(* linked in the code, is a sequence; statistics other than the memory in  *)
(* use, and the diagnostic rings, are left out.                            *)
(***************************************************************************)
EXTENDS Integers, Sequences, FiniteSetsExt

CONSTANTS
  Threads,
  PAGES,                (* pages of the page allocator                     *)
  PAGE,                 (* PAGE_SIZE                                       *)
  HEADER,               (* sizeof(heap_chunk_t)                            *)
  TAIL,                 (* the 32 bytes a split must leave to be worth it  *)
  Classes,              (* size_class_sizes                                *)
  CLASS_MAX_PAGES,      (* SIZE_CLASS_MAX_PAGES                            *)
  SIZES,                (* bound of the model: sizes asked for             *)
  PRESEED               (* pages mm_heap_preseed asks for                  *)

ASSUME HeapAssumption ==
  /\ PAGES \in Nat /\ PAGE \in Nat /\ HEADER \in Nat \ {0} /\ TAIL \in Nat \ {0}
  /\ HEADER < PAGE /\ CLASS_MAX_PAGES \in Nat /\ PRESEED \in Nat
  /\ Classes \subseteq 1 .. PAGE /\ SIZES \subseteq Nat \ {0}

None == -1

Pages == {k * PAGE : k \in 0 .. PAGES - 1}

UNITS == PAGES * PAGE

VARIABLES
  inited,               (* heap_inited                                     *)
  chunks,               (* heap_first and what follows it                  *)
  class_pages,          (* size_class_pages: class -> set of pages         *)
  class_free,           (* size_class_free: class -> blocks                *)
  marked,               (* used_bits: the blocks whose bit is 1            *)
  used,                 (* heap_used_size                                  *)
  pages,                (* addresses of pages pmm.c can still give         *)
  op,                   (* the call each thread is in                      *)
  live,                 (* history: the blocks handed out                  *)
  seeded,               (* history: pages mm_heap_preseed put in the heap  *)
  seams                 (* history: where heap_add_large_chunk appended    *)

vars == <<inited, chunks, class_pages, class_free, marked, used, pages, op, live,
          seeded, seams>>

Chunk(at, size, free) == [at |-> at, size |-> size, free |-> free]

(* Where the data of a chunk begins, and where the chunk ends.             *)
Data(c) == c.at + HEADER
End(c)  == c.at + HEADER + c.size

----------------------------------------------------------------------------
(* Chunks.                                                                 *)

(* Faulty variant, for mutation: a free neighbour need not touch.          *)
TouchesAnyFree(s, i) == i \in 1 .. Len(s) - 1 /\ s[i].free = 1 /\ s[i + 1].free = 1

(* Chunk i of the list and the next one are free and meet in memory.       *)
Touches(s, i) ==
  /\ i \in 1 .. Len(s) - 1 /\ s[i].free = 1 /\ s[i + 1].free = 1
  /\ End(s[i]) = s[i + 1].at

Merge(s, i) ==
  IF Touches(s, i)
  THEN [k \in 1 .. Len(s) - 1 |->
          IF k < i THEN s[k]
          ELSE IF k = i THEN Chunk(s[i].at, s[i].size + HEADER + s[i + 1].size, 1)
          ELSE s[k + 1]]
  ELSE s

(* Faulty variant, for mutation: only the chunk after is looked at.        *)
CoalesceForward(s, i) == Merge(s, i)

(* coalesce, of a free chunk.                                              *)
Coalesce(s, i) == Merge(Merge(s, i), i - 1)

(* split_chunk                                                             *)
Split(s, i, size) ==
  IF s[i].size - size < HEADER + TAIL THEN s
  ELSE [k \in 1 .. Len(s) + 1 |->
          IF k < i THEN s[k]
          ELSE IF k = i THEN Chunk(s[i].at, size, s[i].free)
          ELSE IF k = i + 1 THEN Chunk(Data(s[i]) + size, s[i].size - size - HEADER, 1)
          ELSE s[k - 1]]

SetFree(s, i, free) == [s EXCEPT ![i].free = free]

(* Faulty variant, for mutation: the size is taken to include the header.  *)
FitsWithHeader(s, i, size) == s[i].free = 1 /\ s[i].size + HEADER >= size

Fits(s, i, size) == s[i].free = 1 /\ s[i].size >= size

(* find_free_chunk: the first chunk of the list that fits.                 *)
FirstFit(s, size, i) ==
  i \in 1 .. Len(s) /\ Fits(s, i, size) /\ \A k \in 1 .. i - 1 : ~Fits(s, k, size)

NoFit(s, size) == \A i \in 1 .. Len(s) : ~Fits(s, i, size)

(* A page at the end of the list: part of the last chunk if that is free   *)
(* and ends where the page begins (heap_add_page, mm_heap_preseed).        *)
AddPage(s, p) ==
  IF s # <<>> /\ s[Len(s)].free = 1 /\ End(s[Len(s)]) = p
  THEN [s EXCEPT ![Len(s)].size = @ + PAGE]
  ELSE Append(s, Chunk(p, PAGE - HEADER, 1))

RunLength(size) == (size + HEADER + PAGE - 1) \div PAGE

(* The pages of a run of n, and the list after heap_add_large_chunk got it. *)
Run(p, n) == {p + k * PAGE : k \in 0 .. n - 1}

AddRun(s, p, n) == Append(s, Chunk(p, n * PAGE - HEADER, 1))

----------------------------------------------------------------------------
(* Size classes.                                                           *)

(* size_class_index: the smallest class that is large enough.              *)
IsClassOf(c, size) == c \in Classes /\ c >= size /\ \A d \in Classes : d >= size => d >= c

HasClass(size) == \E c \in Classes : c >= size

(* The blocks of a page of class c.                                        *)
BlocksOf(c, p) == {p + k * c : k \in 0 .. (PAGE \div c) - 1}

ClassBlocks(c) == UNION {BlocksOf(c, p) : p \in class_pages[c]}

(* The free list of class c after the blocks of a new page but the first.  *)
Carved(c, p) == [k \in 1 .. (PAGE \div c) - 1 |-> p + ((PAGE \div c) - k) * c]

----------------------------------------------------------------------------
Idle == [pc |-> "idle", size |-> 0, old |-> None]

Init ==
  /\ inited = 0 /\ chunks = <<>> /\ used = 0
  /\ class_pages = [c \in Classes |-> {}] /\ class_free = [c \in Classes |-> <<>>]
  /\ marked = {}
  /\ pages = Pages
  /\ op = [t \in Threads |-> Idle]
  /\ live = {} /\ seeded = {} /\ seams = {}

(* mm_heap_preseed, one page of it, at boot.                               *)
Preseed(p) ==
  /\ inited = 0 /\ \A t \in Threads : op[t] = Idle
  /\ Cardinality(seeded) < PRESEED /\ p \in pages
  /\ pages' = pages \ {p} /\ seeded' = seeded \cup {p}
  /\ chunks' = AddPage(chunks, p)
  /\ UNCHANGED <<inited, class_pages, class_free, marked, used, op, live, seams>>

(* The list as the first malloc finds it: emptied.                         *)
List == IF inited = 0 THEN <<>> ELSE chunks

(* malloc of a size, and realloc of a block up to its malloc.              *)
Call(t, size, old) ==
  /\ op[t].pc = "idle"
  /\ op' = [op EXCEPT ![t] = [pc |-> IF HasClass(size) THEN "class" ELSE "general",
                              size |-> size, old |-> old]]
  /\ UNCHANGED <<inited, chunks, class_pages, class_free, marked, used, pages, live,
                 seeded, seams>>

(* t's malloc returns the block at a: to its caller, or to realloc, which  *)
(* copies and has the old block to free.                                   *)
Got(t, a) ==
  /\ live' = live \cup {[at |-> a, size |-> op[t].size]}
  /\ op' = [op EXCEPT ![t] = IF @.old = None THEN Idle ELSE [@ EXCEPT !.pc = "free"]]

(* Faulty variant, for mutation: the bit of the block stays.               *)
StillMarked(a) == marked

(* The bit of a block taken off its list is cleared.                       *)
Unmarked(a) == marked \ {a}

(* size_class_alloc from the free list.                                    *)
PopBlock(t, c) ==
  /\ op[t].pc = "class" /\ IsClassOf(c, op[t].size)
  /\ class_free[c] # <<>>
  /\ class_free' = [class_free EXCEPT ![c] = Tail(@)]
  /\ marked' = Unmarked(Head(class_free[c]))
  /\ used' = used + c
  /\ Got(t, Head(class_free[c]))
  /\ UNCHANGED <<inited, chunks, class_pages, pages, seeded, seams>>

(* size_class_alloc from a new page.                                       *)
NewClassPage(t, c, p) ==
  /\ op[t].pc = "class" /\ IsClassOf(c, op[t].size)
  /\ class_free[c] = <<>> /\ Cardinality(class_pages[c]) < CLASS_MAX_PAGES /\ p \in pages
  /\ inited' = 1 /\ chunks' = List
  /\ pages' = pages \ {p}
  /\ class_pages' = [class_pages EXCEPT ![c] = @ \cup {p}]
  /\ class_free' = [class_free EXCEPT ![c] = Carved(c, p)]
  /\ marked' = marked \cup (BlocksOf(c, p) \ {p})
  /\ used' = used + c
  /\ Got(t, p)
  /\ UNCHANGED <<seeded, seams>>

(* The class is exhausted: malloc falls back on the chunks.                *)
Fallback(t, c) ==
  /\ op[t].pc = "class" /\ IsClassOf(c, op[t].size)
  /\ class_free[c] = <<>> /\ (Cardinality(class_pages[c]) = CLASS_MAX_PAGES \/ pages = {})
  /\ inited' = 1 /\ chunks' = List
  /\ op' = [op EXCEPT ![t].pc = "general"]
  /\ UNCHANGED <<class_pages, class_free, marked, used, pages, live, seeded, seams>>

(* Faulty variant, for mutation: the size asked for is counted.            *)
ChargedAsked(s, i, size) == size

(* What heap_used_size grows by: the chunk may be larger than asked for.   *)
Charged(s, i, size) == Split(s, i, size)[i].size

(* malloc's general path with the list s, in which chunk i is taken.       *)
TakeFrom(t, s, i) ==
  /\ FirstFit(s, op[t].size, i)
  /\ inited' = 1
  /\ chunks' = SetFree(Split(s, i, op[t].size), i, 0)
  /\ used' = used + Charged(s, i, op[t].size)
  /\ Got(t, Data(s[i]))
  /\ UNCHANGED <<class_pages, class_free, marked, seeded>>

General(t) == op[t].pc = "general"

TakeChunk(t, i) ==
  /\ General(t) /\ TakeFrom(t, List, i)
  /\ UNCHANGED <<pages, seams>>

(* Nothing fits: the heap grows by a page.                                 *)
GrowByPage(t, p, i) ==
  /\ General(t) /\ NoFit(List, op[t].size) /\ op[t].size <= PAGE - HEADER
  /\ p \in pages /\ pages' = pages \ {p}
  /\ TakeFrom(t, AddPage(List, p), i)
  /\ UNCHANGED seams

(* ... or by a run of pages.                                               *)
GrowByRun(t, p, i) ==
  LET n == RunLength(op[t].size) IN
  /\ General(t) /\ NoFit(List, op[t].size) /\ op[t].size > PAGE - HEADER
  /\ Run(p, n) \subseteq pages /\ pages' = pages \ Run(p, n)
  /\ TakeFrom(t, AddRun(List, p, n), i)
  /\ seams' = seams \cup {p}

(* malloc returns 0, and so does a realloc, which leaves the old block be. *)
Fails(t) ==
  /\ General(t) /\ NoFit(List, op[t].size)
  /\ IF op[t].size <= PAGE - HEADER THEN pages = {}
     ELSE \A p \in pages : ~(Run(p, RunLength(op[t].size)) \subseteq pages)
  /\ inited' = 1 /\ chunks' = List
  /\ op' = [op EXCEPT ![t] = Idle]
  /\ UNCHANGED <<class_pages, class_free, marked, used, pages, live, seeded, seams>>

----------------------------------------------------------------------------
(* free                                                                    *)

(* Faulty variant, for mutation: the bit of the block is not looked at.    *)
FreeableAny(a) == TRUE

(* A block of a class whose bit is 1 is free already: free returns.        *)
Freeable(a) == a \notin marked

FreeBlock(c, a) ==
  /\ a \in ClassBlocks(c) /\ Freeable(a)
  /\ marked' = marked \cup {a}
  /\ class_free' = [class_free EXCEPT ![c] = <<a>> \o @]
  /\ used' = used - c
  /\ UNCHANGED chunks

FreeChunk(i, a) ==
  /\ i \in 1 .. Len(chunks) /\ Data(chunks[i]) = a
  /\ chunks' = Coalesce(SetFree(chunks, i, 1), i)
  /\ used' = IF used >= chunks[i].size THEN used - chunks[i].size ELSE used
  /\ UNCHANGED <<marked, class_free>>

Release(a) ==
  /\ \/ \E c \in Classes : FreeBlock(c, a)
     \/ \E i \in 1 .. Len(chunks) : FreeChunk(i, a)
  /\ live' = {b \in live : b.at # a}
  /\ UNCHANGED <<inited, class_pages, pages, seeded, seams>>

InRealloc(a) == \E t \in Threads : op[t].old = a

(* Callers free a block they hold once; of a size class' block they may    *)
(* also free what they do not hold, any number of times.                   *)
MayFree(a) ==
  /\ ~InRealloc(a)
  /\ \/ \E b \in live : b.at = a
     \/ \E c \in Classes : a \in ClassBlocks(c)

Free(a) == MayFree(a) /\ Release(a) /\ UNCHANGED op

(* realloc has copied, and frees the old block.                            *)
FreeOld(t) ==
  /\ op[t].pc = "free" /\ Release(op[t].old)
  /\ op' = [op EXCEPT ![t] = Idle]

Next ==
  \/ \E p \in pages : Preseed(p)
  \/ \E a \in 0 .. UNITS - 1 : Free(a)
  \/ \E t \in Threads :
       \/ \E size \in SIZES :
            \/ Call(t, size, None)
            \/ \E b \in live : ~InRealloc(b.at) /\ Call(t, size, b.at)
       \/ \E c \in Classes :
            \/ PopBlock(t, c) \/ Fallback(t, c)
            \/ \E p \in pages : NewClassPage(t, c, p)
       \/ \E i \in 1 .. Len(List) : TakeChunk(t, i)
       \/ \E p \in pages, i \in 1 .. Len(List) + 1 : GrowByPage(t, p, i) \/ GrowByRun(t, p, i)
       \/ Fails(t) \/ FreeOld(t)

Spec == Init /\ [][Next]_vars

----------------------------------------------------------------------------
ClassPages == UNION {class_pages[c] : c \in Classes}

(* The pages the chunk list is made of.  What mm_heap_preseed put there is *)
(* given up by the first malloc.                                           *)
HeapPages ==
  Pages \ (pages \cup ClassPages \cup (IF inited = 1 THEN seeded ELSE {}))

Covers(c, u) == c.at <= u /\ u < End(c)

TypeOK ==
  /\ inited \in {0, 1} /\ used \in Int
  /\ \A i \in 1 .. Len(chunks) :
       /\ chunks[i].at \in 0 .. UNITS - 1 /\ chunks[i].size \in 1 .. UNITS
       /\ End(chunks[i]) <= UNITS /\ chunks[i].free \in {0, 1}
  /\ class_pages \in [Classes -> SUBSET Pages]
  /\ \A c \in Classes : \A k \in 1 .. Len(class_free[c]) : class_free[c][k] \in 0 .. UNITS - 1
  /\ marked \subseteq 0 .. UNITS - 1
  /\ pages \subseteq Pages /\ seeded \subseteq Pages /\ seams \subseteq Pages
  /\ op \in [Threads -> [pc : {"idle", "class", "general", "free"},
                         size : SIZES \cup {0}, old : (0 .. UNITS - 1) \cup {None}]]
  /\ live \subseteq [at : 0 .. UNITS - 1, size : SIZES]

(* The chunks, headers included, cover every unit of the heap's pages      *)
(* once and nothing else: no memory is lost to splitting, merging or       *)
(* growing, and none is in two chunks.                                     *)
ChunksTile ==
  /\ \A i, j \in 1 .. Len(chunks) :
       i # j => End(chunks[i]) <= chunks[j].at \/ End(chunks[j]) <= chunks[i].at
  /\ \A u \in 0 .. UNITS - 1 :
       (\E i \in 1 .. Len(chunks) : Covers(chunks[i], u))
         <=> (\E p \in HeapPages : p <= u /\ u < p + PAGE)

(* A block lies in a chunk that is not free, or is a block of a class with *)
(* its bit cleared, and fits there; each of those holds one block.         *)
InChunk(b, i) == chunks[i].free = 0 /\ b.at = Data(chunks[i]) /\ b.size <= chunks[i].size
InClass(b, c) == b.at \in ClassBlocks(c) \ marked /\ b.size <= c

BlocksAreBacked ==
  /\ \A b \in live : \/ \E i \in 1 .. Len(chunks) : InChunk(b, i)
                     \/ \E c \in Classes : InClass(b, c)
  /\ \A i \in 1 .. Len(chunks) : chunks[i].free = 0 => \E b \in live : InChunk(b, i)
  /\ \A c \in Classes : \A a \in ClassBlocks(c) \ marked : \E b \in live : b.at = a

(* The list of a class holds each of its blocks whose bit is 1 exactly     *)
(* once, however often a block is freed (mm.c:44-49).                      *)
ClassListsExact ==
  \A c \in Classes :
    /\ \A j, k \in 1 .. Len(class_free[c]) : class_free[c][j] = class_free[c][k] => j = k
    /\ {class_free[c][k] : k \in 1 .. Len(class_free[c])} = marked \cap ClassBlocks(c)

(* Free chunks that are neighbours in the list and in memory are one       *)
(* chunk, except where heap_add_large_chunk appended.                      *)
FreeNeighboursMerged ==
  \A i \in 1 .. Len(chunks) : Touches(chunks, i) => chunks[i + 1].at \in seams

(* Where what is not free begins and ends: the data of chunks, and blocks  *)
(* of classes.                                                             *)
Lent ==
  {<<Data(chunks[i]), End(chunks[i])>> : i \in {j \in 1 .. Len(chunks) : chunks[j].free = 0}}
  \cup UNION {{<<a, a + c>> : a \in ClassBlocks(c) \ marked} : c \in Classes}

(* heap_used_size is the memory in chunks and class blocks that are not    *)
(* free, each unit of it counted once: the guard in free never bites and   *)
(* nothing wraps below zero.                                               *)
UsedExact == used = Cardinality(UNION {r[1] .. r[2] - 1 : r \in Lent})

(* No block is handed out over another, and free takes back only what it   *)
(* is asked to, double frees of class blocks and reallocs included.        *)
HA == INSTANCE HeapAllocator

ImplementsHeapAllocator == HA!Spec

(* mm_heap_preseed does what mm.h:25 says: the pages are there for         *)
(* allocations to come.                                                    *)
PreseedServes ==
  \A p \in seeded : \A u \in p .. p + PAGE - 1 :
    \E i \in 1 .. Len(chunks) : Covers(chunks[i], u)
=============================================================================
