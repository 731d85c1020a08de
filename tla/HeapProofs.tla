----------------------------- MODULE HeapProofs -----------------------------
(***************************************************************************)
(* Proofs about the kernel heap, for any memory, header, classes and       *)
(* number of threads: the chunks tile the pages of the heap, every block   *)
(* handed out has its own chunk or class block, so the heap implements     *)
(* HeapAllocator, and heap_used_size counts exactly what is lent.          *)
(***************************************************************************)
EXTENDS Heap, SequenceTheorems, FiniteSetTheorems, TLAPS

----------------------------------------------------------------------------
(* Pages, runs of pages and blocks of a page.                              *)

LEMMA PagesApart ==
  /\ \A p \in Pages : p \in Int /\ 0 <= p /\ p + PAGE <= UNITS
  /\ \A p, q \in Pages : p # q => p + PAGE <= q \/ q + PAGE <= p
<1>1. ASSUME NEW j \in 0 .. PAGES - 1, NEW k \in 0 .. PAGES - 1, j < k
      PROVE  j * PAGE + PAGE <= k * PAGE
  <2>1. k - j - 1 \in Nat /\ PAGE \in Nat
    BY <1>1, HeapAssumption
  <2>2. (k - j - 1) * PAGE >= 0
    BY <2>1
  <2>. QED  BY <1>1, <2>1, <2>2, HeapAssumption
<1>2. ASSUME NEW j \in 0 .. PAGES - 1
      PROVE  j * PAGE \in Int /\ 0 <= j * PAGE /\ j * PAGE + PAGE <= PAGES * PAGE
  <2>1. PAGES - j - 1 \in Nat /\ PAGE \in Nat /\ j \in Nat
    BY <1>2, HeapAssumption
  <2>2. (PAGES - j - 1) * PAGE >= 0 /\ j * PAGE >= 0
    BY <2>1
  <2>. QED  BY <2>1, <2>2, HeapAssumption
<1>3. \A p \in Pages : p \in Int /\ 0 <= p /\ p + PAGE <= UNITS
  BY <1>2 DEF Pages, UNITS
<1>4. ASSUME NEW p \in Pages, NEW q \in Pages, p # q
      PROVE  p + PAGE <= q \/ q + PAGE <= p
  <2>1. PICK j \in 0 .. PAGES - 1 : p = j * PAGE
    BY DEF Pages
  <2>2. PICK k \in 0 .. PAGES - 1 : q = k * PAGE
    BY DEF Pages
  <2>3. j < k \/ k < j
    BY <1>4, <2>1, <2>2
  <2>. QED  BY <1>1, <2>1, <2>2, <2>3
<1>. QED  BY <1>3, <1>4

LEMMA RunCovers ==
  ASSUME NEW p \in Int, NEW n \in Nat, NEW u \in Int
  PROVE  (\E q \in Run(p, n) : q <= u /\ u < q + PAGE) <=> (p <= u /\ u < p + n * PAGE)
<1>0. PAGE \in Nat /\ PAGE > 0
  BY HeapAssumption
<1>1. ASSUME NEW k \in 0 .. n - 1, p + k * PAGE <= u, u < p + k * PAGE + PAGE
      PROVE  p <= u /\ u < p + n * PAGE
  <2>1. k * PAGE >= 0 /\ (n - k - 1) * PAGE >= 0
    BY <1>0
  <2>. QED  BY <1>0, <1>1, <2>1
<1>2. ASSUME p <= u, u < p + n * PAGE
      PROVE  \E k \in 0 .. n - 1 : p + k * PAGE <= u /\ u < p + k * PAGE + PAGE
  <2>. DEFINE d == u - p
              k == d \div PAGE
  <2>1. d \in Nat /\ d < n * PAGE /\ u = p + d
    BY <1>0, <1>2
  <2>. HIDE DEF d
  <2>2. k \in Nat /\ k * PAGE <= d /\ d < k * PAGE + PAGE
    BY <1>0, <2>1
  <2>. HIDE DEF k
  <2>3. ASSUME n <= k PROVE FALSE
    <3>1. (k - n) * PAGE >= 0
      BY <1>0, <2>2, <2>3
    <3>. QED  BY <1>0, <2>1, <2>2, <3>1
  <2>4. k \in 0 .. n - 1
    BY <2>2, <2>3
  <2>. QED  BY <1>0, <2>1, <2>2, <2>4
<1>. QED  BY <1>1, <1>2 DEF Run

LEMMA RunFits ==
  ASSUME NEW p \in Int, NEW size \in Nat \ {0}, Run(p, RunLength(size)) \subseteq Pages
  PROVE  LET n == RunLength(size)
         IN  /\ n \in Nat \ {0} /\ n * PAGE \in Nat /\ n * PAGE >= PAGE
             /\ p \in Pages /\ p + n * PAGE <= UNITS
<1>. DEFINE n == RunLength(size)
<1>0. PAGE \in Nat /\ PAGE > 0 /\ HEADER \in Nat \ {0}
  BY HeapAssumption
<1>1. n \in Nat \ {0}
  BY <1>0 DEF RunLength
<1>. HIDE DEF n
<1>2. n * PAGE \in Nat /\ n * PAGE = (n - 1) * PAGE + PAGE /\ (n - 1) * PAGE >= 0
  BY <1>0, <1>1
<1>3. p + 0 * PAGE \in Run(p, n) /\ p + (n - 1) * PAGE \in Run(p, n)
  BY <1>1 DEF Run
<1>4. p + 0 * PAGE \in Pages /\ p + (n - 1) * PAGE \in Pages
  BY <1>3 DEF n
<1>5. p \in Pages
  BY <1>0, <1>4
<1>. QED  BY <1>0, <1>1, <1>2, <1>4, <1>5, PagesApart DEF n

LEMMA PerPage ==
  ASSUME NEW c \in Classes
  PROVE  /\ c \in Nat \ {0} /\ PAGE \div c \in Nat \ {0}
         /\ \A k \in 0 .. (PAGE \div c) - 1 : k * c >= 0 /\ k * c + c <= PAGE
         /\ \A j, k \in Nat : j < k => j * c + c <= k * c
<1>0. c \in Nat \ {0} /\ c <= PAGE /\ PAGE \in Nat
  BY HeapAssumption
<1>1. PAGE \div c \in Int /\ (PAGE \div c) * c <= PAGE /\ PAGE < (PAGE \div c) * c + c
  BY <1>0
<1>. DEFINE n == PAGE \div c
<1>. HIDE DEF n
<1>2. n \in Nat \ {0}
  BY <1>0, <1>1 DEF n
<1>3. ASSUME NEW j \in Nat, NEW k \in Nat, j < k PROVE j * c + c <= k * c
  <2>1. (k - j - 1) * c >= 0
    BY <1>0, <1>3
  <2>. QED  BY <1>0, <1>3, <2>1
<1>4. ASSUME NEW k \in 0 .. n - 1 PROVE k * c >= 0 /\ k * c + c <= PAGE
  <2>1. n * c <= PAGE
    BY <1>1 DEF n
  <2>2. k * c + c <= n * c /\ k * c >= 0
    BY <1>0, <1>2, <1>3
  <2>. QED  BY <1>0, <1>2, <2>1, <2>2
<1>. QED  BY <1>0, <1>2, <1>3, <1>4 DEF n

LEMMA BlocksInPage ==
  ASSUME NEW c \in Classes, NEW p \in Int
  PROVE  /\ p \in BlocksOf(c, p)
         /\ \A a \in BlocksOf(c, p) : a \in Int /\ p <= a /\ a + c <= p + PAGE
         /\ \A a, b \in BlocksOf(c, p) : a # b => a + c <= b \/ b + c <= a
<1>1. p = p + 0 * c /\ 0 \in 0 .. (PAGE \div c) - 1
  BY PerPage
<1>2. p \in BlocksOf(c, p)
  BY <1>1 DEF BlocksOf
<1>3. ASSUME NEW a \in BlocksOf(c, p) PROVE a \in Int /\ p <= a /\ a + c <= p + PAGE
  <2>1. PICK k \in 0 .. (PAGE \div c) - 1 : a = p + k * c
    BY DEF BlocksOf
  <2>. QED  BY <2>1, PerPage, HeapAssumption
<1>4. ASSUME NEW a \in BlocksOf(c, p), NEW b \in BlocksOf(c, p), a # b
      PROVE  a + c <= b \/ b + c <= a
  <2>1. PICK j \in 0 .. (PAGE \div c) - 1 : a = p + j * c
    BY DEF BlocksOf
  <2>2. PICK k \in 0 .. (PAGE \div c) - 1 : b = p + k * c
    BY DEF BlocksOf
  <2>3. j \in Nat /\ k \in Nat /\ (j < k \/ k < j) /\ c \in Nat
    BY <1>4, <2>1, <2>2, PerPage, SMTT(40)
  <2>4. j * c \in Nat /\ k * c \in Nat
    BY <2>3
  <2>5. j * c + c <= k * c \/ k * c + c <= j * c
    BY <2>3, PerPage
  <2>. QED  BY <2>1, <2>2, <2>3, <2>4, <2>5
<1>. QED  BY <1>2, <1>3, <1>4

----------------------------------------------------------------------------
(* Lists of chunks.  Sound: the chunks are in memory and no two overlap.   *)
(* Tidy: but for the places in K, free neighbours that touch do so at an   *)
(* address in X.                                                           *)

ChunkSet == [at : Nat, size : Nat \ {0}, free : {0, 1}]

Apart(c, d) == End(c) <= d.at \/ End(d) <= c.at

Sound(s) ==
  /\ s \in Seq(ChunkSet)
  /\ \A i \in 1 .. Len(s) : End(s[i]) <= UNITS
  /\ \A i, j \in 1 .. Len(s) : i # j => Apart(s[i], s[j])

Covered(s, u) == \E i \in 1 .. Len(s) : Covers(s[i], u)

Held(s) == {s[i] : i \in {k \in 1 .. Len(s) : s[k].free = 0}}

Tidy(s, X, K) == \A k \in Int : Touches(s, k) /\ k \notin K => s[k + 1].at \in X

LEMMA SequenceOf ==
  ASSUME NEW S, NEW n \in Nat, NEW f \in [1 .. n -> S]
  PROVE  f \in Seq(S) /\ Len(f) = n
<1>1. f \in Seq(S)
  BY SeqDef
<1>2. Len(f) \in Nat /\ DOMAIN f = 1 .. Len(f)
  BY <1>1, LenProperties
<1>3. 1 .. n = 1 .. Len(f)
  BY <1>2
<1>4. Len(f) = n
  BY <1>2, <1>3
<1>. QED  BY <1>1, <1>4

LEMMA ChunkFields ==
  ASSUME NEW c \in ChunkSet
  PROVE  /\ c.at \in Nat /\ c.size \in Nat \ {0} /\ c.free \in {0, 1}
         /\ Data(c) = c.at + HEADER /\ End(c) = c.at + HEADER + c.size
         /\ Data(c) \in Nat /\ End(c) \in Nat /\ c.at < Data(c) /\ Data(c) < End(c)
BY HeapAssumption DEF ChunkSet, Data, End

LEMMA NewChunk ==
  ASSUME NEW at \in Nat, NEW size \in Nat \ {0}, NEW free \in {0, 1}
  PROVE  LET c == Chunk(at, size, free)
         IN  /\ c \in ChunkSet /\ c.at = at /\ c.size = size /\ c.free = free
             /\ Data(c) = at + HEADER /\ End(c) = at + HEADER + size
BY DEF ChunkSet, Chunk, Data, End

(* Chunks that do not overlap share no unit, and the other way round.      *)
LEMMA ApartFromUnits ==
  ASSUME NEW c \in ChunkSet, NEW x \in Int, NEW y \in Int, x < y,
         \A u \in Int : ~(Covers(c, u) /\ x <= u /\ u < y)
  PROVE  End(c) <= x \/ y <= c.at
<1>1. c.at \in Int /\ End(c) \in Int /\ c.at < End(c)
  BY ChunkFields
<1>2. CASE c.at <= x
  <2>1. ~(c.at <= x /\ x < End(c) /\ x <= x /\ x < y)
    BY DEF Covers
  <2>. QED  BY <1>1, <1>2, <2>1
<1>3. CASE x < c.at
  <2>1. ~(c.at <= c.at /\ c.at < End(c) /\ x <= c.at /\ c.at < y)
    BY <1>1 DEF Covers
  <2>. QED  BY <1>1, <1>3, <2>1
<1>. QED  BY <1>1, <1>2, <1>3

LEMMA ListItem ==
  ASSUME NEW s \in Seq(ChunkSet)
  PROVE  /\ Len(s) \in Nat
         /\ \A i \in 1 .. Len(s) :
              /\ s[i] \in ChunkSet
              /\ s[i].at \in Nat /\ s[i].size \in Nat \ {0} /\ s[i].free \in {0, 1}
              /\ Data(s[i]) = s[i].at + HEADER /\ End(s[i]) = s[i].at + HEADER + s[i].size
              /\ s[i].at < Data(s[i]) /\ Data(s[i]) < End(s[i])
<1>1. Len(s) \in Nat
  BY LenProperties
<1>2. \A i \in 1 .. Len(s) : s[i] \in ChunkSet
  BY ElementOfSeq
<1>. QED  BY <1>1, <1>2, ChunkFields

LEMMA MergeShape ==
  ASSUME NEW s, Sound(s), NEW i \in Int, Touches(s, i)
  PROVE  LET m == Merge(s, i)
         IN  /\ m \in Seq(ChunkSet) /\ Len(m) = Len(s) - 1
             /\ \A k \in 1 .. i - 1 : m[k] = s[k]
             /\ m[i].at = s[i].at /\ m[i].free = 1 /\ End(m[i]) = End(s[i + 1])
             /\ \A k \in i + 1 .. Len(s) - 1 : m[k] = s[k + 1]
<1>. DEFINE c == Chunk(s[i].at, s[i].size + HEADER + s[i + 1].size, 1)
            m == Merge(s, i)
            n == Len(s) - 1
<1>1. /\ s \in Seq(ChunkSet) /\ Len(s) \in Nat /\ i \in 1 .. Len(s) - 1
      /\ End(s[i]) = s[i + 1].at
  BY ListItem DEF Sound, Touches
<1>2. /\ s[i].at \in Nat /\ s[i].size \in Nat \ {0} /\ s[i + 1].size \in Nat \ {0}
      /\ End(s[i + 1]) = s[i + 1].at + HEADER + s[i + 1].size
      /\ End(s[i]) = s[i].at + HEADER + s[i].size
  BY <1>1, ListItem
<1>3. c \in ChunkSet /\ c.at = s[i].at /\ c.free = 1 /\ End(c) = End(s[i + 1])
  <2>1. s[i].size + HEADER + s[i + 1].size \in Nat \ {0}
    BY <1>2, HeapAssumption
  <2>2. /\ c \in ChunkSet /\ c.at = s[i].at /\ c.free = 1
        /\ End(c) = s[i].at + HEADER + (s[i].size + HEADER + s[i + 1].size)
    BY <1>2, <2>1, NewChunk
  <2>. QED  BY <1>1, <1>2, <2>2, HeapAssumption
<1>4. m = [k \in 1 .. n |-> IF k < i THEN s[k] ELSE IF k = i THEN c ELSE s[k + 1]]
  BY DEF Merge
<1>. HIDE DEF c, m
<1>5. m \in [1 .. n -> ChunkSet]
  <2>1. ASSUME NEW k \in 1 .. n
        PROVE  (IF k < i THEN s[k] ELSE IF k = i THEN c ELSE s[k + 1]) \in ChunkSet
    BY <1>1, <1>3, ListItem
  <2>. QED  BY <1>4, <2>1
<1>6. m \in Seq(ChunkSet) /\ Len(m) = n
  BY <1>1, <1>5, SequenceOf
<1>. QED  BY <1>1, <1>3, <1>4, <1>6 DEF m

LEMMA MergeKeeps ==
  ASSUME NEW s, Sound(s), NEW i \in Int
  PROVE  LET m == Merge(s, i)
         IN  /\ Sound(m)
             /\ \A u \in Int : Covered(m, u) <=> Covered(s, u)
             /\ Held(m) = Held(s)
             /\ \A X, K : Tidy(s, X, K \cup {i}) /\ (\A k \in K : k < i) => Tidy(m, X, K)
<1>. DEFINE m == Merge(s, i)
<1>1. CASE ~Touches(s, i)
  <2>1. m = s
    BY <1>1 DEF Merge
  <2>2. \A X, K : Tidy(s, X, K \cup {i}) => Tidy(s, X, K)
    BY <1>1 DEF Tidy
  <2>. QED  BY <2>1, <2>2
<1>2. CASE Touches(s, i)
  <2>1. /\ s \in Seq(ChunkSet) /\ Len(s) \in Nat /\ i \in 1 .. Len(s) - 1
        /\ End(s[i]) = s[i + 1].at /\ s[i].free = 1 /\ s[i + 1].free = 1
    BY <1>2, ListItem DEF Sound, Touches
  <2>2. /\ m \in Seq(ChunkSet) /\ Len(m) = Len(s) - 1
        /\ \A k \in 1 .. i - 1 : m[k] = s[k]
        /\ m[i].at = s[i].at /\ m[i].free = 1 /\ End(m[i]) = End(s[i + 1])
        /\ \A k \in i + 1 .. Len(s) - 1 : m[k] = s[k + 1]
    BY <1>2, MergeShape
  <2>. HIDE DEF m
  <2>3. \A k \in 1 .. Len(s) : /\ s[k].at \in Nat /\ End(s[k]) \in Nat
                               /\ s[k].at < End(s[k]) /\ End(s[k]) <= UNITS
    <3>1. ASSUME NEW k \in 1 .. Len(s)
          PROVE  /\ s[k].at \in Nat /\ End(s[k]) \in Int /\ s[k].at < End(s[k])
                 /\ End(s[k]) <= UNITS
      <4>1. s[k] \in ChunkSet /\ End(s[k]) <= UNITS
        BY <2>1, ListItem DEF Sound
      <4>. QED  BY <4>1, ChunkFields
    <3>. QED  BY <3>1
  <2>4. \A j, k \in 1 .. Len(s) : j # k => End(s[j]) <= s[k].at \/ End(s[k]) <= s[j].at
    BY DEF Sound, Apart
  <2>5. Sound(m)
    <3>1. ASSUME NEW k \in 1 .. Len(m) PROVE End(m[k]) <= UNITS
      <4>1. CASE k < i
        BY <2>1, <2>2, <2>3, <4>1
      <4>2. CASE k = i
        BY <2>1, <2>2, <2>3, <4>2
      <4>3. CASE k > i
        BY <2>1, <2>2, <2>3, <4>3
      <4>. QED  BY <2>1, <4>1, <4>2, <4>3
    <3>2. ASSUME NEW j \in 1 .. Len(m), NEW k \in 1 .. Len(m), j < k
          PROVE  End(m[j]) <= m[k].at \/ End(m[k]) <= m[j].at
      <4>1. CASE j # i /\ k # i
        <5>1. /\ m[j] = s[IF j < i THEN j ELSE j + 1]
              /\ m[k] = s[IF k < i THEN k ELSE k + 1]
          BY <2>1, <2>2, <3>2, <4>1
        <5>2. /\ (IF j < i THEN j ELSE j + 1) \in 1 .. Len(s)
              /\ (IF k < i THEN k ELSE k + 1) \in 1 .. Len(s)
              /\ (IF j < i THEN j ELSE j + 1) # (IF k < i THEN k ELSE k + 1)
          BY <2>1, <2>2, <3>2, <4>1
        <5>. QED  BY <2>4, <5>1, <5>2
      <4>2. CASE j = i
        <5>1. k + 1 \in 1 .. Len(s) /\ m[k] = s[k + 1] /\ k + 1 # i /\ k + 1 # i + 1
          BY <2>1, <2>2, <3>2, <4>2, SMTT(40)
        <5>2. /\ End(s[i]) <= s[k + 1].at \/ End(s[k + 1]) <= s[i].at
              /\ End(s[i + 1]) <= s[k + 1].at \/ End(s[k + 1]) <= s[i + 1].at
          BY <2>1, <2>4, <5>1
        <5>. QED  BY <2>1, <2>2, <2>3, <4>2, <5>1, <5>2
      <4>3. CASE k = i
        <5>1. j \in 1 .. Len(s) /\ m[j] = s[j] /\ j # i /\ j # i + 1
          BY <2>1, <2>2, <3>2, <4>3
        <5>2. /\ End(s[i]) <= s[j].at \/ End(s[j]) <= s[i].at
              /\ End(s[i + 1]) <= s[j].at \/ End(s[j]) <= s[i + 1].at
          BY <2>1, <2>4, <5>1
        <5>. QED  BY <2>1, <2>2, <2>3, <4>3, <5>1, <5>2, SMTT(40)
      <4>. QED  BY <4>1, <4>2, <4>3
    <3>3. ASSUME NEW j \in 1 .. Len(m), NEW k \in 1 .. Len(m), j # k
          PROVE  Apart(m[j], m[k])
      <4>1. j < k \/ k < j
        BY <2>1, <2>2, <3>3
      <4>. QED  BY <3>2, <4>1 DEF Apart
    <3>. QED  BY <2>2, <3>1, <3>3 DEF Sound
  <2>6. ASSUME NEW u \in Int PROVE Covered(m, u) <=> Covered(s, u)
    <3>1. ASSUME NEW k \in 1 .. Len(m), Covers(m[k], u) PROVE Covered(s, u)
      <4>1. CASE k < i
        <5>1. k \in 1 .. Len(s) /\ m[k] = s[k]
          BY <2>1, <2>2, <4>1
        <5>. QED  BY <3>1, <5>1 DEF Covered
      <4>2. CASE k > i
        <5>1. k + 1 \in 1 .. Len(s) /\ m[k] = s[k + 1]
          BY <2>1, <2>2, <4>2
        <5>. QED  BY <3>1, <5>1 DEF Covered
      <4>3. CASE k = i
        <5>1. Covers(s[i], u) \/ Covers(s[i + 1], u)
          BY <2>1, <2>2, <2>3, <3>1, <4>3 DEF Covers
        <5>. QED  BY <2>1, <5>1 DEF Covered
      <4>. QED  BY <2>1, <4>1, <4>2, <4>3
    <3>2. ASSUME NEW k \in 1 .. Len(s), Covers(s[k], u) PROVE Covered(m, u)
      <4>1. CASE k < i
        <5>1. k \in 1 .. Len(m) /\ m[k] = s[k]
          BY <2>1, <2>2, <4>1
        <5>. QED  BY <3>2, <5>1 DEF Covered
      <4>2. CASE k > i + 1
        <5>1. k - 1 \in 1 .. Len(m) /\ m[k - 1] = s[k]
          BY <2>1, <2>2, <4>2
        <5>. QED  BY <3>2, <5>1 DEF Covered
      <4>3. CASE k = i \/ k = i + 1
        <5>1. Covers(m[i], u) /\ i \in 1 .. Len(m)
          BY <2>1, <2>2, <2>3, <3>2, <4>3 DEF Covers
        <5>. QED  BY <5>1 DEF Covered
      <4>. QED  BY <2>1, <4>1, <4>2, <4>3
    <3>. QED  BY <3>1, <3>2 DEF Covered
  <2>7. Held(m) = Held(s)
    <3>1. ASSUME NEW k \in 1 .. Len(m), m[k].free = 0 PROVE m[k] \in Held(s)
      <4>1. k # i
        BY <2>2, <3>1
      <4>2. CASE k < i
        <5>1. k \in 1 .. Len(s) /\ m[k] = s[k]
          BY <2>1, <2>2, <4>2
        <5>. QED  BY <3>1, <5>1 DEF Held
      <4>3. CASE k > i
        <5>1. k + 1 \in 1 .. Len(s) /\ m[k] = s[k + 1]
          BY <2>1, <2>2, <4>3
        <5>. QED  BY <3>1, <5>1 DEF Held
      <4>. QED  BY <2>1, <4>1, <4>2, <4>3
    <3>2. ASSUME NEW k \in 1 .. Len(s), s[k].free = 0 PROVE s[k] \in Held(m)
      <4>1. k # i /\ k # i + 1
        BY <2>1, <3>2
      <4>2. CASE k < i
        BY <2>1, <2>2, <3>2, <4>2 DEF Held
      <4>3. CASE k > i + 1
        <5>1. k - 1 \in 1 .. Len(m) /\ m[k - 1] = s[k]
          BY <2>1, <2>2, <4>3
        <5>. QED  BY <3>2, <5>1 DEF Held
      <4>. QED  BY <2>1, <4>1, <4>2, <4>3
    <3>. QED  BY <3>1, <3>2 DEF Held
  <2>8. ASSUME NEW X, NEW K, Tidy(s, X, K \cup {i}), \A k \in K : k < i,
               NEW k \in Int, Touches(m, k), k \notin K
        PROVE  m[k + 1].at \in X
    <3>0. /\ k \in 1 .. Len(m) - 1 /\ m[k].free = 1 /\ m[k + 1].free = 1
          /\ End(m[k]) = m[k + 1].at
      BY <2>8 DEF Touches
    <3>1. CASE k < i
      <4>1. /\ k + 1 \in 1 .. Len(s) /\ m[k] = s[k]
            /\ m[k + 1].at = s[k + 1].at /\ s[k + 1].free = 1
        BY <2>1, <2>2, <3>0, <3>1
      <4>2. Touches(s, k) /\ k # i
        BY <2>1, <2>2, <3>0, <3>1, <4>1 DEF Touches
      <4>. QED  BY <2>8, <4>1, <4>2 DEF Tidy
    <3>2. CASE k >= i
      <4>1. /\ k + 1 \in 1 .. Len(s) - 1 /\ m[k + 1] = s[k + 2]
            /\ End(m[k]) = End(s[k + 1]) /\ s[k + 1].free = 1
        BY <2>1, <2>2, <3>0, <3>2
      <4>2. Touches(s, k + 1) /\ k + 1 # i /\ k + 1 \notin K /\ k + 1 + 1 = k + 2
        BY <2>1, <2>8, <3>0, <3>2, <4>1 DEF Touches
      <4>. QED  BY <2>8, <4>1, <4>2 DEF Tidy
    <3>. QED  BY <2>1, <3>1, <3>2
  <2>9. \A X, K : Tidy(s, X, K \cup {i}) /\ (\A k \in K : k < i) => Tidy(m, X, K)
    BY <2>8 DEF Tidy
  <2>. QED  BY <2>5, <2>6, <2>7, <2>9 DEF m
<1>. QED  BY <1>1, <1>2

LEMMA SetFreeShape ==
  ASSUME NEW s \in Seq(ChunkSet), NEW i \in 1 .. Len(s), NEW f \in {0, 1}
  PROVE  LET m == SetFree(s, i, f)
         IN  /\ m \in Seq(ChunkSet) /\ Len(m) = Len(s)
             /\ \A k \in 1 .. Len(s) : k # i => m[k] = s[k]
             /\ m[i].at = s[i].at /\ m[i].size = s[i].size /\ m[i].free = f
             /\ End(m[i]) = End(s[i])
<1>. DEFINE e == [s[i] EXCEPT !.free = f]
            m == SetFree(s, i, f)
<1>1. s[i] \in ChunkSet
  BY ListItem
<1>2. e \in ChunkSet /\ e.at = s[i].at /\ e.size = s[i].size /\ e.free = f
  BY <1>1 DEF ChunkSet
<1>3. m = [s EXCEPT ![i] = e]
  BY DEF SetFree
<1>. HIDE DEF e, m
<1>4. /\ m \in Seq(ChunkSet) /\ Len(m) = Len(s)
      /\ \A k \in 1 .. Len(s) : m[k] = IF k = i THEN e ELSE s[k]
  BY <1>2, <1>3, ExceptSeq
<1>. QED  BY <1>2, <1>4 DEF m, End

(* Two lists whose chunks lie in the same places.                          *)
LEMMA SamePlaces ==
  ASSUME NEW s, Sound(s), NEW m \in Seq(ChunkSet), Len(m) = Len(s),
         \A k \in 1 .. Len(s) : m[k].at = s[k].at /\ End(m[k]) = End(s[k])
  PROVE  Sound(m) /\ \A u \in Int : Covered(m, u) <=> Covered(s, u)
BY DEF Sound, Apart, Covered, Covers

LEMMA SetFreeKeeps ==
  ASSUME NEW s, Sound(s), NEW i \in 1 .. Len(s), s[i].free = 0
  PROVE  LET m == SetFree(s, i, 1)
         IN  /\ Sound(m)
             /\ \A u \in Int : Covered(m, u) <=> Covered(s, u)
             /\ Held(m) = Held(s) \ {s[i]}
             /\ \A X : Tidy(s, X, {}) => Tidy(m, X, {i - 1, i})
<1>. DEFINE m == SetFree(s, i, 1)
<1>1. s \in Seq(ChunkSet) /\ Len(s) \in Nat
  BY ListItem DEF Sound
<1>2. /\ m \in Seq(ChunkSet) /\ Len(m) = Len(s)
      /\ \A k \in 1 .. Len(s) : k # i => m[k] = s[k]
      /\ m[i].at = s[i].at /\ m[i].size = s[i].size /\ m[i].free = 1
      /\ End(m[i]) = End(s[i])
  BY <1>1, SetFreeShape
<1>. HIDE DEF m
<1>3. \A k \in 1 .. Len(s) : m[k].at = s[k].at /\ End(m[k]) = End(s[k])
  BY <1>2
<1>4. Sound(m) /\ \A u \in Int : Covered(m, u) <=> Covered(s, u)
  BY <1>2, <1>3, SamePlaces
<1>5. Held(m) = Held(s) \ {s[i]}
  <2>1. ASSUME NEW k \in 1 .. Len(m), m[k].free = 0
        PROVE  m[k] \in Held(s) /\ m[k] # s[i]
    <3>1. k # i /\ k \in 1 .. Len(s) /\ m[k] = s[k]
      BY <1>2, <2>1
    <3>2. Apart(s[k], s[i])
      BY <3>1 DEF Sound
    <3>3. s[k].at < End(s[k]) /\ s[k].at \in Int /\ End(s[k]) \in Int
      BY <1>1, <3>1, ChunkFields, ElementOfSeq, SMTT(40)
    <3>4. s[k] # s[i]
      BY <3>2, <3>3 DEF Apart
    <3>. QED  BY <2>1, <3>1, <3>4 DEF Held
  <2>2. ASSUME NEW k \in 1 .. Len(s), s[k].free = 0, s[k] # s[i]
        PROVE  s[k] \in Held(m)
    <3>1. k \in 1 .. Len(m) /\ m[k] = s[k]
      BY <1>2, <2>2
    <3>. QED  BY <2>2, <3>1 DEF Held
  <2>. QED  BY <2>1, <2>2 DEF Held
<1>6. ASSUME NEW X, Tidy(s, X, {}), NEW k \in Int, Touches(m, k), k \notin {i - 1, i}
      PROVE  m[k + 1].at \in X
  <2>1. /\ k \in 1 .. Len(s) - 1 /\ m[k] = s[k] /\ m[k + 1] = s[k + 1]
    BY <1>1, <1>2, <1>6 DEF Touches
  <2>2. Touches(s, k)
    BY <1>6, <2>1 DEF Touches
  <2>. QED  BY <1>6, <2>1, <2>2 DEF Tidy
<1>7. \A X : Tidy(s, X, {}) => Tidy(m, X, {i - 1, i})
  BY <1>6 DEF Tidy
<1>. QED  BY <1>4, <1>5, <1>7 DEF m

(* free of a chunk: the list covers what it did, and holds one chunk less. *)
LEMMA FreeKeeps ==
  ASSUME NEW s, Sound(s), NEW i \in 1 .. Len(s), s[i].free = 0
  PROVE  LET m == Coalesce(SetFree(s, i, 1), i)
         IN  /\ Sound(m)
             /\ \A u \in Int : Covered(m, u) <=> Covered(s, u)
             /\ Held(m) = Held(s) \ {s[i]}
             /\ \A X : Tidy(s, X, {}) => Tidy(m, X, {})
<1>. DEFINE r == SetFree(s, i, 1)
            q == Merge(r, i)
            m == Merge(q, i - 1)
<1>0. i \in Int /\ i - 1 \in Int
  OBVIOUS
<1>1. /\ Sound(r)
      /\ \A u \in Int : Covered(r, u) <=> Covered(s, u)
      /\ Held(r) = Held(s) \ {s[i]}
      /\ \A X : Tidy(s, X, {}) => Tidy(r, X, {i - 1, i})
  BY SetFreeKeeps
<1>. HIDE DEF r
<1>2. /\ Sound(q)
      /\ \A u \in Int : Covered(q, u) <=> Covered(r, u)
      /\ Held(q) = Held(r)
      /\ \A X, K : Tidy(r, X, K \cup {i}) /\ (\A k \in K : k < i) => Tidy(q, X, K)
  BY <1>0, <1>1, MergeKeeps
<1>. HIDE DEF q
<1>3. /\ Sound(m)
      /\ \A u \in Int : Covered(m, u) <=> Covered(q, u)
      /\ Held(m) = Held(q)
      /\ \A X, K : Tidy(q, X, K \cup {i - 1}) /\ (\A k \in K : k < i - 1) => Tidy(m, X, K)
  BY <1>0, <1>2, MergeKeeps
<1>4. m = Coalesce(r, i)
  BY DEF Coalesce, q
<1>. HIDE DEF m
<1>5. ASSUME NEW X, Tidy(s, X, {}) PROVE Tidy(m, X, {})
  <2>1. {i - 1, i} = {i - 1} \cup {i} /\ {i - 1} = {} \cup {i - 1}
    OBVIOUS
  <2>2. Tidy(r, X, {i - 1} \cup {i})
    BY <1>1, <1>5, <2>1
  <2>3. \A k \in {i - 1} : k < i
    BY <1>0
  <2>4. Tidy(q, X, {i - 1})
    BY <1>2, <2>2, <2>3
  <2>. QED  BY <1>3, <2>1, <2>4
<1>6. /\ Sound(m)
      /\ \A u \in Int : Covered(m, u) <=> Covered(s, u)
      /\ Held(m) = Held(s) \ {s[i]}
  BY <1>1, <1>2, <1>3
<1>. QED  BY <1>4, <1>5, <1>6 DEF r

LEMMA SplitShape ==
  ASSUME NEW s \in Seq(ChunkSet), NEW i \in 1 .. Len(s), NEW size \in Nat \ {0},
         s[i].size >= size, s[i].size - size >= HEADER + TAIL
  PROVE  LET m == Split(s, i, size)
         IN  /\ m \in Seq(ChunkSet) /\ Len(m) = Len(s) + 1
             /\ \A k \in 1 .. i - 1 : m[k] = s[k]
             /\ m[i].at = s[i].at /\ m[i].size = size
             /\ m[i + 1].at = End(m[i]) /\ End(m[i + 1]) = End(s[i]) /\ m[i + 1].free = 1
             /\ \A k \in i + 2 .. Len(s) + 1 : m[k] = s[k - 1]
<1>. DEFINE a == Chunk(s[i].at, size, s[i].free)
            b == Chunk(Data(s[i]) + size, s[i].size - size - HEADER, 1)
            m == Split(s, i, size)
            n == Len(s) + 1
<1>1. Len(s) \in Nat /\ s[i] \in ChunkSet
  BY ListItem
<1>2. /\ s[i].at \in Nat /\ s[i].size \in Nat /\ s[i].free \in {0, 1}
      /\ Data(s[i]) = s[i].at + HEADER /\ End(s[i]) = s[i].at + HEADER + s[i].size
  BY <1>1, ChunkFields
<1>3. a \in ChunkSet /\ a.at = s[i].at /\ a.size = size /\ End(a) = s[i].at + HEADER + size
  BY <1>2, NewChunk
<1>4. /\ b \in ChunkSet /\ b.at = s[i].at + HEADER + size /\ b.free = 1
      /\ End(b) = End(s[i])
  <2>1. Data(s[i]) + size \in Nat /\ s[i].size - size - HEADER \in Nat \ {0}
    BY <1>2, HeapAssumption, SMTT(40)
  <2>2. /\ b \in ChunkSet /\ b.at = Data(s[i]) + size /\ b.free = 1
        /\ End(b) = Data(s[i]) + size + HEADER + (s[i].size - size - HEADER)
    BY <2>1, NewChunk
  <2>. QED  BY <1>2, <2>2, HeapAssumption
<1>5. m = [k \in 1 .. n |-> IF k < i THEN s[k] ELSE IF k = i THEN a
                            ELSE IF k = i + 1 THEN b ELSE s[k - 1]]
  <2>1. ~(s[i].size - size < HEADER + TAIL)
    BY <1>2, HeapAssumption
  <2>. QED  BY <2>1 DEF Split
<1>. HIDE DEF a, b, m
<1>6. m \in [1 .. n -> ChunkSet]
  <2>1. ASSUME NEW k \in 1 .. n
        PROVE  (IF k < i THEN s[k] ELSE IF k = i THEN a
                ELSE IF k = i + 1 THEN b ELSE s[k - 1]) \in ChunkSet
    BY <1>1, <1>3, <1>4, ListItem
  <2>. QED  BY <1>5, <2>1
<1>7. m \in Seq(ChunkSet) /\ Len(m) = n
  BY <1>1, <1>6, SequenceOf
<1>8. /\ \A k \in 1 .. i - 1 : m[k] = s[k]
      /\ m[i] = a /\ m[i + 1] = b
      /\ \A k \in i + 2 .. n : m[k] = s[k - 1]
  BY <1>1, <1>5
<1>. QED  BY <1>3, <1>4, <1>7, <1>8 DEF m

Taken(s, i, size) == SetFree(Split(s, i, size), i, 0)

(* The two shapes of a list out of which a chunk is taken.                 *)
LEMMA TakenShape ==
  ASSUME NEW s \in Seq(ChunkSet), NEW i \in 1 .. Len(s), NEW size \in Nat \ {0},
         Fits(s, i, size)
  PROVE  LET m == Taken(s, i, size)
         IN  /\ m \in Seq(ChunkSet)
             /\ m[i].at = s[i].at /\ m[i].free = 0 /\ m[i].size >= size
             /\ m[i].size = Charged(s, i, size)
             /\ \/ /\ Len(m) = Len(s) /\ End(m[i]) = End(s[i])
                   /\ \A k \in 1 .. Len(s) : k # i => m[k] = s[k]
                \/ /\ Len(m) = Len(s) + 1
                   /\ \A k \in 1 .. i - 1 : m[k] = s[k]
                   /\ m[i + 1].at = End(m[i]) /\ End(m[i + 1]) = End(s[i])
                   /\ m[i + 1].free = 1
                   /\ \A k \in i + 2 .. Len(s) + 1 : m[k] = s[k - 1]
<1>. DEFINE q == Split(s, i, size)
            m == Taken(s, i, size)
<1>1. s[i].size \in Nat /\ s[i].size >= size /\ Len(s) \in Nat
  BY ListItem DEF Fits
<1>2. CASE s[i].size - size < HEADER + TAIL
  <2>1. q = s
    BY <1>2 DEF Split
  <2>. QED  BY <1>1, <2>1, SetFreeShape DEF Taken, Charged
<1>3. CASE s[i].size - size >= HEADER + TAIL
  <2>1. /\ q \in Seq(ChunkSet) /\ Len(q) = Len(s) + 1
        /\ \A k \in 1 .. i - 1 : q[k] = s[k]
        /\ q[i].at = s[i].at /\ q[i].size = size
        /\ q[i + 1].at = End(q[i]) /\ End(q[i + 1]) = End(s[i]) /\ q[i + 1].free = 1
        /\ \A k \in i + 2 .. Len(s) + 1 : q[k] = s[k - 1]
    BY <1>1, <1>3, SplitShape
  <2>. HIDE DEF q
  <2>2. m = SetFree(q, i, 0) /\ i \in 1 .. Len(q) /\ Charged(s, i, size) = q[i].size
    BY <1>1, <2>1 DEF Taken, Charged, q
  <2>. HIDE DEF m
  <2>3. /\ m \in Seq(ChunkSet) /\ Len(m) = Len(q)
        /\ \A k \in 1 .. Len(q) : k # i => m[k] = q[k]
        /\ m[i].at = q[i].at /\ m[i].size = q[i].size /\ m[i].free = 0
        /\ End(m[i]) = End(q[i])
    BY <2>1, <2>2, SetFreeShape
  <2>4. \A k \in 1 .. i - 1 : m[k] = s[k]
    BY <1>1, <2>1, <2>3
  <2>5. m[i + 1] = q[i + 1]
    BY <1>1, <2>1, <2>3
  <2>6. \A k \in i + 2 .. Len(s) + 1 : m[k] = s[k - 1]
    BY <1>1, <2>1, <2>3
  <2>7. /\ Len(m) = Len(s) + 1 /\ m[i].size = size /\ m[i].at = s[i].at
        /\ m[i + 1].at = End(m[i]) /\ End(m[i + 1]) = End(s[i]) /\ m[i + 1].free = 1
    BY <2>1, <2>3, <2>5
  <2>. QED  BY <2>2, <2>3, <2>4, <2>6, <2>7 DEF m
<1>. QED  BY <1>1, <1>2, <1>3, HeapAssumption, SMTT(40)

(* malloc's general path: the list covers what it did, and holds one chunk *)
(* more, large enough, where a free one was.                               *)
LEMMA TakenKeeps ==
  ASSUME NEW s, Sound(s), NEW i \in 1 .. Len(s), NEW size \in Nat \ {0},
         Fits(s, i, size)
  PROVE  LET m == Taken(s, i, size)
         IN  /\ Sound(m)
             /\ \A u \in Int : Covered(m, u) <=> Covered(s, u)
             /\ \E h \in ChunkSet : /\ h.at = s[i].at /\ h.free = 0 /\ h.size >= size
                                    /\ h.size = Charged(s, i, size)
                                    /\ Held(m) = Held(s) \cup {h}
             /\ \A X : Tidy(s, X, {}) => Tidy(m, X, {})
<1>. DEFINE m == Taken(s, i, size)
<1>0. s \in Seq(ChunkSet) /\ Len(s) \in Nat
  BY ListItem DEF Sound
<1>1. /\ m \in Seq(ChunkSet)
      /\ m[i].at = s[i].at /\ m[i].free = 0 /\ m[i].size >= size
      /\ m[i].size = Charged(s, i, size)
      /\ \/ /\ Len(m) = Len(s) /\ End(m[i]) = End(s[i])
            /\ \A k \in 1 .. Len(s) : k # i => m[k] = s[k]
         \/ /\ Len(m) = Len(s) + 1
            /\ \A k \in 1 .. i - 1 : m[k] = s[k]
            /\ m[i + 1].at = End(m[i]) /\ End(m[i + 1]) = End(s[i])
            /\ m[i + 1].free = 1
            /\ \A k \in i + 2 .. Len(s) + 1 : m[k] = s[k - 1]
  BY <1>0, TakenShape
<1>. HIDE DEF m
<1>2. /\ Len(m) \in Nat
      /\ \A k \in 1 .. Len(m) : m[k] \in ChunkSet
  BY <1>1, ListItem
<1>3. ASSUME NEW k \in 1 .. Len(s)
      PROVE  /\ s[k].at \in Nat /\ End(s[k]) \in Int /\ s[k].at < End(s[k])
             /\ End(s[k]) <= UNITS
  <2>1. s[k] \in ChunkSet /\ End(s[k]) <= UNITS
    BY <1>0, ListItem DEF Sound
  <2>. QED  BY <2>1, ChunkFields
<1>4. ASSUME NEW k \in 1 .. Len(m)
      PROVE  m[k].at \in Nat /\ End(m[k]) \in Int /\ m[k].at < End(m[k])
  BY <1>2, ChunkFields
<1>5. \A j, k \in 1 .. Len(s) : j # k => End(s[j]) <= s[k].at \/ End(s[k]) <= s[j].at
  BY DEF Sound, Apart
<1>6. s[i].free = 1
  BY DEF Fits
<1>7. CASE /\ Len(m) = Len(s) /\ End(m[i]) = End(s[i])
           /\ \A k \in 1 .. Len(s) : k # i => m[k] = s[k]
  <2>1. \A k \in 1 .. Len(s) : m[k].at = s[k].at /\ End(m[k]) = End(s[k])
    BY <1>1, <1>7
  <2>2. Sound(m) /\ \A u \in Int : Covered(m, u) <=> Covered(s, u)
    BY <1>1, <1>7, <2>1, SamePlaces
  <2>3. i \in 1 .. Len(m) /\ m[i] \in ChunkSet
    BY <1>2, <1>7
  <2>4. Held(m) = Held(s) \cup {m[i]}
    <3>1. ASSUME NEW k \in 1 .. Len(m), m[k].free = 0, k # i PROVE m[k] \in Held(s)
      <4>1. k \in 1 .. Len(s) /\ m[k] = s[k]
        BY <1>7, <3>1
      <4>. QED  BY <3>1, <4>1 DEF Held
    <3>2. ASSUME NEW k \in 1 .. Len(s), s[k].free = 0 PROVE s[k] \in Held(m)
      <4>1. k \in 1 .. Len(m) /\ m[k] = s[k]
        BY <1>6, <1>7, <3>2
      <4>. QED  BY <3>2, <4>1 DEF Held
    <3>3. m[i] \in Held(m)
      BY <1>1, <2>3 DEF Held
    <3>. QED  BY <3>1, <3>2, <3>3 DEF Held
  <2>5. ASSUME NEW X, Tidy(s, X, {}), NEW k \in Int, Touches(m, k)
        PROVE  m[k + 1].at \in X
    <3>1. /\ k \in 1 .. Len(s) - 1 /\ k # i /\ k + 1 # i
          /\ m[k] = s[k] /\ m[k + 1] = s[k + 1]
      BY <1>1, <1>7, <2>5 DEF Touches
    <3>2. Touches(s, k)
      BY <2>5, <3>1 DEF Touches
    <3>. QED  BY <2>5, <3>1, <3>2 DEF Tidy
  <2>6. \A X : Tidy(s, X, {}) => Tidy(m, X, {})
    BY <2>5 DEF Tidy
  <2>. QED  BY <1>1, <2>2, <2>3, <2>4, <2>6 DEF m
<1>8. CASE /\ Len(m) = Len(s) + 1
           /\ \A k \in 1 .. i - 1 : m[k] = s[k]
           /\ m[i + 1].at = End(m[i]) /\ End(m[i + 1]) = End(s[i])
           /\ m[i + 1].free = 1
           /\ \A k \in i + 2 .. Len(s) + 1 : m[k] = s[k - 1]
  (* Each chunk lies in the chunk it comes from.                           *)
  <2>. DEFINE from(k) == IF k <= i THEN k ELSE k - 1
  <2>0. i \in 1 .. Len(m) /\ i + 1 \in 1 .. Len(m) /\ m[i] \in ChunkSet
    BY <1>0, <1>2, <1>8
  <2>1. ASSUME NEW k \in 1 .. Len(m)
        PROVE  /\ from(k) \in 1 .. Len(s)
               /\ s[from(k)].at <= m[k].at /\ End(m[k]) <= End(s[from(k)])
    <3>1. CASE k < i
      <4>1. k \in 1 .. Len(s) /\ m[k] = s[k]
        BY <1>0, <1>8, <3>1
      <4>. QED  BY <1>3, <3>1, <4>1
    <3>2. CASE k = i
      <4>1. /\ s[i].at \in Nat /\ m[i].at = s[i].at
            /\ End(m[i]) = m[i + 1].at /\ End(m[i + 1]) = End(s[i])
        BY <1>1, <1>3, <1>8
      <4>2. /\ m[i + 1].at \in Nat /\ End(m[i + 1]) \in Int
            /\ m[i + 1].at < End(m[i + 1])
        BY <1>4, <2>0
      <4>. QED  BY <3>2, <4>1, <4>2
    <3>3. CASE k = i + 1
      BY <1>0, <1>1, <1>3, <1>4, <1>8, <2>0, <3>3
    <3>4. CASE k > i + 1
      <4>1. k - 1 \in 1 .. Len(s) /\ m[k] = s[k - 1]
        BY <1>0, <1>8, <3>4
      <4>. QED  BY <1>3, <3>4, <4>1
    <3>. QED  BY <1>2, <3>1, <3>2, <3>3, <3>4
  <2>2. Sound(m)
    <3>1. ASSUME NEW k \in 1 .. Len(m) PROVE End(m[k]) <= UNITS
      <4>1. End(s[from(k)]) <= UNITS /\ End(s[from(k)]) \in Int
        BY <1>3, <2>1
      <4>2. UNITS \in Int
        BY HeapAssumption DEF UNITS
      <4>. HIDE DEF from
      <4>. QED  BY <1>4, <2>1, <4>1, <4>2
    <3>2. ASSUME NEW j \in 1 .. Len(m), NEW k \in 1 .. Len(m), j < k
          PROVE  End(m[j]) <= m[k].at \/ End(m[k]) <= m[j].at
      <4>1. CASE from(j) = from(k)
        <5>1. j = i /\ k = i + 1
          BY <1>0, <1>2, <3>2, <4>1
        <5>2. End(m[j]) = m[k].at /\ m[k].at \in Int
          BY <1>4, <1>8, <5>1
        <5>. QED  BY <5>2
      <4>2. CASE from(j) # from(k)
        <5>0. /\ from(j) \in 1 .. Len(s) /\ from(k) \in 1 .. Len(s)
              /\ s[from(j)].at <= m[j].at /\ End(m[j]) <= End(s[from(j)])
              /\ s[from(k)].at <= m[k].at /\ End(m[k]) <= End(s[from(k)])
          BY <2>1
        <5>. HIDE DEF from
        <5>1. \/ End(s[from(j)]) <= s[from(k)].at
              \/ End(s[from(k)]) <= s[from(j)].at
          <6>1. \A x, y \in 1 .. Len(s) : x # y => End(s[x]) <= s[y].at \/ End(s[y]) <= s[x].at
            BY <1>5
          <6>. QED  BY <4>2, <5>0, <6>1
        <5>2. /\ s[from(j)].at \in Int /\ End(s[from(j)]) \in Int
              /\ s[from(k)].at \in Int /\ End(s[from(k)]) \in Int
              /\ m[j].at \in Int /\ End(m[j]) \in Int
              /\ m[k].at \in Int /\ End(m[k]) \in Int
          <6>1. \A x \in 1 .. Len(s) : s[x].at \in Int /\ End(s[x]) \in Int
            BY <1>3
          <6>2. \A x \in 1 .. Len(m) : m[x].at \in Int /\ End(m[x]) \in Int
            BY <1>4
          <6>. QED  BY <5>0, <6>1, <6>2
        <5>. QED  BY <5>0, <5>1, <5>2, SMTT(40)
      <4>. QED  BY <4>1, <4>2
    <3>3. ASSUME NEW j \in 1 .. Len(m), NEW k \in 1 .. Len(m), j # k
          PROVE  Apart(m[j], m[k])
      <4>1. j < k \/ k < j
        BY <1>2, <3>3
      <4>. QED  BY <3>2, <4>1 DEF Apart
    <3>. QED  BY <1>1, <3>1, <3>3 DEF Sound
  <2>3. ASSUME NEW u \in Int PROVE Covered(m, u) <=> Covered(s, u)
    <3>1. ASSUME NEW k \in 1 .. Len(m), Covers(m[k], u) PROVE Covered(s, u)
      <4>1. /\ s[from(k)].at \in Int /\ End(s[from(k)]) \in Int
        BY <1>3, <2>1
      <4>2. from(k) \in 1 .. Len(s) /\ s[from(k)].at <= m[k].at /\ End(m[k]) <= End(s[from(k)])
        BY <2>1
      <4>. HIDE DEF from
      <4>3. Covers(s[from(k)], u)
        BY <1>4, <3>1, <4>1, <4>2 DEF Covers
      <4>. QED  BY <4>2, <4>3 DEF Covered
    <3>2. ASSUME NEW k \in 1 .. Len(s), Covers(s[k], u) PROVE Covered(m, u)
      <4>1. CASE k < i
        <5>1. k \in 1 .. Len(m) /\ m[k] = s[k]
          BY <1>0, <1>8, <4>1
        <5>. QED  BY <3>2, <5>1 DEF Covered
      <4>2. CASE k = i
        <5>1. Covers(m[i], u) \/ Covers(m[i + 1], u)
          BY <1>1, <1>3, <1>4, <1>8, <2>0, <3>2, <4>2 DEF Covers
        <5>. QED  BY <2>0, <5>1 DEF Covered
      <4>3. CASE k > i
        <5>1. k + 1 \in 1 .. Len(m) /\ m[k + 1] = s[k]
          BY <1>0, <1>8, <4>3
        <5>. QED  BY <3>2, <5>1 DEF Covered
      <4>. QED  BY <1>0, <4>1, <4>2, <4>3
    <3>. QED  BY <3>1, <3>2 DEF Covered
  <2>4. Held(m) = Held(s) \cup {m[i]}
    <3>1. ASSUME NEW k \in 1 .. Len(m), m[k].free = 0, k # i PROVE m[k] \in Held(s)
      <4>1. k # i + 1
        BY <1>8, <3>1
      <4>2. from(k) \in 1 .. Len(s) /\ m[k] = s[from(k)]
        <5>1. CASE k < i
          BY <1>0, <1>8, <5>1
        <5>2. CASE k > i + 1
          BY <1>0, <1>8, <5>2
        <5>. QED  BY <1>0, <1>2, <3>1, <4>1, <5>1, <5>2
      <4>. QED  BY <3>1, <4>2 DEF Held
    <3>2. ASSUME NEW k \in 1 .. Len(s), s[k].free = 0 PROVE s[k] \in Held(m)
      <4>1. k # i
        BY <1>6, <3>2
      <4>2. CASE k < i
        <5>1. k \in 1 .. Len(m) /\ m[k] = s[k]
          BY <1>0, <1>8, <4>2
        <5>. QED  BY <3>2, <5>1 DEF Held
      <4>3. CASE k > i
        <5>1. k + 1 \in 1 .. Len(m) /\ m[k + 1] = s[k]
          BY <1>0, <1>8, <4>3
        <5>. QED  BY <3>2, <5>1 DEF Held
      <4>. QED  BY <1>0, <4>1, <4>2, <4>3
    <3>3. m[i] \in Held(m)
      BY <1>1, <2>0 DEF Held
    <3>. QED  BY <3>1, <3>2, <3>3 DEF Held
  <2>5. ASSUME NEW X, Tidy(s, X, {}), NEW k \in Int, Touches(m, k)
        PROVE  m[k + 1].at \in X
    <3>0. /\ k \in 1 .. Len(m) - 1 /\ k # i /\ k + 1 # i
          /\ m[k].free = 1 /\ m[k + 1].free = 1 /\ End(m[k]) = m[k + 1].at
      BY <1>1, <2>5 DEF Touches
    <3>1. CASE k < i
      <4>1. k + 1 < i
        BY <1>0, <3>0, <3>1
      <4>2. k \in 1 .. i - 1 /\ k + 1 \in 1 .. i - 1 /\ k \in 1 .. Len(s) - 1
        BY <1>0, <3>0, <3>1, <4>1
      <4>3. m[k] = s[k] /\ m[k + 1] = s[k + 1]
        BY <1>8, <4>2
      <4>4. Touches(s, k)
        BY <3>0, <4>2, <4>3 DEF Touches
      <4>. QED  BY <2>5, <4>3, <4>4 DEF Tidy
    <3>2. CASE k > i
      <4>1. /\ k - 1 \in 1 .. Len(s) - 1 /\ m[k + 1] = s[k - 1 + 1]
            /\ End(m[k]) = End(s[k - 1]) /\ s[k - 1].free = 1
        BY <1>0, <1>6, <1>8, <3>0, <3>2
      <4>2. Touches(s, k - 1)
        BY <3>0, <4>1 DEF Touches
      <4>. QED  BY <2>5, <4>1, <4>2 DEF Tidy
    <3>. QED  BY <1>0, <3>0, <3>1, <3>2
  <2>6. \A X : Tidy(s, X, {}) => Tidy(m, X, {})
    BY <2>5 DEF Tidy
  <2>. QED  BY <1>1, <2>0, <2>2, <2>3, <2>4, <2>6 DEF m
<1>. QED  BY <1>1, <1>7, <1>8

(* A free chunk of memory no chunk covers, at the end of the list.         *)
LEMMA AppendKeeps ==
  ASSUME NEW s, Sound(s), NEW p \in Nat, NEW len \in Nat, len > HEADER,
         p + len <= UNITS, \A u \in Int : ~(Covered(s, u) /\ p <= u /\ u < p + len)
  PROVE  LET m == Append(s, Chunk(p, len - HEADER, 1))
         IN  /\ Sound(m)
             /\ \A u \in Int : Covered(m, u) <=> Covered(s, u) \/ (p <= u /\ u < p + len)
             /\ Held(m) = Held(s)
             /\ \A X : Tidy(s, X, {}) => Tidy(m, X \cup {p}, {})
             /\ \/ s # <<>> /\ s[Len(s)].free = 1 /\ End(s[Len(s)]) = p
                \/ \A X : Tidy(s, X, {}) => Tidy(m, X, {})
<1>. DEFINE c == Chunk(p, len - HEADER, 1)
            m == Append(s, c)
            n == Len(s)
<1>0. s \in Seq(ChunkSet) /\ n \in Nat /\ (n \in 1 .. n => s # <<>>)
  BY ListItem, EmptySeq DEF Sound
<1>1. c \in ChunkSet /\ c.at = p /\ c.free = 1 /\ End(c) = p + len
  <2>1. len - HEADER \in Nat \ {0}
    BY HeapAssumption
  <2>2. /\ c \in ChunkSet /\ c.at = p /\ c.free = 1
        /\ End(c) = p + HEADER + (len - HEADER)
    BY <2>1, NewChunk
  <2>. QED  BY <2>2, HeapAssumption
<1>. HIDE DEF c
<1>2. /\ m \in Seq(ChunkSet) /\ Len(m) = n + 1 /\ m[n + 1] = c
      /\ \A k \in 1 .. n : m[k] = s[k]
  BY <1>0, <1>1, AppendProperties
<1>. HIDE DEF m, n
<1>3. \A k \in 1 .. n : /\ s[k] \in ChunkSet /\ s[k].at \in Int /\ End(s[k]) \in Int
                        /\ (End(s[k]) <= p \/ p + len <= s[k].at)
  <2>1. ASSUME NEW k \in 1 .. n
        PROVE  /\ s[k] \in ChunkSet /\ s[k].at \in Int /\ End(s[k]) \in Int
               /\ (End(s[k]) <= p \/ p + len <= s[k].at)
    <3>1. s[k] \in ChunkSet /\ s[k].at \in Int /\ End(s[k]) \in Int
      BY <1>0, ElementOfSeq, ChunkFields DEF n
    <3>2. \A u \in Int : ~(Covers(s[k], u) /\ p <= u /\ u < p + len)
      BY DEF Covered, n
    <3>3. p \in Int /\ p + len \in Int /\ p < p + len
      BY HeapAssumption
    <3>. DEFINE q == p + len
    <3>4. q \in Int /\ p < q /\ \A u \in Int : ~(Covers(s[k], u) /\ p <= u /\ u < q)
      BY <3>2, <3>3
    <3>. HIDE DEF q
    <3>5. End(s[k]) <= p \/ q <= s[k].at
      BY <3>1, <3>3, <3>4, ApartFromUnits
    <3>. QED  BY <3>1, <3>5 DEF q
  <2>. QED  BY <2>1
<1>4. Sound(m)
  <2>1. ASSUME NEW k \in 1 .. n + 1 PROVE End(m[k]) <= UNITS
    <3>1. CASE k = n + 1
      BY <1>1, <1>2, <3>1
    <3>2. CASE k \in 1 .. n
      BY <1>2, <3>2 DEF Sound, n
    <3>. QED  BY <1>0, <3>1, <3>2
  <2>2. ASSUME NEW j \in 1 .. n + 1, NEW k \in 1 .. n + 1, j < k PROVE Apart(m[j], m[k])
    <3>1. CASE k = n + 1
      <4>1. j \in 1 .. n /\ m[j] = s[j] /\ m[k] = c
        BY <1>0, <1>2, <2>2, <3>1
      <4>2. End(s[j]) <= p \/ p + len <= s[j].at
        BY <1>3, <4>1
      <4>3. End(m[j]) <= c.at \/ End(c) <= m[j].at
        BY <1>1, <4>1, <4>2
      <4>. QED  BY <4>1, <4>3 DEF Apart
    <3>2. CASE k \in 1 .. n
      <4>1. j \in 1 .. n /\ m[j] = s[j] /\ m[k] = s[k] /\ j # k
        BY <1>0, <1>2, <2>2, <3>2
      <4>. QED  BY <3>2, <4>1 DEF Sound, n
    <3>. QED  BY <1>0, <3>1, <3>2
  <2>3. ASSUME NEW j \in 1 .. n + 1, NEW k \in 1 .. n + 1, j # k PROVE Apart(m[j], m[k])
    <3>1. j < k \/ k < j
      BY <1>0, <2>3
    <3>. QED  BY <2>2, <3>1 DEF Apart
  <2>. QED  BY <1>2, <2>1, <2>3 DEF Sound
<1>5. ASSUME NEW u \in Int
      PROVE  Covered(m, u) <=> Covered(s, u) \/ (p <= u /\ u < p + len)
  <2>1. ASSUME NEW k \in 1 .. n + 1, Covers(m[k], u)
        PROVE  Covered(s, u) \/ (p <= u /\ u < p + len)
    <3>1. CASE k = n + 1
      BY <1>1, <1>2, <2>1, <3>1 DEF Covers
    <3>2. CASE k \in 1 .. n
      BY <1>2, <2>1, <3>2 DEF Covered, n
    <3>. QED  BY <1>0, <3>1, <3>2
  <2>2. ASSUME NEW k \in 1 .. n, Covers(s[k], u) PROVE Covered(m, u)
    <3>1. k \in 1 .. Len(m) /\ m[k] = s[k]
      BY <1>0, <1>2
    <3>. QED  BY <2>2, <3>1 DEF Covered
  <2>3. ASSUME p <= u, u < p + len PROVE Covered(m, u)
    <3>1. n + 1 \in 1 .. Len(m) /\ Covers(m[n + 1], u)
      BY <1>0, <1>1, <1>2, <2>3 DEF Covers
    <3>. QED  BY <3>1 DEF Covered
  <2>. QED  BY <1>2, <2>1, <2>2, <2>3 DEF Covered, n
<1>6. Held(m) = Held(s)
  <2>1. ASSUME NEW k \in 1 .. n + 1, m[k].free = 0 PROVE m[k] \in Held(s)
    <3>1. k \in 1 .. n /\ m[k] = s[k]
      BY <1>0, <1>1, <1>2, <2>1
    <3>. QED  BY <2>1, <3>1 DEF Held, n
  <2>2. ASSUME NEW k \in 1 .. n, s[k].free = 0 PROVE s[k] \in Held(m)
    <3>1. k \in 1 .. Len(m) /\ m[k] = s[k]
      BY <1>0, <1>2
    <3>. QED  BY <2>2, <3>1 DEF Held
  <2>. QED  BY <1>2, <2>1, <2>2 DEF Held, n
<1>7. ASSUME NEW k \in Int, Touches(m, k)
      PROVE  \/ Touches(s, k) /\ m[k + 1] = s[k + 1]
             \/ /\ k = n /\ m[k + 1].at = p
                /\ s # <<>> /\ s[n].free = 1 /\ End(s[n]) = p
  <2>1. /\ k \in 1 .. n /\ m[k].free = 1 /\ m[k + 1].free = 1 /\ End(m[k]) = m[k + 1].at
        /\ m[k] = s[k]
    BY <1>0, <1>2, <1>7 DEF Touches
  <2>2. CASE k = n
    BY <1>0, <1>1, <1>2, <2>1, <2>2
  <2>3. CASE k < n
    <3>1. k + 1 \in 1 .. n /\ m[k + 1] = s[k + 1] /\ k \in 1 .. n - 1
      BY <1>0, <1>2, <2>1, <2>3
    <3>. QED  BY <2>1, <3>1 DEF Touches, n
  <2>. QED  BY <1>0, <2>1, <2>2, <2>3
<1>8. \A X : Tidy(s, X, {}) => Tidy(m, X \cup {p}, {})
  BY <1>7 DEF Tidy
<1>9. \/ s # <<>> /\ s[n].free = 1 /\ End(s[n]) = p
      \/ \A X : Tidy(s, X, {}) => Tidy(m, X, {})
  BY <1>7 DEF Tidy
<1>. QED  BY <1>4, <1>5, <1>6, <1>8, <1>9 DEF m, c, n

LEMMA AddPageKeeps ==
  ASSUME NEW s, Sound(s), NEW p \in Nat, p + PAGE <= UNITS,
         \A u \in Int : ~(Covered(s, u) /\ p <= u /\ u < p + PAGE)
  PROVE  LET m == AddPage(s, p)
         IN  /\ Sound(m)
             /\ \A u \in Int : Covered(m, u) <=> Covered(s, u) \/ (p <= u /\ u < p + PAGE)
             /\ Held(m) = Held(s)
             /\ \A X : Tidy(s, X, {}) => Tidy(m, X, {})
<1>. DEFINE last == s # <<>> /\ s[Len(s)].free = 1 /\ End(s[Len(s)]) = p
            m == AddPage(s, p)
            n == Len(s)
<1>1. PAGE \in Nat /\ PAGE > HEADER /\ HEADER \in Nat
  BY HeapAssumption
<1>2. CASE ~last
  <2>1. m = Append(s, Chunk(p, PAGE - HEADER, 1))
    BY <1>2 DEF AddPage
  <2>. QED  BY <1>1, <1>2, <2>1, AppendKeeps
<1>3. CASE last
  <2>. DEFINE e == [s[n] EXCEPT !.size = @ + PAGE]
  <2>0. /\ s \in Seq(ChunkSet) /\ n \in Nat \ {0} /\ n \in 1 .. n
        /\ s[n] \in ChunkSet /\ s[n].free = 1 /\ End(s[n]) = p
    BY <1>3, EmptySeq, ElementOfSeq DEF Sound
  <2>1. s[n].at \in Nat /\ s[n].size \in Nat \ {0} /\ p = s[n].at + HEADER + s[n].size
    BY <2>0, ChunkFields
  <2>2. e \in ChunkSet /\ e.at = s[n].at /\ e.free = 1 /\ e.size = s[n].size + PAGE
    <3>1. s[n].size + PAGE \in Nat \ {0}
      BY <1>1, <2>1, SMTT(40)
    <3>. QED  BY <2>0, <3>1 DEF ChunkSet
  <2>3. End(e) = p + PAGE
    BY <1>1, <2>1, <2>2, SMTT(40) DEF End
  <2>4. m = [s EXCEPT ![n] = e]
    BY <1>3 DEF AddPage
  <2>. HIDE DEF e, m
  <2>5. /\ m \in Seq(ChunkSet) /\ Len(m) = n /\ m[n] = e
        /\ \A k \in 1 .. n : k # n => m[k] = s[k]
    BY <2>0, <2>2, <2>4, ExceptSeq
  <2>. HIDE DEF n
  <2>6. \A k \in 1 .. n : /\ s[k] \in ChunkSet /\ s[k].at \in Int /\ End(s[k]) \in Int
                          /\ s[k].at < End(s[k])
                          /\ (End(s[k]) <= p \/ p + PAGE <= s[k].at)
    <3>1. ASSUME NEW k \in 1 .. n
          PROVE  /\ s[k] \in ChunkSet /\ s[k].at \in Int /\ End(s[k]) \in Int
                 /\ s[k].at < End(s[k])
                 /\ (End(s[k]) <= p \/ p + PAGE <= s[k].at)
      <4>1. /\ s[k] \in ChunkSet /\ s[k].at \in Int /\ End(s[k]) \in Int
            /\ s[k].at < End(s[k])
        BY <2>0, ElementOfSeq, ChunkFields DEF n
      <4>2. \A u \in Int : ~(Covers(s[k], u) /\ p <= u /\ u < p + PAGE)
        BY DEF Covered, n
      <4>3. p \in Int /\ p + PAGE \in Int /\ p < p + PAGE
        BY <1>1
      <4>. QED  BY <4>1, <4>2, <4>3, ApartFromUnits
    <3>. QED  BY <3>1
  <2>7. Sound(m)
    <3>1. ASSUME NEW k \in 1 .. n PROVE End(m[k]) <= UNITS
      <4>1. CASE k = n
        BY <2>3, <2>5, <4>1
      <4>2. CASE k # n
        BY <2>5, <4>2 DEF Sound, n
      <4>. QED  BY <4>1, <4>2
    <3>2. ASSUME NEW k \in 1 .. n, k # n PROVE Apart(m[k], m[n]) /\ Apart(m[n], m[k])
      <4>1. m[k] = s[k] /\ Apart(s[k], s[n])
        BY <2>0, <2>5, <3>2 DEF Sound, n
      <4>2. /\ s[k].at < End(s[k]) /\ s[k].at \in Int /\ End(s[k]) \in Int
            /\ (End(s[k]) <= p \/ p + PAGE <= s[k].at)
        BY <2>6
      <4>3. End(s[k]) <= s[n].at \/ p + PAGE <= s[k].at
        BY <1>1, <2>0, <2>1, <4>1, <4>2, SMTT(40) DEF Apart
      <4>. QED  BY <2>2, <2>3, <2>5, <4>1, <4>3 DEF Apart
    <3>3. ASSUME NEW j \in 1 .. n, NEW k \in 1 .. n, j # k PROVE Apart(m[j], m[k])
      <4>1. CASE j # n /\ k # n
        BY <2>5, <3>3, <4>1 DEF Sound, n
      <4>. QED  BY <3>2, <3>3, <4>1
    <3>. QED  BY <2>5, <3>1, <3>3 DEF Sound
  <2>8. ASSUME NEW u \in Int
        PROVE  Covered(m, u) <=> Covered(s, u) \/ (p <= u /\ u < p + PAGE)
    <3>1. ASSUME NEW k \in 1 .. n, k # n PROVE Covers(m[k], u) <=> Covers(s[k], u)
      BY <2>5, <3>1
    <3>2. Covers(m[n], u) <=> Covers(s[n], u) \/ (p <= u /\ u < p + PAGE)
      BY <1>1, <2>0, <2>1, <2>2, <2>3, <2>5, SMTT(40) DEF Covers
    <3>. QED  BY <2>0, <2>5, <3>1, <3>2 DEF Covered, n
  <2>9. Held(m) = Held(s)
    <3>1. ASSUME NEW k \in 1 .. n
          PROVE  (m[k].free = 0 <=> s[k].free = 0) /\ (m[k].free = 0 => m[k] = s[k])
      <4>1. CASE k = n
        BY <2>0, <2>2, <2>5, <4>1
      <4>2. CASE k # n
        BY <2>5, <4>2
      <4>. QED  BY <4>1, <4>2
    <3>. QED  BY <2>5, <3>1 DEF Held, n
  <2>10. ASSUME NEW X, Tidy(s, X, {}), NEW k \in Int, Touches(m, k)
         PROVE  m[k + 1].at \in X
    <3>1. /\ k \in 1 .. n - 1 /\ m[k] = s[k] /\ m[k + 1].at = s[k + 1].at
          /\ m[k].free = 1 /\ m[k + 1].free = 1 /\ End(m[k]) = m[k + 1].at
          /\ (m[k + 1].free = 1 => s[k + 1].free = 1)
      BY <2>0, <2>2, <2>5, <2>10 DEF Touches
    <3>2. Touches(s, k)
      BY <3>1 DEF Touches, n
    <3>. QED  BY <2>10, <3>1, <3>2 DEF Tidy
  <2>11. \A X : Tidy(s, X, {}) => Tidy(m, X, {})
    BY <2>10 DEF Tidy
  <2>. QED  BY <2>7, <2>8, <2>9, <2>11 DEF m
<1>. QED  BY <1>2, <1>3

(* The free list of a new page: its blocks but the first, each once.       *)
LEMMA CarvedShape ==
  ASSUME NEW c \in Classes, NEW p \in Int
  PROVE  /\ Carved(c, p) \in Seq(Int)
         /\ \A j, k \in 1 .. Len(Carved(c, p)) :
              Carved(c, p)[j] = Carved(c, p)[k] => j = k
         /\ \A a : (\E k \in 1 .. Len(Carved(c, p)) : Carved(c, p)[k] = a)
                     <=> a \in BlocksOf(c, p) /\ a # p
<1>. DEFINE n == PAGE \div c
            f == Carved(c, p)
<1>1. /\ c \in Nat \ {0} /\ n \in Nat \ {0}
      /\ \A j, k \in Nat : j < k => j * c + c <= k * c
  BY PerPage
<1>2. f = [k \in 1 .. n - 1 |-> p + (n - k) * c]
  BY DEF Carved
<1>3. BlocksOf(c, p) = {p + k * c : k \in 0 .. n - 1}
  BY DEF BlocksOf
<1>. HIDE DEF n, f
<1>4. \A k \in 1 .. n - 1 : (n - k) * c \in Int
  BY <1>1
<1>5. f \in [1 .. n - 1 -> Int]
  BY <1>2, <1>4
<1>6. f \in Seq(Int) /\ Len(f) = n - 1
  BY <1>1, <1>5, SequenceOf
<1>7. ASSUME NEW j \in 1 .. n - 1, NEW k \in 1 .. n - 1, f[j] = f[k] PROVE j = k
  <2>1. p + (n - j) * c = p + (n - k) * c /\ (n - j) * c \in Int /\ (n - k) * c \in Int
    BY <1>2, <1>4, <1>7
  <2>2. n - j \in Nat /\ n - k \in Nat
    BY <1>1
  <2>3. ~(n - j < n - k) /\ ~(n - k < n - j)
    BY <1>1, <2>1, <2>2
  <2>. QED  BY <1>1, <2>2, <2>3
<1>8. ASSUME NEW k \in 1 .. n - 1 PROVE f[k] \in BlocksOf(c, p) /\ f[k] # p
  <2>1. n - k \in 0 .. n - 1 /\ 0 < n - k /\ 0 \in Nat /\ n - k \in Nat /\ f[k] = p + (n - k) * c
    BY <1>1, <1>2
  <2>2. 0 * c + c <= (n - k) * c /\ (n - k) * c \in Int
    BY <1>1, <1>4, <2>1
  <2>. QED  BY <1>1, <1>3, <2>1, <2>2
<1>9. ASSUME NEW a \in BlocksOf(c, p), a # p PROVE \E k \in 1 .. n - 1 : f[k] = a
  <2>1. PICK k \in 0 .. n - 1 : a = p + k * c
    BY <1>3
  <2>2. k # 0
    BY <1>1, <1>9, <2>1
  <2>3. n - k \in 1 .. n - 1 /\ n - (n - k) = k
    BY <1>1, <2>1, <2>2
  <2>4. f[n - k] = p + (n - (n - k)) * c
    BY <1>2, <2>3
  <2>. QED  BY <2>1, <2>3, <2>4
<1>. QED  BY <1>6, <1>7, <1>8, <1>9 DEF f

----------------------------------------------------------------------------
(* The invariant.                                                          *)

(* The unit u is in a page of P.                                           *)
Own(P, u) == \E p \in P : p <= u /\ u < p + PAGE

(* A page has one use.                                                     *)
PagesInv ==
  /\ inited \in {0, 1} /\ used \in Int
  /\ pages \subseteq Pages /\ seeded \subseteq Pages /\ seams \subseteq Pages
  /\ class_pages \in [Classes -> SUBSET Pages]
  /\ pages \cap seeded = {}
  /\ \A c \in Classes : class_pages[c] \cap pages = {} /\ class_pages[c] \cap seeded = {}
  /\ \A c, d \in Classes : c # d => class_pages[c] \cap class_pages[d] = {}

(* Before the first malloc.                                                *)
FreshInv ==
  inited = 0 => /\ Pages = pages \cup seeded
                /\ \A c \in Classes : class_pages[c] = {}
                /\ Held(chunks) = {} /\ live = {}

HeapInv ==
  /\ Sound(chunks)
  /\ \A u \in Int : Covered(chunks, u) <=> Own(HeapPages, u)
  /\ Tidy(chunks, seams, {})

(* The list of a class is its marked blocks, each once.                    *)
ClassInv ==
  /\ class_free \in [Classes -> Seq(Int)]
  /\ \A c \in Classes : \A j, k \in 1 .. Len(class_free[c]) :
       class_free[c][j] = class_free[c][k] => j = k
  /\ \A c \in Classes : \A a :
       (\E k \in 1 .. Len(class_free[c]) : class_free[c][k] = a)
         <=> a \in marked /\ a \in ClassBlocks(c)
  /\ \A a \in marked : \E c \in Classes : a \in ClassBlocks(c)

Block == [at : Int, size : SIZES]

BackedBy(b, h) == b.at = Data(h) /\ b.size <= h.size

(* Every held chunk and cleared class block is the place of one live block. *)
LiveInv ==
  /\ live \subseteq Block
  /\ \A b \in live : \/ \E h \in Held(chunks) : BackedBy(b, h)
                     \/ \E c \in Classes : InClass(b, c)
  /\ \A h \in Held(chunks) : \E b \in live : BackedBy(b, h)
  /\ \A c \in Classes : \A a \in ClassBlocks(c) \ marked : \E b \in live : b.at = a
  /\ \A b, d \in live : b.at = d.at => b = d

OpType == [pc : {"idle", "class", "general", "free"}, size : SIZES \cup {0},
           old : Int]

(* What a realloc is about is live, and no other realloc is about it.      *)
OpInv ==
  /\ op \in [Threads -> OpType]
  /\ \A t \in Threads :
       /\ op[t].pc \in {"class", "general"} => op[t].size \in SIZES
       /\ op[t].pc = "idle" => op[t].old = None
       /\ op[t].pc = "free" => op[t].old # None
       /\ op[t].old # None => \E b \in live : b.at = op[t].old
  /\ \A t, u \in Threads : t # u /\ op[t].old # None => op[t].old # op[u].old

IInv == PagesInv /\ FreshInv /\ HeapInv /\ ClassInv /\ LiveInv /\ OpInv

----------------------------------------------------------------------------
(* What the invariant says of blocks.                                      *)

LEMMA Units == UNITS \in Nat /\ PAGE \in Nat /\ PAGE > 0
<1>1. PAGES \in Nat /\ PAGE \in Nat /\ PAGE > 0
  BY HeapAssumption
<1>. QED  BY <1>1 DEF UNITS

(* Blocks of classes are in memory, apart, and in no page of the chunks.   *)
LEMMA ClassBlocksApart ==
  ASSUME PagesInv
  PROVE  /\ \A c \in Classes : \A a \in ClassBlocks(c) :
              /\ c \in Nat \ {0} /\ a \in Int /\ 0 <= a /\ a + c <= UNITS
              /\ \A u \in Int : a <= u /\ u < a + c => Own(ClassPages, u)
         /\ \A c, d \in Classes : \A a \in ClassBlocks(c), b \in ClassBlocks(d) :
              /\ a = b => c = d
              /\ a # b => a + c <= b \/ b + d <= a
<1>1. ASSUME NEW c \in Classes, NEW a \in ClassBlocks(c)
      PROVE  \E p \in class_pages[c] : /\ p \in Pages /\ p \in Int /\ a \in BlocksOf(c, p)
                                       /\ a \in Int /\ p <= a /\ a + c <= p + PAGE
  <2>1. PICK p \in class_pages[c] : a \in BlocksOf(c, p)
    BY DEF ClassBlocks
  <2>2. p \in Pages /\ p \in Int
    BY PagesApart DEF PagesInv
  <2>. QED  BY <2>1, <2>2, BlocksInPage
<1>2. \A c \in Classes : c \in Nat \ {0}
  BY PerPage
<1>3. ASSUME NEW c \in Classes, NEW a \in ClassBlocks(c)
      PROVE  /\ c \in Nat \ {0} /\ a \in Int /\ 0 <= a /\ a + c <= UNITS
             /\ \A u \in Int : a <= u /\ u < a + c => Own(ClassPages, u)
  <2>1. PICK p \in class_pages[c] : /\ p \in Pages /\ p \in Int /\ a \in BlocksOf(c, p)
                                    /\ a \in Int /\ p <= a /\ a + c <= p + PAGE
    BY <1>1
  <2>2. 0 <= p /\ p + PAGE <= UNITS /\ UNITS \in Int /\ PAGE \in Int /\ c \in Nat \ {0}
    BY <1>2, <2>1, PagesApart, Units
  <2>3. p \in ClassPages
    BY <2>1 DEF ClassPages
  <2>4. ASSUME NEW u \in Int, a <= u, u < a + c PROVE Own(ClassPages, u)
    <3>1. p <= u /\ u < p + PAGE
      BY <2>1, <2>2, <2>4
    <3>. QED  BY <2>3, <3>1 DEF Own
  <2>. QED  BY <2>1, <2>2, <2>4
<1>4. ASSUME NEW c \in Classes, NEW d \in Classes,
             NEW a \in ClassBlocks(c), NEW b \in ClassBlocks(d)
      PROVE  /\ a = b => c = d
             /\ a # b => a + c <= b \/ b + d <= a
  <2>1. PICK p \in class_pages[c] : /\ p \in Pages /\ p \in Int /\ a \in BlocksOf(c, p)
                                    /\ a \in Int /\ p <= a /\ a + c <= p + PAGE
    BY <1>1
  <2>2. PICK q \in class_pages[d] : /\ q \in Pages /\ q \in Int /\ b \in BlocksOf(d, q)
                                    /\ b \in Int /\ q <= b /\ b + d <= q + PAGE
    BY <1>1
  <2>3. c \in Nat \ {0} /\ d \in Nat \ {0} /\ PAGE \in Nat
    BY <1>2, Units
  <2>4. CASE p = q
    <3>1. c = d
      BY <2>1, <2>2, <2>4 DEF PagesInv
    <3>2. a # b => a + c <= b \/ b + c <= a
      BY <2>1, <2>2, <2>4, <3>1, BlocksInPage
    <3>. QED  BY <3>1, <3>2
  <2>5. CASE p # q
    <3>1. p + PAGE <= q \/ q + PAGE <= p
      BY <2>1, <2>2, <2>5, PagesApart
    <3>. QED  BY <2>1, <2>2, <2>3, <3>1
  <2>. QED  BY <2>4, <2>5
<1>. QED  BY <1>3, <1>4

(* Pages that are not the same share no unit.                              *)
LEMMA OwnApart ==
  ASSUME NEW P, NEW Q, P \subseteq Pages, Q \subseteq Pages, P \cap Q = {},
         NEW u \in Int, Own(P, u)
  PROVE  ~Own(Q, u)
<1>1. ASSUME NEW p \in P, NEW q \in Q, p <= u, u < p + PAGE, q <= u, u < q + PAGE
      PROVE  FALSE
  <2>1. p # q /\ p \in Pages /\ q \in Pages
    OBVIOUS
  <2>2. p \in Int /\ q \in Int /\ PAGE \in Int /\ (p + PAGE <= q \/ q + PAGE <= p)
    BY <2>1, PagesApart, Units
  <2>. QED  BY <1>1, <2>2
<1>. QED  BY <1>1 DEF Own

LEMMA HeldItem ==
  ASSUME NEW s, Sound(s), NEW h \in Held(s)
  PROVE  /\ h \in ChunkSet /\ h.free = 0 /\ End(h) <= UNITS
         /\ \E i \in 1 .. Len(s) : h = s[i]
         /\ \A g \in Held(s) : g # h => Apart(g, h)
         /\ \A u \in Int : Covers(h, u) => Covered(s, u)
<1>1. PICK i \in 1 .. Len(s) : h = s[i] /\ s[i].free = 0
  BY DEF Held
<1>2. h \in ChunkSet /\ End(h) <= UNITS
  BY <1>1, ListItem DEF Sound
<1>3. ASSUME NEW g \in Held(s), g # h PROVE Apart(g, h)
  <2>1. PICK j \in 1 .. Len(s) : g = s[j]
    BY DEF Held
  <2>. QED  BY <1>1, <1>3, <2>1 DEF Sound
<1>4. \A u \in Int : Covers(h, u) => Covered(s, u)
  BY <1>1 DEF Covered
<1>. QED  BY <1>1, <1>2, <1>3, <1>4

(* A block of a class is not where a chunk's data begins.                  *)
LEMMA ClassOrChunk ==
  ASSUME PagesInv, NEW s, Sound(s), \A u \in Int : ~(Covered(s, u) /\ Own(ClassPages, u)),
         NEW i \in 1 .. Len(s), NEW c \in Classes, NEW a \in ClassBlocks(c)
  PROVE  a + c <= s[i].at \/ End(s[i]) <= a
<1>1. s[i] \in ChunkSet
  BY ListItem DEF Sound
<1>2. /\ c \in Nat \ {0} /\ a \in Int
      /\ \A u \in Int : a <= u /\ u < a + c => Own(ClassPages, u)
  BY ClassBlocksApart
<1>. DEFINE b == a + c
<1>3. /\ b \in Int /\ a < b
      /\ \A u \in Int : ~(Covers(s[i], u) /\ a <= u /\ u < b)
  BY <1>2 DEF Covered
<1>. HIDE DEF b
<1>4. End(s[i]) <= a \/ b <= s[i].at
  BY <1>1, <1>2, <1>3, ApartFromUnits
<1>. QED  BY <1>4 DEF b

LEMMA HeapIsNoClassPage ==
  ASSUME PagesInv, HeapInv
  PROVE  \A u \in Int : ~(Covered(chunks, u) /\ Own(ClassPages, u))
<1>1. HeapPages \subseteq Pages /\ HeapPages \cap ClassPages = {}
  BY DEF HeapPages, ClassPages
<1>2. ClassPages \subseteq Pages
  BY DEF PagesInv, ClassPages
<1>. QED  BY <1>1, <1>2, OwnApart DEF HeapInv

(* Blocks that are live lie in memory and do not overlap.                  *)
LEMMA LiveApart ==
  ASSUME PagesInv, HeapInv, LiveInv
  PROVE  /\ \A b \in live : b.at \in Int /\ b.at >= 0 /\ b.at + b.size <= UNITS
                            /\ b.size \in Nat \ {0} /\ b.size \in SIZES
         /\ \A b, d \in live : b # d => HA!Disjoint(b, d)
<1>0. \A b \in live : b.at \in Int /\ b.size \in SIZES /\ b.size \in Nat \ {0}
  BY HeapAssumption DEF LiveInv, Block
<1>1. Sound(chunks) /\ \A u \in Int : ~(Covered(chunks, u) /\ Own(ClassPages, u))
  BY HeapIsNoClassPage DEF HeapInv
<1>2. ASSUME NEW h \in Held(chunks)
      PROVE  /\ h.at \in Nat /\ Data(h) \in Nat /\ End(h) \in Nat /\ h.size \in Nat
             /\ h.at < Data(h) /\ End(h) = Data(h) + h.size /\ End(h) <= UNITS
  <2>1. h \in ChunkSet /\ End(h) <= UNITS
    BY <1>1, HeldItem
  <2>2. HEADER \in Nat
    BY HeapAssumption
  <2>. QED  BY <2>1, <2>2, ChunkFields
<1>3. ASSUME NEW c \in Classes, NEW a \in ClassBlocks(c)
      PROVE  c \in Nat \ {0} /\ a \in Int /\ 0 <= a /\ a + c <= UNITS
  BY ClassBlocksApart
<1>4. ASSUME NEW b \in live
      PROVE  \/ \E h \in Held(chunks) : b.at = Data(h) /\ b.size <= h.size
             \/ \E c \in Classes : b.at \in ClassBlocks(c) /\ b.size <= c
  BY DEF LiveInv, BackedBy, InClass
<1>5. ASSUME NEW b \in live
      PROVE  b.at >= 0 /\ b.at + b.size <= UNITS
  <2>1. CASE \E h \in Held(chunks) : b.at = Data(h) /\ b.size <= h.size
    BY <1>0, <1>2, <2>1, Units
  <2>2. CASE \E c \in Classes : b.at \in ClassBlocks(c) /\ b.size <= c
    BY <1>0, <1>3, <2>2, Units
  <2>. QED  BY <1>4, <2>1, <2>2
<1>6. ASSUME NEW b \in live, NEW h \in Held(chunks), b.at = Data(h), b.size <= h.size,
             NEW d \in live, NEW c \in Classes, d.at \in ClassBlocks(c), d.size <= c
      PROVE  b.at + b.size <= d.at \/ d.at + d.size <= b.at
  <2>1. PICK i \in 1 .. Len(chunks) : h = chunks[i]
    BY <1>1, HeldItem
  <2>2. d.at + c <= h.at \/ End(h) <= d.at
    BY <1>1, <1>6, <2>1, ClassOrChunk
  <2>3. c \in Nat
    BY <1>3, <1>6
  <2>. QED  BY <1>0, <1>2, <1>6, <2>2, <2>3, SMTT(40)
<1>7. ASSUME NEW b \in live, NEW d \in live, b # d
      PROVE  b.at + b.size <= d.at \/ d.at + d.size <= b.at
  <2>1. b.at # d.at
    BY <1>7 DEF LiveInv
  <2>2. CASE /\ \E h \in Held(chunks) : b.at = Data(h) /\ b.size <= h.size
             /\ \E h \in Held(chunks) : d.at = Data(h) /\ d.size <= h.size
    <3>1. PICK h \in Held(chunks) : b.at = Data(h) /\ b.size <= h.size
      BY <2>2
    <3>2. PICK g \in Held(chunks) : d.at = Data(g) /\ d.size <= g.size
      BY <2>2
    <3>3. End(h) <= g.at \/ End(g) <= h.at
      BY <1>1, <2>1, <3>1, <3>2, HeldItem DEF Apart
    <3>. QED  BY <1>0, <1>2, <3>1, <3>2, <3>3
  <2>3. CASE /\ \E c \in Classes : b.at \in ClassBlocks(c) /\ b.size <= c
             /\ \E c \in Classes : d.at \in ClassBlocks(c) /\ d.size <= c
    <3>1. PICK x \in Classes : b.at \in ClassBlocks(x) /\ b.size <= x
      BY <2>3
    <3>2. PICK y \in Classes : d.at \in ClassBlocks(y) /\ d.size <= y
      BY <2>3
    <3>3. b.at + x <= d.at \/ d.at + y <= b.at
      BY <2>1, <3>1, <3>2, ClassBlocksApart
    <3>4. x \in Nat /\ y \in Nat
      BY <1>3, <3>1, <3>2
    <3>. QED  BY <1>0, <3>1, <3>2, <3>3, <3>4
  <2>4. CASE /\ \E h \in Held(chunks) : b.at = Data(h) /\ b.size <= h.size
             /\ \E c \in Classes : d.at \in ClassBlocks(c) /\ d.size <= c
    BY <1>6, <2>4
  <2>5. CASE /\ \E c \in Classes : b.at \in ClassBlocks(c) /\ b.size <= c
             /\ \E h \in Held(chunks) : d.at = Data(h) /\ d.size <= h.size
    <3>1. d.at + d.size <= b.at \/ b.at + b.size <= d.at
      BY <1>6, <2>5
    <3>. QED  BY <3>1
  <2>. QED  BY <1>4, <2>2, <2>3, <2>4, <2>5
<1>. QED  BY <1>0, <1>5, <1>7 DEF HA!Disjoint

(* The list as a malloc finds it.                                          *)
LEMMA ListFacts ==
  ASSUME IInv
  PROVE  /\ Sound(List) /\ Held(List) = Held(chunks) /\ Tidy(List, seams, {})
         /\ \A u \in Int : Covered(List, u)
                             <=> Own(Pages \ (pages \cup ClassPages \cup seeded), u)
         /\ inited \in {0, 1}
<1>0. inited \in {0, 1}
  BY DEF IInv, PagesInv
<1>1. CASE inited = 1
  <2>1. List = chunks
    BY <1>1 DEF List
  <2>2. HeapPages = Pages \ (pages \cup ClassPages \cup seeded)
    <3>1. (IF inited = 1 THEN seeded ELSE {}) = seeded
      BY <1>1
    <3>. QED  BY <3>1 DEF HeapPages
  <2>3. /\ Sound(chunks) /\ Tidy(chunks, seams, {})
        /\ \A u \in Int : Covered(chunks, u)
                            <=> Own(Pages \ (pages \cup ClassPages \cup seeded), u)
    BY <2>2 DEF IInv, HeapInv
  <2>. QED  BY <1>0, <2>1, <2>3
<1>2. CASE inited = 0
  <2>1. List = <<>>
    BY <1>2 DEF List
  <2>2. Pages \ (pages \cup ClassPages \cup seeded) = {} /\ Held(chunks) = {}
    BY <1>2 DEF IInv, FreshInv
  <2>3. <<>> \in Seq(ChunkSet) /\ Len(<<>>) = 0
    BY EmptySeq
  <2>4. Sound(<<>>)
    BY <2>3 DEF Sound
  <2>5. Held(<<>>) = {} /\ \A u \in Int : ~Covered(<<>>, u)
    BY <2>3 DEF Held, Covered
  <2>6. \A k \in Int : ~Touches(<<>>, k)
    BY <2>3 DEF Touches
  <2>7. \A u \in Int : ~Own({}, u)
    BY DEF Own
  <2>8. Tidy(<<>>, seams, {})
    BY <2>6 DEF Tidy
  <2>9. \A u \in Int : ~Own(Pages \ (pages \cup ClassPages \cup seeded), u)
    BY <2>2, <2>7
  <2>10. Held(List) = Held(chunks)
    BY <2>1, <2>2, <2>5
  <2>11. Sound(List) /\ Tidy(List, seams, {})
    BY <2>1, <2>4, <2>8
  <2>12. \A u \in Int : ~Covered(List, u)
    BY <2>1, <2>5
  <2>. QED  BY <1>0, <2>9, <2>10, <2>11, <2>12
<1>. QED  BY <1>0, <1>1, <1>2

----------------------------------------------------------------------------
(* What is lent, and what heap_used_size says of it.                       *)

LEMMA LentMembers ==
  /\ \A r : r \in Lent <=> \/ \E h \in Held(chunks) : r = <<Data(h), End(h)>>
                           \/ \E c \in Classes : \E a \in ClassBlocks(c) \ marked :
                                r = <<a, a + c>>
  /\ \A r : r \in Lent' <=> \/ \E h \in Held(chunks') : r = <<Data(h), End(h)>>
                            \/ \E c \in Classes : \E a \in ClassBlocks(c)' \ marked' :
                                 r = <<a, a + c>>
<1>1. ASSUME NEW r
      PROVE  r \in Lent <=> \/ \E h \in Held(chunks) : r = <<Data(h), End(h)>>
                            \/ \E c \in Classes : \E a \in ClassBlocks(c) \ marked :
                                 r = <<a, a + c>>
  BY DEF Lent, Held
<1>2. ASSUME NEW r
      PROVE  r \in Lent' <=> \/ \E h \in Held(chunks') : r = <<Data(h), End(h)>>
                             \/ \E c \in Classes : \E a \in ClassBlocks(c)' \ marked' :
                                  r = <<a, a + c>>
  BY DEF Lent, Held
<1>. QED  BY <1>1, <1>2

(* Places in memory, no two of which share a unit.                         *)
Spread(L) ==
  /\ \A r \in L : /\ r[1] \in Int /\ r[2] \in Int
                  /\ 0 <= r[1] /\ r[1] < r[2] /\ r[2] <= UNITS
  /\ \A q, r \in L : q # r => q[2] <= r[1] \/ r[2] <= q[1]

LEMMA LentSpread == IInv => Spread(Lent)
<1>. SUFFICES ASSUME IInv PROVE Spread(Lent)
  OBVIOUS
<1>1. /\ PagesInv /\ Sound(chunks) /\ UNITS \in Nat
      /\ \A u \in Int : ~(Covered(chunks, u) /\ Own(ClassPages, u))
  BY HeapIsNoClassPage, Units DEF IInv, HeapInv
<1>2. ASSUME NEW h \in Held(chunks)
      PROVE  /\ h.at \in Nat /\ Data(h) \in Nat /\ End(h) \in Nat /\ End(h) <= UNITS
             /\ h.at < Data(h) /\ Data(h) < End(h)
  <2>1. h \in ChunkSet /\ End(h) <= UNITS
    BY <1>1, HeldItem
  <2>. QED  BY <2>1, ChunkFields
<1>3. ASSUME NEW c \in Classes, NEW a \in ClassBlocks(c)
      PROVE  c \in Nat \ {0} /\ a \in Int /\ 0 <= a /\ a + c <= UNITS
  BY <1>1, ClassBlocksApart
<1>4. ASSUME NEW g \in Held(chunks), NEW h \in Held(chunks), g # h
      PROVE  End(g) <= Data(h) \/ End(h) <= Data(g)
  <2>1. End(g) <= h.at \/ End(h) <= g.at
    BY <1>1, <1>4, HeldItem DEF Apart
  <2>. QED  BY <1>2, <2>1
<1>5. ASSUME NEW h \in Held(chunks), NEW c \in Classes, NEW a \in ClassBlocks(c)
      PROVE  a + c <= Data(h) \/ End(h) <= a
  <2>1. PICK i \in 1 .. Len(chunks) : h = chunks[i]
    BY <1>1, HeldItem
  <2>2. a + c <= h.at \/ End(h) <= a
    BY <1>1, <2>1, ClassOrChunk
  <2>. QED  BY <1>2, <1>3, <2>2
<1>6. ASSUME NEW c \in Classes, NEW d \in Classes,
             NEW a \in ClassBlocks(c), NEW b \in ClassBlocks(d), <<a, a + c>> # <<b, b + d>>
      PROVE  a + c <= b \/ b + d <= a
  <2>1. a = b => c = d
    BY <1>1, ClassBlocksApart
  <2>2. a # b
    BY <1>6, <2>1
  <2>. QED  BY <1>1, <2>2, ClassBlocksApart
<1>7. ASSUME NEW r \in Lent
      PROVE  r[1] \in Int /\ r[2] \in Int /\ 0 <= r[1] /\ r[1] < r[2] /\ r[2] <= UNITS
  <2>1. CASE \E h \in Held(chunks) : r = <<Data(h), End(h)>>
    BY <1>2, <2>1
  <2>2. CASE \E c \in Classes : \E a \in ClassBlocks(c) \ marked : r = <<a, a + c>>
    <3>1. PICK c \in Classes : \E a \in ClassBlocks(c) \ marked : r = <<a, a + c>>
      BY <2>2
    <3>2. PICK a \in ClassBlocks(c) : r = <<a, a + c>>
      BY <3>1
    <3>. QED  BY <1>3, <3>2
  <2>. QED  BY <2>1, <2>2, LentMembers
<1>8. ASSUME NEW q \in Lent, NEW r \in Lent, q # r
      PROVE  q[2] <= r[1] \/ r[2] <= q[1]
  <2>1. CASE \E h \in Held(chunks) : q = <<Data(h), End(h)>>
    <3>1. PICK g \in Held(chunks) : q = <<Data(g), End(g)>>
      BY <2>1
    <3>2. CASE \E h \in Held(chunks) : r = <<Data(h), End(h)>>
      BY <1>4, <1>8, <3>1, <3>2
    <3>3. CASE \E c \in Classes : \E a \in ClassBlocks(c) \ marked : r = <<a, a + c>>
      BY <1>5, <3>1, <3>3
    <3>. QED  BY <3>2, <3>3, LentMembers
  <2>2. CASE \E c \in Classes : \E a \in ClassBlocks(c) \ marked : q = <<a, a + c>>
    <3>0. PICK c \in Classes : \E a \in ClassBlocks(c) \ marked : q = <<a, a + c>>
      BY <2>2
    <3>1. PICK a \in ClassBlocks(c) : q = <<a, a + c>>
      BY <3>0
    <3>2. CASE \E h \in Held(chunks) : r = <<Data(h), End(h)>>
      BY <1>5, <3>1, <3>2
    <3>3. CASE \E d \in Classes : \E b \in ClassBlocks(d) \ marked : r = <<b, b + d>>
      <4>0. PICK d \in Classes : \E b \in ClassBlocks(d) \ marked : r = <<b, b + d>>
        BY <3>3
      <4>1. PICK b \in ClassBlocks(d) : r = <<b, b + d>>
        BY <4>0
      <4>2. a + c <= b \/ b + d <= a
        BY <1>6, <1>8, <3>1, <4>1
      <4>. QED  BY <3>1, <4>1, <4>2
    <3>. QED  BY <3>2, <3>3, LentMembers
  <2>. QED  BY <2>1, <2>2, LentMembers
<1>. QED  BY <1>7, <1>8 DEF Spread

(* Where there is something lent, there is a live block.                   *)
LEMMA LentIsLive ==
  ASSUME LiveInv, NEW r \in Lent
  PROVE  \E b \in live : b.at = r[1]
<1>1. CASE \E h \in Held(chunks) : r = <<Data(h), End(h)>>
  <2>1. PICK h \in Held(chunks) : r = <<Data(h), End(h)>>
    BY <1>1
  <2>2. PICK b \in live : BackedBy(b, h)
    BY DEF LiveInv
  <2>. QED  BY <2>1, <2>2 DEF BackedBy
<1>2. CASE \E c \in Classes : \E a \in ClassBlocks(c) \ marked : r = <<a, a + c>>
  BY <1>2 DEF LiveInv
<1>. QED  BY <1>1, <1>2, LentMembers

(* A step lends nothing, or one more place, or takes one back, and counts  *)
(* what it does.                                                           *)
ChargeStep ==
  \/ Lent' = Lent /\ used' = used
  \/ \E r : r \notin Lent /\ Lent' = Lent \cup {r} /\ used' = used + (r[2] - r[1])
  \/ \E r : /\ r \notin Lent' /\ Lent = Lent' \cup {r}
            /\ \/ used' = used - (r[2] - r[1])
               \/ used < r[2] - r[1] /\ used' = used

LEMMA SameLent ==
  ASSUME Held(chunks') = Held(chunks), class_pages' = class_pages, marked' = marked
  PROVE  Lent' = Lent
<1>1. \A c \in Classes : ClassBlocks(c)' = ClassBlocks(c)
  BY DEF ClassBlocks
<1>2. \A r : r \in Lent' <=> r \in Lent
  BY <1>1, LentMembers
<1>. QED  BY <1>2

(* One more block of a class.                                              *)
LEMMA LentBlock ==
  ASSUME LiveInv, NEW c \in Classes, c \in Int, NEW a \in Int, \A b \in live : b.at # a,
         Held(chunks') = Held(chunks), used' = used + c,
         \A d \in Classes : ClassBlocks(d)' \ marked' =
                              (ClassBlocks(d) \ marked) \cup (IF d = c THEN {a} ELSE {})
  PROVE  ChargeStep
<1>. DEFINE r == <<a, a + c>>
<1>1. r[1] = a /\ r[2] - r[1] = c
  OBVIOUS
<1>2. r \notin Lent
  BY <1>1, LentIsLive
<1>3. ASSUME NEW q PROVE q \in Lent' <=> q \in Lent \/ q = r
  <2>1. (\E d \in Classes : \E x \in ClassBlocks(d)' \ marked' : q = <<x, x + d>>)
          <=> \/ \E d \in Classes : \E x \in ClassBlocks(d) \ marked : q = <<x, x + d>>
              \/ q = r
    BY SMTT(40)
  <2>. QED  BY <2>1, LentMembers
<1>. HIDE DEF r
<1>4. Lent' = Lent \cup {r} /\ used' = used + (r[2] - r[1])
  BY <1>1, <1>3
<1>. QED  BY <1>2, <1>4 DEF ChargeStep

----------------------------------------------------------------------------
(* Steps.                                                                  *)

LEMMA InitInv == Init => IInv
<1>. SUFFICES ASSUME Init PROVE IInv
  OBVIOUS
<1>. USE DEF Init
<1>0. \A c \in Classes : class_pages[c] = {} /\ class_free[c] = <<>>
  OBVIOUS
<1>1. PagesInv
  BY <1>0 DEF PagesInv
<1>2. <<>> \in Seq(ChunkSet) /\ <<>> \in Seq(Int) /\ Len(<<>>) = 0
  BY EmptySeq
<1>3. Held(<<>>) = {} /\ \A u \in Int : ~Covered(<<>>, u)
  BY <1>2 DEF Held, Covered
<1>4. FreshInv
  BY <1>0, <1>3 DEF FreshInv
<1>5. HeapPages = {}
  BY DEF HeapPages
<1>6. \A u \in Int : ~Own({}, u)
  BY DEF Own
<1>7. \A k \in Int : ~Touches(<<>>, k)
  BY <1>2 DEF Touches
<1>8. HeapInv
  <2>1. Sound(<<>>)
    BY <1>2 DEF Sound
  <2>2. Tidy(<<>>, seams, {})
    BY <1>7 DEF Tidy
  <2>. QED  BY <1>3, <1>5, <1>6, <2>1, <2>2 DEF HeapInv
<1>9. ClassInv
  <2>1. class_free \in [Classes -> Seq(Int)]
    BY <1>2
  <2>2. \A c \in Classes : 1 .. Len(class_free[c]) = {}
    BY <1>0, <1>2
  <2>. QED  BY <2>1, <2>2 DEF ClassInv
<1>10. \A c \in Classes : ClassBlocks(c) = {}
  BY <1>0 DEF ClassBlocks
<1>11. LiveInv
  BY <1>3, <1>10 DEF LiveInv
<1>12. OpInv
  BY DEF OpInv, OpType, Idle, None
<1>. QED  BY <1>1, <1>4, <1>8, <1>9, <1>11, <1>12 DEF IInv

(* The thread's state after a block has been got for it.                   *)
LEMMA GotOp ==
  ASSUME OpInv, NEW t \in Threads, NEW a, Got(t, a), live \subseteq live'
  PROVE  OpInv'
<1>. DEFINE new == IF op[t].old = None THEN Idle ELSE [op[t] EXCEPT !.pc = "free"]
<1>0. \A u \in Threads : op[u] \in OpType
  BY DEF OpInv
<1>1. op' = [op EXCEPT ![t] = new]
  BY DEF Got
<1>2. op[t].old \in Int /\ op[t].size \in SIZES \cup {0} /\ None \in Int
  BY <1>0 DEF OpType, None
<1>3. /\ new \in OpType /\ new.old = op[t].old
      /\ new.pc \in {"idle", "free"}
      /\ new.pc = "idle" <=> op[t].old = None
  <2>1. CASE op[t].old = None
    BY <1>2, <2>1 DEF Idle, OpType
  <2>2. CASE op[t].old # None
    BY <1>0, <1>2, <2>2 DEF OpType
  <2>. QED  BY <2>1, <2>2
<1>. HIDE DEF new
<1>4. op' \in [Threads -> OpType]
  BY <1>1, <1>3 DEF OpInv
<1>5. op'[t] = new /\ \A u \in Threads : u # t => op'[u] = op[u]
  BY <1>1 DEF OpInv
<1>6. \A u \in Threads : op'[u].old = op[u].old
  BY <1>3, <1>5
<1>7. ASSUME NEW u \in Threads
      PROVE  /\ op'[u].pc \in {"class", "general"} => op'[u].size \in SIZES
             /\ op'[u].pc = "idle" => op'[u].old = None
             /\ op'[u].pc = "free" => op'[u].old # None
             /\ op'[u].old # None => \E b \in live' : b.at = op'[u].old
  <2>1. op'[u].old # None => \E b \in live' : b.at = op'[u].old
    BY <1>6 DEF OpInv
  <2>2. CASE u = t
    BY <1>3, <1>5, <2>1, <2>2
  <2>3. CASE u # t
    BY <1>5, <2>1, <2>3 DEF OpInv
  <2>. QED  BY <2>2, <2>3
<1>8. \A u, v \in Threads : u # v /\ op'[u].old # None => op'[u].old # op'[v].old
  BY <1>6 DEF OpInv
<1>. QED  BY <1>4, <1>7, <1>8 DEF OpInv

(* A thread that has nothing to do any more.                               *)
LEMMA IdleOp ==
  ASSUME OpInv, NEW t \in Threads, op' = [op EXCEPT ![t] = Idle],
         \A b \in live : b \in live' \/ b.at = op[t].old
  PROVE  OpInv'
<1>1. Idle \in OpType /\ Idle.pc = "idle" /\ Idle.old = None
  BY DEF Idle, OpType, None
<1>2. op'[t] = Idle /\ \A u \in Threads : u # t => op'[u] = op[u]
  BY DEF OpInv
<1>3. op' \in [Threads -> OpType]
  BY <1>1 DEF OpInv
<1>4. ASSUME NEW u \in Threads
      PROVE  /\ op'[u].pc \in {"class", "general"} => op'[u].size \in SIZES
             /\ op'[u].pc = "idle" => op'[u].old = None
             /\ op'[u].pc = "free" => op'[u].old # None
             /\ op'[u].old # None => \E b \in live' : b.at = op'[u].old
  <2>1. CASE u = t
    BY <1>1, <1>2, <2>1
  <2>2. CASE u # t
    <3>1. op'[u].old # None => \E b \in live' : b.at = op'[u].old
      BY <1>2, <2>2 DEF OpInv
    <3>. QED  BY <1>2, <2>2, <3>1 DEF OpInv
  <2>. QED  BY <2>1, <2>2
<1>5. ASSUME NEW u \in Threads, NEW v \in Threads, u # v, op'[u].old # None
      PROVE  op'[u].old # op'[v].old
  <2>1. u # t /\ op'[u] = op[u]
    BY <1>1, <1>2, <1>5
  <2>2. CASE v = t
    BY <1>1, <1>2, <1>5, <2>2
  <2>3. CASE v # t
    BY <1>2, <1>5, <2>1, <2>3 DEF OpInv
  <2>. QED  BY <2>2, <2>3
<1>. QED  BY <1>3, <1>4, <1>5 DEF OpInv

(* malloc takes a chunk out of a list that holds what the heap holds.      *)
LEMMA TakeStep ==
  ASSUME IInv, NEW t \in Threads, NEW s, NEW i \in 1 .. Len(s),
         General(t), TakeFrom(t, s, i),
         Sound(s), Held(s) = Held(chunks),
         \A u \in Int : ~(Covered(s, u) /\ Own(ClassPages, u))
  PROVE  /\ inited' = 1 /\ used' \in Int
         /\ class_pages' = class_pages /\ seeded' = seeded
         /\ Sound(chunks') /\ \A u \in Int : Covered(chunks', u) <=> Covered(s, u)
         /\ \A X : Tidy(s, X, {}) => Tidy(chunks', X, {})
         /\ ClassInv' /\ LiveInv' /\ OpInv' /\ ChargeStep
<1>. DEFINE size == op[t].size
            b == [at |-> Data(s[i]), size |-> size]
<1>1. size \in SIZES /\ size \in Nat \ {0}
  BY HeapAssumption DEF IInv, OpInv, General
<1>2. /\ inited' = 1 /\ Fits(s, i, size)
      /\ chunks' = Taken(s, i, size)
      /\ used' = used + Charged(s, i, size)
      /\ Got(t, Data(s[i]))
      /\ class_pages' = class_pages /\ class_free' = class_free
      /\ marked' = marked /\ seeded' = seeded
  BY DEF TakeFrom, FirstFit, Taken
<1>3. s \in Seq(ChunkSet) /\ s[i] \in ChunkSet /\ s[i].free = 1
  BY <1>2, ListItem DEF Sound, Fits
<1>4. used' \in Int
  <2>1. Taken(s, i, size)[i].size = Charged(s, i, size)
    BY <1>1, <1>2, <1>3, TakenShape
  <2>2. Len(Taken(s, i, size)) \in Nat /\ i \in 1 .. Len(Taken(s, i, size))
    BY <1>1, <1>2, <1>3, TakenShape, ListItem
  <2>3. Charged(s, i, size) \in Nat
    BY <1>1, <1>2, <1>3, <2>1, <2>2, TakenShape, ListItem
  <2>. QED  BY <1>2, <2>3 DEF IInv, PagesInv
<1>. HIDE DEF size
<1>5. PICK h \in ChunkSet : /\ h.at = s[i].at /\ h.free = 0 /\ h.size >= size
                            /\ h.size = Charged(s, i, size)
                            /\ Held(chunks') = Held(chunks) \cup {h}
  BY <1>1, <1>2, TakenKeeps
<1>6. /\ Sound(chunks') /\ \A u \in Int : Covered(chunks', u) <=> Covered(s, u)
      /\ \A X : Tidy(s, X, {}) => Tidy(chunks', X, {})
  BY <1>1, <1>2, TakenKeeps
<1>7. /\ live' = live \cup {b} /\ b.at = Data(h) /\ b.size = size /\ b \in Block
  <2>1. live' = live \cup {b}
    BY <1>2 DEF Got, size
  <2>2. Data(s[i]) \in Int /\ Data(h) = Data(s[i])
    BY <1>3, <1>5, ChunkFields DEF Data
  <2>3. b.at = Data(h) /\ b.size = size
    BY <2>2
  <2>. QED  BY <1>1, <2>1, <2>2, <2>3 DEF Block
<1>8. \A c \in Classes : ClassBlocks(c)' = ClassBlocks(c)
  BY <1>2 DEF ClassBlocks
<1>9. ClassInv'
  BY <1>2, <1>8 DEF IInv, ClassInv
<1>10. ASSUME NEW d \in live PROVE d.at # b.at
  <2>1. CASE \E g \in Held(chunks) : BackedBy(d, g)
    <3>1. PICK g \in Held(s) : d.at = Data(g)
      BY <2>1 DEF BackedBy
    <3>2. g \in ChunkSet /\ g.free = 0 /\ \E j \in 1 .. Len(s) : g = s[j]
      BY <3>1, HeldItem
    <3>3. Apart(g, s[i])
      BY <1>3, <3>2 DEF Sound
    <3>4. /\ g.at < Data(g) /\ Data(g) < End(g) /\ End(g) \in Nat /\ Data(g) \in Nat
          /\ s[i].at < Data(s[i]) /\ Data(s[i]) < End(s[i]) /\ Data(s[i]) \in Nat
          /\ s[i].at \in Nat /\ g.at \in Nat /\ End(s[i]) \in Nat
      BY <1>3, <3>2, ChunkFields
    <3>5. Data(g) # Data(s[i])
      BY <3>3, <3>4 DEF Apart
    <3>. QED  BY <3>1, <3>5
  <2>2. CASE \E c \in Classes : InClass(d, c)
    <3>1. PICK c \in Classes : d.at \in ClassBlocks(c)
      BY <2>2 DEF InClass
    <3>2. d.at + c <= s[i].at \/ End(s[i]) <= d.at
      BY <3>1, ClassOrChunk DEF IInv
    <3>3. d.at \in Int /\ c \in Nat \ {0}
      BY <3>1, ClassBlocksApart DEF IInv
    <3>4. /\ s[i].at < Data(s[i]) /\ Data(s[i]) < End(s[i]) /\ Data(s[i]) \in Nat
          /\ s[i].at \in Nat /\ End(s[i]) \in Nat
      BY <1>3, ChunkFields
    <3>. QED  BY <3>2, <3>3, <3>4
  <2>. QED  BY <2>1, <2>2 DEF IInv, LiveInv
<1>11. BackedBy(b, h)
  BY <1>1, <1>5, <1>7, ChunkFields DEF BackedBy
<1>. HIDE DEF b
<1>12. LiveInv'
  <2>0. /\ live \subseteq Block
        /\ \A d \in live : \/ \E g \in Held(chunks) : BackedBy(d, g)
                           \/ \E c \in Classes : InClass(d, c)
        /\ \A g \in Held(chunks) : \E d \in live : BackedBy(d, g)
        /\ \A c \in Classes : \A a \in ClassBlocks(c) \ marked : \E d \in live : d.at = a
        /\ \A d, e \in live : d.at = e.at => d = e
    BY DEF IInv, LiveInv
  <2>1. live' \subseteq Block
    BY <1>7, <2>0
  <2>2. \A d \in live' : \/ \E g \in Held(chunks') : BackedBy(d, g)
                         \/ \E c \in Classes : InClass(d, c)'
    BY <1>2, <1>5, <1>7, <1>8, <1>11, <2>0 DEF InClass
  <2>3. \A g \in Held(chunks') : \E d \in live' : BackedBy(d, g)
    BY <1>5, <1>7, <1>11, <2>0
  <2>4. \A c \in Classes : \A a \in ClassBlocks(c)' \ marked' : \E d \in live' : d.at = a
    BY <1>2, <1>7, <1>8, <2>0
  <2>5. \A d, e \in live' : d.at = e.at => d = e
    BY <1>7, <1>10, <2>0
  <2>. QED  BY <2>1, <2>2, <2>3, <2>4, <2>5 DEF LiveInv
<1>13. OpInv'
  <2>1. live \subseteq live' /\ OpInv
    BY <1>7 DEF IInv
  <2>. QED  BY <1>2, <2>1, GotOp
<1>14. ChargeStep
  <2>. DEFINE r == <<Data(h), End(h)>>
  <2>1. r[2] - r[1] = h.size
    BY <1>5, ChunkFields
  <2>2. r \notin Lent
    <3>1. r[1] = b.at /\ LiveInv
      BY <1>7 DEF IInv
    <3>. QED  BY <1>10, <3>1, LentIsLive
  <2>3. ASSUME NEW q PROVE q \in Lent' <=> q \in Lent \/ q = r
    <3>1. (\E g \in Held(chunks') : q = <<Data(g), End(g)>>)
             <=> (\E g \in Held(chunks) : q = <<Data(g), End(g)>>) \/ q = r
      BY <1>5
    <3>2. (\E c \in Classes : \E a \in ClassBlocks(c)' \ marked' : q = <<a, a + c>>)
             <=> \E c \in Classes : \E a \in ClassBlocks(c) \ marked : q = <<a, a + c>>
      BY <1>2, <1>8
    <3>. QED  BY <3>1, <3>2, LentMembers
  <2>. HIDE DEF r
  <2>4. Lent' = Lent \cup {r} /\ used' = used + (r[2] - r[1])
    BY <1>2, <1>5, <2>1, <2>3
  <2>. QED  BY <2>2, <2>4 DEF ChargeStep
<1>. QED  BY <1>2, <1>4, <1>6, <1>9, <1>12, <1>13, <1>14

(* ... after the heap has grown by the pages P.                            *)
LEMMA MallocStep ==
  ASSUME IInv, NEW t \in Threads, NEW s, NEW i \in 1 .. Len(s),
         General(t), TakeFrom(t, s, i), NEW P,
         P \subseteq pages, pages' = pages \ P,
         Sound(s), Held(s) = Held(chunks),
         \A u \in Int : Covered(s, u) <=> Covered(List, u) \/ Own(P, u),
         seams' \subseteq Pages, Tidy(s, seams', {})
  PROVE  IInv' /\ ChargeStep
<1>. DEFINE Q == Pages \ (pages \cup ClassPages \cup seeded)
<1>0. PagesInv /\ ClassPages \subseteq Pages /\ pages \subseteq Pages
  BY DEF IInv, PagesInv, ClassPages
<1>1. \A u \in Int : Covered(s, u) <=> Own(Q, u) \/ Own(P, u)
  BY ListFacts
<1>2. P \cap ClassPages = {} /\ P \cap seeded = {}
  BY <1>0 DEF PagesInv, ClassPages
<1>3. \A u \in Int : ~(Covered(s, u) /\ Own(ClassPages, u))
  <2>1. ASSUME NEW u \in Int, Own(ClassPages, u) PROVE ~Own(Q, u)
    BY <1>0, <2>1, OwnApart
  <2>2. ASSUME NEW u \in Int, Own(ClassPages, u) PROVE ~Own(P, u)
    BY <1>0, <1>2, <2>2, OwnApart
  <2>. QED  BY <1>1, <2>1, <2>2
<1>4. /\ inited' = 1 /\ used' \in Int
      /\ class_pages' = class_pages /\ seeded' = seeded
      /\ Sound(chunks') /\ \A u \in Int : Covered(chunks', u) <=> Covered(s, u)
      /\ \A X : Tidy(s, X, {}) => Tidy(chunks', X, {})
      /\ ClassInv' /\ LiveInv' /\ OpInv' /\ ChargeStep
  BY <1>3, TakeStep
<1>5. PagesInv'
  BY <1>0, <1>4 DEF PagesInv
<1>6. FreshInv'
  BY <1>4 DEF FreshInv
<1>7. HeapPages' = Q \cup P
  <2>1. ClassPages' = ClassPages
    BY <1>4 DEF ClassPages
  <2>2. HeapPages' = Pages \ ((pages \ P) \cup ClassPages \cup seeded)
    BY <1>4, <2>1 DEF HeapPages
  <2>. QED  BY <1>0, <1>2, <2>2
<1>8. \A u : Own(Q \cup P, u) <=> Own(Q, u) \/ Own(P, u)
  BY DEF Own
<1>. HIDE DEF Q
<1>9. HeapInv'
  <2>1. \A u \in Int : Covered(chunks', u) <=> Own(HeapPages', u)
    BY <1>1, <1>4, <1>7, <1>8
  <2>. QED  BY <1>4, <2>1 DEF HeapInv
<1>. QED  BY <1>4, <1>5, <1>6, <1>9 DEF IInv

LEMMA TakeChunkStep ==
  ASSUME IInv, NEW t \in Threads, NEW i \in 1 .. Len(List), TakeChunk(t, i)
  PROVE  IInv' /\ ChargeStep
<1>1. General(t) /\ TakeFrom(t, List, i) /\ pages' = pages \ {} /\ seams' = seams
  BY DEF TakeChunk
<1>2. Sound(List) /\ Held(List) = Held(chunks) /\ Tidy(List, seams', {})
  BY <1>1, ListFacts
<1>3. \A u : ~Own({}, u)
  BY DEF Own
<1>4. seams' \subseteq Pages
  BY <1>1 DEF IInv, PagesInv
<1>. DEFINE P == {}
<1>5. /\ P \subseteq pages /\ pages' = pages \ P
      /\ \A u \in Int : Covered(List, u) <=> Covered(List, u) \/ Own(P, u)
  BY <1>1, <1>3
<1>. HIDE DEF P
<1>. QED  BY <1>1, <1>2, <1>4, <1>5, MallocStep

(* Pages of the page allocator are not in the list.                        *)
LEMMA PagesNotListed ==
  ASSUME IInv, NEW P, P \subseteq pages, NEW u \in Int, Own(P, u)
  PROVE  ~Covered(List, u)
<1>. DEFINE Q == Pages \ (pages \cup ClassPages \cup seeded)
<1>1. P \subseteq Pages /\ Q \subseteq Pages /\ P \cap Q = {}
  BY DEF IInv, PagesInv
<1>2. ~Own(Q, u)
  BY <1>1, OwnApart
<1>. QED  BY <1>2, ListFacts

LEMMA GrowByPageStep ==
  ASSUME IInv, NEW t \in Threads, NEW p \in pages, NEW i \in 1 .. Len(List) + 1,
         GrowByPage(t, p, i)
  PROVE  IInv' /\ ChargeStep
<1>. DEFINE s == AddPage(List, p)
<1>1. /\ General(t) /\ TakeFrom(t, s, i) /\ pages' = pages \ {p} /\ seams' = seams
      /\ i \in 1 .. Len(s)
  BY DEF GrowByPage, TakeFrom, FirstFit
<1>2. Sound(List) /\ Held(List) = Held(chunks) /\ Tidy(List, seams, {})
  BY ListFacts
<1>3. p \in Nat /\ p + PAGE <= UNITS
  BY PagesApart DEF IInv, PagesInv
<1>4. \A u \in Int : Own({p}, u) <=> p <= u /\ u < p + PAGE
  BY DEF Own
<1>5. \A u \in Int : ~(Covered(List, u) /\ p <= u /\ u < p + PAGE)
  BY <1>4, PagesNotListed
<1>6. /\ Sound(s) /\ Held(s) = Held(List)
      /\ \A u \in Int : Covered(s, u) <=> Covered(List, u) \/ (p <= u /\ u < p + PAGE)
      /\ \A X : Tidy(List, X, {}) => Tidy(s, X, {})
  BY <1>2, <1>3, <1>5, AddPageKeeps
<1>. HIDE DEF s
<1>7. \A u \in Int : Covered(s, u) <=> Covered(List, u) \/ Own({p}, u)
  BY <1>4, <1>6
<1>8. seams' \subseteq Pages /\ Tidy(s, seams', {}) /\ {p} \subseteq pages
  BY <1>1, <1>2, <1>6 DEF IInv, PagesInv
<1>9. Held(s) = Held(chunks)
  BY <1>2, <1>6
<1>. QED  BY <1>1, <1>6, <1>7, <1>8, <1>9, MallocStep

LEMMA GrowByRunStep ==
  ASSUME IInv, NEW t \in Threads, NEW p \in pages, NEW i \in 1 .. Len(List) + 1,
         GrowByRun(t, p, i)
  PROVE  IInv' /\ ChargeStep
<1>. DEFINE size == op[t].size
            n == RunLength(size)
            P == Run(p, n)
            s == AddRun(List, p, n)
<1>1. /\ General(t) /\ TakeFrom(t, s, i) /\ pages' = pages \ P /\ P \subseteq pages
      /\ seams' = seams \cup {p} /\ i \in 1 .. Len(s)
  BY DEF GrowByRun, TakeFrom, FirstFit
<1>2. Sound(List) /\ Held(List) = Held(chunks) /\ Tidy(List, seams, {})
  BY ListFacts
<1>3. size \in Nat \ {0}
  BY <1>1, HeapAssumption DEF IInv, OpInv, General
<1>4. pages \subseteq Pages /\ p \in Int /\ 0 <= p
  BY PagesApart DEF IInv, PagesInv
<1>. HIDE DEF size
<1>5. /\ n \in Nat \ {0} /\ n * PAGE \in Nat /\ n * PAGE >= PAGE
      /\ p \in Pages /\ p + n * PAGE <= UNITS
  BY <1>1, <1>3, <1>4, RunFits
<1>. HIDE DEF n
<1>6. \A u \in Int : Own(P, u) <=> p <= u /\ u < p + n * PAGE
  BY <1>4, <1>5, RunCovers DEF Own
<1>7. \A u \in Int : ~(Covered(List, u) /\ p <= u /\ u < p + n * PAGE)
  BY <1>1, <1>6, PagesNotListed
<1>8. n * PAGE > HEADER /\ p \in Nat
  BY <1>4, <1>5, HeapAssumption
<1>. DEFINE len == n * PAGE
<1>9. s = Append(List, Chunk(p, len - HEADER, 1))
  BY DEF AddRun
<1>10. /\ len \in Nat /\ len > HEADER /\ p + len <= UNITS
       /\ \A u \in Int : ~(Covered(List, u) /\ p <= u /\ u < p + len)
       /\ \A u \in Int : Own(P, u) <=> p <= u /\ u < p + len
  BY <1>5, <1>6, <1>7, <1>8
<1>. HIDE DEF len, s, P
<1>11. /\ Sound(s) /\ Held(s) = Held(List)
       /\ \A u \in Int : Covered(s, u) <=> Covered(List, u) \/ (p <= u /\ u < p + len)
       /\ \A X : Tidy(List, X, {}) => Tidy(s, X \cup {p}, {})
  BY <1>2, <1>8, <1>9, <1>10, AppendKeeps
<1>12. \A u \in Int : Covered(s, u) <=> Covered(List, u) \/ Own(P, u)
  BY <1>10, <1>11
<1>13. seams' \subseteq Pages /\ Tidy(s, seams', {})
  BY <1>1, <1>2, <1>4, <1>11 DEF IInv, PagesInv
<1>14. Held(s) = Held(chunks)
  BY <1>2, <1>11
<1>. QED  BY <1>1, <1>11, <1>12, <1>13, <1>14, MallocStep

LEMMA PreseedStep ==
  ASSUME IInv, NEW p \in pages, Preseed(p)
  PROVE  IInv' /\ ChargeStep
<1>1. /\ inited = 0 /\ inited' = inited /\ pages' = pages \ {p} /\ seeded' = seeded \cup {p}
      /\ chunks' = AddPage(chunks, p)
      /\ class_pages' = class_pages /\ class_free' = class_free /\ marked' = marked
      /\ used' = used /\ op' = op /\ live' = live /\ seams' = seams
  BY DEF Preseed
<1>2. p \in Pages /\ p \notin seeded /\ p \notin ClassPages
  BY DEF IInv, PagesInv, ClassPages
<1>3. p \in Nat /\ p + PAGE <= UNITS
  BY <1>2, PagesApart
<1>4. HeapPages' = HeapPages \cup {p}
  <2>1. ClassPages' = ClassPages
    BY <1>1 DEF ClassPages
  <2>2. /\ HeapPages = Pages \ (pages \cup ClassPages \cup {})
        /\ HeapPages' = Pages \ ((pages \ {p}) \cup ClassPages \cup {})
    BY <1>1, <2>1 DEF HeapPages
  <2>. QED  BY <1>2, <2>2
<1>5. HeapPages \subseteq Pages /\ p \notin HeapPages
  BY <1>1 DEF HeapPages
<1>6. \A u \in Int : Own({p}, u) <=> p <= u /\ u < p + PAGE
  BY DEF Own
<1>7. \A u \in Int : ~(Covered(chunks, u) /\ p <= u /\ u < p + PAGE)
  <2>1. {p} \subseteq Pages /\ {p} \cap HeapPages = {}
    BY <1>2, <1>5
  <2>. QED  BY <1>5, <1>6, <2>1, OwnApart DEF IInv, HeapInv
<1>8. /\ Sound(chunks') /\ Held(chunks') = Held(chunks)
      /\ \A u \in Int : Covered(chunks', u) <=> Covered(chunks, u) \/ (p <= u /\ u < p + PAGE)
      /\ Tidy(chunks', seams', {})
  BY <1>1, <1>3, <1>7, AddPageKeeps DEF IInv, HeapInv
<1>9. HeapInv'
  <2>1. \A u \in Int : Own(HeapPages', u) <=> Own(HeapPages, u) \/ Own({p}, u)
    BY <1>4 DEF Own
  <2>2. \A u \in Int : Covered(chunks', u) <=> Own(HeapPages', u)
    BY <1>6, <1>8, <2>1 DEF IInv, HeapInv
  <2>. QED  BY <1>8, <2>2 DEF HeapInv
<1>10. PagesInv'
  BY <1>1, <1>2 DEF IInv, PagesInv, ClassPages
<1>11. FreshInv'
  BY <1>1, <1>8 DEF IInv, FreshInv
<1>12. \A c \in Classes : ClassBlocks(c)' = ClassBlocks(c)
  BY <1>1 DEF ClassBlocks
<1>13. ClassInv'
  BY <1>1, <1>12 DEF IInv, ClassInv
<1>14. LiveInv'
  BY <1>1, <1>8, <1>12 DEF IInv, LiveInv, InClass
<1>15. OpInv'
  BY <1>1 DEF IInv, OpInv
<1>16. ChargeStep
  BY <1>1, <1>8, SameLent DEF ChargeStep
<1>. QED  BY <1>9, <1>10, <1>11, <1>13, <1>14, <1>15, <1>16 DEF IInv

(* What does not touch the heap.                                           *)
LEMMA HeapFrame ==
  ASSUME IInv, UNCHANGED <<inited, chunks, class_pages, class_free, marked, used, pages, live,
                           seeded, seams>>
  PROVE  PagesInv' /\ FreshInv' /\ HeapInv' /\ ClassInv' /\ LiveInv' /\ ChargeStep
<1>1. \A c \in Classes : ClassBlocks(c)' = ClassBlocks(c)
  BY DEF ClassBlocks
<1>2. HeapPages' = HeapPages
  BY DEF HeapPages, ClassPages
<1>3. PagesInv' /\ FreshInv'
  BY DEF IInv, PagesInv, FreshInv
<1>4. HeapInv'
  BY <1>2 DEF IInv, HeapInv
<1>5. ClassInv'
  BY <1>1 DEF IInv, ClassInv
<1>6. LiveInv'
  BY <1>1 DEF IInv, LiveInv, InClass
<1>7. ChargeStep
  BY SameLent DEF ChargeStep
<1>. QED  BY <1>3, <1>4, <1>5, <1>6, <1>7

LEMMA CallStep ==
  ASSUME IInv, NEW t \in Threads, NEW size \in SIZES, NEW old \in Int, Call(t, size, old),
         \/ old = None
         \/ ~InRealloc(old) /\ \E b \in live : b.at = old
  PROVE  IInv' /\ ChargeStep
<1>. DEFINE new == [pc |-> IF HasClass(size) THEN "class" ELSE "general",
                    size |-> size, old |-> old]
<1>1. /\ op' = [op EXCEPT ![t] = new]
      /\ UNCHANGED <<inited, chunks, class_pages, class_free, marked, used, pages, live,
                     seeded, seams>>
  BY DEF Call
<1>2. /\ new \in OpType /\ new.size = size /\ new.old = old
      /\ new.pc \in {"class", "general"}
  <2>1. (IF HasClass(size) THEN "class" ELSE "general") \in {"class", "general"}
    OBVIOUS
  <2>. QED  BY <2>1 DEF OpType
<1>. HIDE DEF new
<1>3. op'[t] = new /\ \A u \in Threads : u # t => op'[u] = op[u]
  BY <1>1 DEF IInv, OpInv
<1>4. op' \in [Threads -> OpType]
  BY <1>1, <1>2 DEF IInv, OpInv
<1>5. old # None => \A u \in Threads : op[u].old # old
  BY DEF InRealloc
<1>6. ASSUME NEW u \in Threads
      PROVE  /\ op'[u].pc \in {"class", "general"} => op'[u].size \in SIZES
             /\ op'[u].pc = "idle" => op'[u].old = None
             /\ op'[u].pc = "free" => op'[u].old # None
             /\ op'[u].old # None => \E b \in live' : b.at = op'[u].old
  <2>1. CASE u = t
    BY <1>1, <1>2, <1>3, <2>1
  <2>2. CASE u # t
    BY <1>1, <1>3, <2>2 DEF IInv, OpInv
  <2>. QED  BY <2>1, <2>2
<1>7. ASSUME NEW u \in Threads, NEW v \in Threads, u # v, op'[u].old # None
      PROVE  op'[u].old # op'[v].old
  <2>1. CASE u = t
    <3>1. op'[u].old = old /\ op'[v] = op[v]
      BY <1>2, <1>3, <1>7, <2>1
    <3>. QED  BY <1>5, <1>7, <3>1
  <2>2. CASE v = t
    <3>1. op'[v].old = old /\ op'[u] = op[u]
      BY <1>2, <1>3, <1>7, <2>2
    <3>. QED  BY <1>5, <1>7, <3>1
  <2>3. CASE u # t /\ v # t
    <3>1. op'[u] = op[u] /\ op'[v] = op[v]
      BY <1>3, <2>3
    <3>. QED  BY <1>7, <3>1 DEF IInv, OpInv
  <2>. QED  BY <2>1, <2>2, <2>3
<1>8. OpInv'
  BY <1>4, <1>6, <1>7 DEF OpInv
<1>. QED  BY <1>1, <1>8, HeapFrame DEF IInv

(* The chunk list after a malloc that takes nothing out of it.             *)
LEMMA ListStep ==
  ASSUME IInv, inited' = 1, chunks' = List, seeded' = seeded, seams' = seams,
         pages' \cup ClassPages' = pages \cup ClassPages
  PROVE  HeapInv' /\ FreshInv' /\ Held(chunks') = Held(chunks)
<1>1. HeapPages' = Pages \ (pages \cup ClassPages \cup seeded)
  BY DEF HeapPages
<1>2. \A u \in Int : Covered(chunks', u) <=> Own(HeapPages', u)
  BY <1>1, ListFacts
<1>3. Sound(chunks') /\ Tidy(chunks', seams', {}) /\ Held(chunks') = Held(chunks)
  BY ListFacts
<1>4. HeapInv'
  BY <1>2, <1>3 DEF HeapInv
<1>. QED  BY <1>3, <1>4 DEF FreshInv

LEMMA ResetFrame ==
  ASSUME IInv, inited' = 1, chunks' = List,
         UNCHANGED <<class_pages, class_free, marked, used, pages, live, seeded, seams>>
  PROVE  PagesInv' /\ FreshInv' /\ HeapInv' /\ ClassInv' /\ LiveInv' /\ ChargeStep
<1>1. \A c \in Classes : ClassBlocks(c)' = ClassBlocks(c)
  BY DEF ClassBlocks
<1>2. ClassPages' = ClassPages
  BY DEF ClassPages
<1>3. HeapInv' /\ FreshInv' /\ Held(chunks') = Held(chunks)
  BY <1>2, ListStep
<1>4. PagesInv'
  BY DEF IInv, PagesInv
<1>5. ClassInv'
  BY <1>1 DEF IInv, ClassInv
<1>6. LiveInv'
  BY <1>1, <1>3 DEF IInv, LiveInv, InClass
<1>7. ChargeStep
  BY <1>3, SameLent DEF ChargeStep
<1>. QED  BY <1>3, <1>4, <1>5, <1>6, <1>7

LEMMA FailsStep ==
  ASSUME IInv, NEW t \in Threads, Fails(t)
  PROVE  IInv' /\ ChargeStep
<1>1. /\ inited' = 1 /\ chunks' = List /\ op' = [op EXCEPT ![t] = Idle]
      /\ UNCHANGED <<class_pages, class_free, marked, used, pages, live, seeded, seams>>
  BY DEF Fails
<1>2. OpInv'
  BY <1>1, IdleOp DEF IInv
<1>. QED  BY <1>1, <1>2, ResetFrame DEF IInv

LEMMA FallbackStep ==
  ASSUME IInv, NEW t \in Threads, NEW c \in Classes, Fallback(t, c)
  PROVE  IInv' /\ ChargeStep
<1>. DEFINE new == [op[t] EXCEPT !.pc = "general"]
<1>1. /\ inited' = 1 /\ chunks' = List /\ op' = [op EXCEPT ![t] = new] /\ op[t].pc = "class"
      /\ UNCHANGED <<class_pages, class_free, marked, used, pages, live, seeded, seams>>
  BY DEF Fallback
<1>2. op[t] \in OpType
  BY DEF IInv, OpInv
<1>3. /\ new \in OpType /\ new.pc = "general" /\ new.size = op[t].size
      /\ new.old = op[t].old
  BY <1>2 DEF OpType
<1>. HIDE DEF new
<1>4. op'[t] = new /\ \A u \in Threads : u # t => op'[u] = op[u]
  BY <1>1 DEF IInv, OpInv
<1>5. op' \in [Threads -> OpType]
  BY <1>1, <1>3 DEF IInv, OpInv
<1>6. \A u \in Threads : op'[u].old = op[u].old
  BY <1>3, <1>4
<1>7. ASSUME NEW u \in Threads
      PROVE  /\ op'[u].pc \in {"class", "general"} => op'[u].size \in SIZES
             /\ op'[u].pc = "idle" => op'[u].old = None
             /\ op'[u].pc = "free" => op'[u].old # None
             /\ op'[u].old # None => \E b \in live' : b.at = op'[u].old
  <2>1. CASE u = t
    <3>1. op[t].size \in SIZES
      BY <1>1 DEF IInv, OpInv
    <3>2. op'[u].old # None => \E b \in live' : b.at = op'[u].old
      BY <1>1, <1>6 DEF IInv, OpInv
    <3>. QED  BY <1>3, <1>4, <2>1, <3>1, <3>2
  <2>2. CASE u # t
    BY <1>1, <1>4, <2>2 DEF IInv, OpInv
  <2>. QED  BY <2>1, <2>2
<1>8. \A u, v \in Threads : u # v /\ op'[u].old # None => op'[u].old # op'[v].old
  BY <1>6 DEF IInv, OpInv
<1>9. OpInv'
  BY <1>5, <1>7, <1>8 DEF OpInv
<1>. QED  BY <1>1, <1>9, ResetFrame DEF IInv

(* A block of a class that is marked, or not a block yet, is not live.     *)
LEMMA NotLive ==
  ASSUME IInv, NEW a, NEW c \in Classes, a \in ClassBlocks(c), a \in marked
  PROVE  \A d \in live : d.at # a
<1>1. ASSUME NEW d \in live, d.at = a PROVE FALSE
  <2>1. CASE \E g \in Held(chunks) : BackedBy(d, g)
    <3>1. PICK g \in Held(chunks) : a = Data(g)
      BY <1>1, <2>1 DEF BackedBy
    <3>2. Sound(chunks) /\ PagesInv /\ \A u \in Int : ~(Covered(chunks, u) /\ Own(ClassPages, u))
      BY HeapIsNoClassPage DEF IInv, HeapInv
    <3>3. PICK i \in 1 .. Len(chunks) : g = chunks[i]
      BY <3>1, <3>2, HeldItem
    <3>4. a + c <= g.at \/ End(g) <= a
      BY <3>2, <3>3, ClassOrChunk
    <3>5. g \in ChunkSet /\ c \in Nat \ {0}
      BY <3>1, <3>2, HeldItem, PerPage
    <3>6. g.at \in Nat /\ g.at < Data(g) /\ Data(g) < End(g) /\ Data(g) \in Nat /\ End(g) \in Nat
      BY <3>5, ChunkFields
    <3>. QED  BY <3>1, <3>4, <3>5, <3>6
  <2>2. CASE \E e \in Classes : InClass(d, e)
    BY <1>1, <2>2 DEF InClass
  <2>. QED  BY <2>1, <2>2 DEF IInv, LiveInv
<1>. QED  BY <1>1

(* A block handed out of a class.                                          *)
LEMMA ClassLive ==
  ASSUME IInv, NEW t \in Threads, NEW c \in Classes, NEW a \in Int,
         op[t].pc = "class", IsClassOf(c, op[t].size), Got(t, a),
         Held(chunks') = Held(chunks),
         a \in ClassBlocks(c)', a \notin marked',
         \A d \in live : d.at # a,
         \A d \in Classes : ClassBlocks(d)' \ marked' =
                              (ClassBlocks(d) \ marked) \cup (IF d = c THEN {a} ELSE {})
  PROVE  LiveInv' /\ OpInv'
<1>1. op[t].size \in SIZES /\ op[t].size <= c
  <2>1. op[t].size \in SIZES /\ op[t].size \in Nat /\ c \in Nat
    BY HeapAssumption, PerPage DEF IInv, OpInv
  <2>. QED  BY <2>1 DEF IsClassOf
<1>2. PICK b : live' = live \cup {b} /\ b \in Block /\ b.at = a /\ b.size <= c
  <2>. DEFINE d == [at |-> a, size |-> op[t].size]
  <2>1. live' = live \cup {d} /\ d \in Block /\ d.at = a /\ d.size <= c
    BY <1>1 DEF Got, Block
  <2>. QED  BY <2>1
<1>3. InClass(b, c)'
  BY <1>2 DEF InClass
<1>4. /\ live \subseteq Block
      /\ \A d \in live : \/ \E g \in Held(chunks) : BackedBy(d, g)
                         \/ \E e \in Classes : InClass(d, e)
      /\ \A g \in Held(chunks) : \E d \in live : BackedBy(d, g)
      /\ \A e \in Classes : \A x \in ClassBlocks(e) \ marked : \E d \in live : d.at = x
      /\ \A d, e \in live : d.at = e.at => d = e
  BY DEF IInv, LiveInv
<1>5. live' \subseteq Block
  BY <1>2, <1>4
<1>6. \A d \in live' : \/ \E g \in Held(chunks') : BackedBy(d, g)
                       \/ \E e \in Classes : InClass(d, e)'
  <2>1. ASSUME NEW d \in live, NEW e \in Classes, InClass(d, e) PROVE InClass(d, e)'
    <3>1. ClassBlocks(e) \ marked \subseteq ClassBlocks(e)' \ marked'
      OBVIOUS
    <3>2. d.at \in ClassBlocks(e) \ marked /\ d.size <= e
      BY <2>1 DEF InClass
    <3>3. d.at \in ClassBlocks(e)' \ marked'
      BY <3>1, <3>2
    <3>. QED  BY <3>2, <3>3 DEF InClass
  <2>. QED  BY <1>2, <1>3, <1>4, <2>1
<1>7. \A g \in Held(chunks') : \E d \in live' : BackedBy(d, g)
  BY <1>2, <1>4
<1>8. \A e \in Classes : \A x \in ClassBlocks(e)' \ marked' : \E d \in live' : d.at = x
  BY <1>2, <1>4
<1>9. \A d, e \in live' : d.at = e.at => d = e
  BY <1>2, <1>4
<1>10. LiveInv'
  BY <1>5, <1>6, <1>7, <1>8, <1>9 DEF LiveInv
<1>11. live \subseteq live' /\ OpInv
  BY <1>2 DEF IInv
<1>. QED  BY <1>10, <1>11, GotOp

LEMMA PopBlockStep ==
  ASSUME IInv, NEW t \in Threads, NEW c \in Classes, PopBlock(t, c)
  PROVE  IInv' /\ ChargeStep
<1>. DEFINE s == class_free[c]
            a == Head(s)
<1>1. /\ op[t].pc = "class" /\ IsClassOf(c, op[t].size) /\ s # <<>>
      /\ class_free' = [class_free EXCEPT ![c] = Tail(s)]
      /\ marked' = marked \ {a} /\ used' = used + c /\ Got(t, a)
      /\ UNCHANGED <<inited, chunks, class_pages, pages, seeded, seams>>
  BY DEF PopBlock, Unmarked
<1>2. s \in Seq(Int)
  BY DEF IInv, ClassInv
<1>3. /\ a \in Int /\ a = s[1] /\ Tail(s) \in Seq(Int) /\ Len(s) \in Nat /\ 1 \in 1 .. Len(s)
      /\ Len(Tail(s)) = Len(s) - 1
      /\ \A k \in 1 .. Len(s) - 1 : Tail(s)[k] = s[k + 1]
  BY <1>1, <1>2, HeadTailProperties, EmptySeq, LenProperties
<1>4. a \in marked /\ a \in ClassBlocks(c)
  BY <1>3 DEF IInv, ClassInv
<1>. HIDE DEF a, s
<1>5. \A d \in Classes : ClassBlocks(d)' = ClassBlocks(d)
  BY <1>1 DEF ClassBlocks
<1>6. \A d \in Classes : d # c => a \notin ClassBlocks(d)
  BY <1>4, ClassBlocksApart DEF IInv
<1>7. PagesInv' /\ FreshInv' /\ HeapInv'
  <2>1. HeapPages' = HeapPages
    BY <1>1 DEF HeapPages, ClassPages
  <2>2. HeapInv'
    BY <1>1, <2>1 DEF IInv, HeapInv
  <2>3. c \in Int
    BY PerPage
  <2>4. PagesInv'
    BY <1>1, <2>3 DEF IInv, PagesInv
  <2>5. inited # 0
    BY <1>4 DEF IInv, FreshInv, ClassBlocks
  <2>. QED  BY <1>1, <2>2, <2>4, <2>5 DEF FreshInv
<1>8. ClassInv'
  <2>1. class_free' \in [Classes -> Seq(Int)]
    BY <1>1, <1>3 DEF IInv, ClassInv
  <2>2. class_free'[c] = Tail(s) /\ \A d \in Classes : d # c => class_free'[d] = class_free[d]
    BY <1>1 DEF IInv, ClassInv
  <2>3. \A j, k \in 1 .. Len(s) : s[j] = s[k] => j = k
    BY DEF IInv, ClassInv, s
  <2>4. \A x : (\E k \in 1 .. Len(s) : s[k] = x) <=> x \in marked /\ x \in ClassBlocks(c)
    BY DEF IInv, ClassInv, s
  <2>5. \A j, k \in 1 .. Len(Tail(s)) : Tail(s)[j] = Tail(s)[k] => j = k
    <3>1. ASSUME NEW j \in 1 .. Len(s) - 1, NEW k \in 1 .. Len(s) - 1, Tail(s)[j] = Tail(s)[k]
          PROVE  j = k
      <4>1. j + 1 \in 1 .. Len(s) /\ k + 1 \in 1 .. Len(s) /\ s[j + 1] = s[k + 1]
        BY <1>3, <3>1
      <4>2. j + 1 = k + 1
        BY <2>3, <4>1
      <4>. QED  BY <4>2
    <3>. QED  BY <1>3, <3>1
  <2>6. ASSUME NEW x
        PROVE  (\E k \in 1 .. Len(Tail(s)) : Tail(s)[k] = x)
                  <=> x \in marked' /\ x \in ClassBlocks(c)'
    <3>1. ASSUME NEW k \in 1 .. Len(s) - 1, Tail(s)[k] = x
          PROVE  x \in marked' /\ x \in ClassBlocks(c)'
      <4>1. k + 1 \in 1 .. Len(s) /\ s[k + 1] = x /\ k + 1 # 1
        BY <1>3, <3>1
      <4>2. x # a
        BY <1>3, <2>3, <4>1
      <4>3. x \in marked /\ x \in ClassBlocks(c)
        BY <2>4, <4>1
      <4>. QED  BY <1>1, <1>5, <4>2, <4>3
    <3>2. ASSUME x \in marked', x \in ClassBlocks(c)'
          PROVE  \E k \in 1 .. Len(s) - 1 : Tail(s)[k] = x
      <4>1. x \in marked /\ x # a /\ x \in ClassBlocks(c)
        BY <1>1, <1>5, <3>2
      <4>2. PICK k \in 1 .. Len(s) : s[k] = x
        BY <2>4, <4>1
      <4>3. k # 1
        BY <1>3, <4>1, <4>2
      <4>4. k - 1 \in 1 .. Len(s) - 1 /\ (k - 1) + 1 = k
        BY <1>3, <4>3
      <4>5. Tail(s)[k - 1] = s[(k - 1) + 1]
        BY <1>3, <4>4
      <4>. QED  BY <4>2, <4>4, <4>5
    <3>. QED  BY <1>3, <3>1, <3>2
  <2>7. \A d \in Classes : \A j, k \in 1 .. Len(class_free'[d]) :
          class_free'[d][j] = class_free'[d][k] => j = k
    BY <2>2, <2>5 DEF IInv, ClassInv
  <2>8. \A d \in Classes : \A x :
          (\E k \in 1 .. Len(class_free'[d]) : class_free'[d][k] = x)
            <=> x \in marked' /\ x \in ClassBlocks(d)'
    <3>1. ASSUME NEW d \in Classes, d # c, NEW x
          PROVE  (\E k \in 1 .. Len(class_free'[d]) : class_free'[d][k] = x)
                   <=> x \in marked' /\ x \in ClassBlocks(d)'
      <4>1. (\E k \in 1 .. Len(class_free[d]) : class_free[d][k] = x)
               <=> x \in marked /\ x \in ClassBlocks(d)
        BY DEF IInv, ClassInv
      <4>2. x \in ClassBlocks(d) => x # a
        BY <1>6, <3>1
      <4>. QED  BY <1>1, <1>5, <2>2, <3>1, <4>1, <4>2
    <3>. QED  BY <2>2, <2>6, <3>1
  <2>9. \A x \in marked' : \E d \in Classes : x \in ClassBlocks(d)'
    BY <1>1, <1>5 DEF IInv, ClassInv
  <2>. QED  BY <2>1, <2>7, <2>8, <2>9 DEF ClassInv
<1>9. \A d \in live : d.at # a
  BY <1>4, NotLive
<1>10. \A d \in Classes : ClassBlocks(d)' \ marked' =
                            (ClassBlocks(d) \ marked) \cup (IF d = c THEN {a} ELSE {})
  <2>1. ClassBlocks(c) \ (marked \ {a}) = (ClassBlocks(c) \ marked) \cup {a}
    BY <1>4
  <2>2. ASSUME NEW d \in Classes, d # c
        PROVE  ClassBlocks(d) \ (marked \ {a}) = (ClassBlocks(d) \ marked) \cup {}
    BY <1>6, <2>2
  <2>. QED  BY <1>1, <1>5, <2>1, <2>2
<1>11. LiveInv' /\ OpInv'
  <2>1. Held(chunks') = Held(chunks) /\ a \in ClassBlocks(c)' /\ a \notin marked'
    BY <1>1, <1>4, <1>5
  <2>. QED  BY <1>1, <1>3, <1>9, <1>10, <2>1, ClassLive
<1>12. ChargeStep
  <2>1. c \in Int /\ Held(chunks') = Held(chunks) /\ LiveInv
    BY <1>1, PerPage DEF IInv
  <2>. QED  BY <1>1, <1>3, <1>9, <1>10, <2>1, LentBlock
<1>. QED  BY <1>7, <1>8, <1>11, <1>12 DEF IInv

LEMMA NewClassPageStep ==
  ASSUME IInv, NEW t \in Threads, NEW c \in Classes, NEW p \in pages, NewClassPage(t, c, p)
  PROVE  IInv' /\ ChargeStep
<1>. DEFINE B == BlocksOf(c, p)
            f == Carved(c, p)
<1>1. /\ op[t].pc = "class" /\ IsClassOf(c, op[t].size) /\ class_free[c] = <<>>
      /\ inited' = 1 /\ chunks' = List /\ pages' = pages \ {p}
      /\ class_pages' = [class_pages EXCEPT ![c] = @ \cup {p}]
      /\ class_free' = [class_free EXCEPT ![c] = f]
      /\ marked' = marked \cup (B \ {p}) /\ used' = used + c /\ Got(t, p)
      /\ UNCHANGED <<seeded, seams>>
  BY DEF NewClassPage
<1>2. /\ p \in Pages /\ p \in Int /\ p \notin seeded /\ p \notin ClassPages
      /\ p \notin HeapPages /\ ClassPages \subseteq Pages /\ HeapPages \subseteq Pages
  BY PagesApart DEF IInv, PagesInv, ClassPages, HeapPages
<1>3. /\ class_pages'[c] = class_pages[c] \cup {p}
      /\ \A d \in Classes : d # c => class_pages'[d] = class_pages[d]
      /\ class_pages' \in [Classes -> SUBSET Pages]
  BY <1>1, <1>2 DEF IInv, PagesInv
<1>4. ClassPages' = ClassPages \cup {p}
  BY <1>3 DEF ClassPages
<1>5. HeapInv' /\ FreshInv' /\ Held(chunks') = Held(chunks)
  <2>1. pages' \cup ClassPages' = pages \cup ClassPages
    BY <1>1, <1>4
  <2>. QED  BY <1>1, <2>1, ListStep
<1>6. PagesInv'
  <2>1. c \in Int
    BY PerPage
  <2>2. \A d \in Classes : p \notin class_pages[d]
    BY <1>2 DEF ClassPages
  <2>3. inited' \in {0, 1} /\ used' \in Int /\ pages' \subseteq Pages
        /\ seeded' \subseteq Pages /\ seams' \subseteq Pages /\ pages' \cap seeded' = {}
    BY <1>1, <2>1 DEF IInv, PagesInv
  <2>4. ASSUME NEW d \in Classes
        PROVE  class_pages'[d] \cap pages' = {} /\ class_pages'[d] \cap seeded' = {}
    <3>1. class_pages'[d] \subseteq class_pages[d] \cup {p}
      BY <1>3
    <3>2. class_pages[d] \cap pages = {} /\ class_pages[d] \cap seeded = {}
      BY DEF IInv, PagesInv
    <3>. QED  BY <1>1, <1>2, <3>1, <3>2
  <2>5. ASSUME NEW d \in Classes, NEW e \in Classes, d # e
        PROVE  class_pages'[d] \cap class_pages'[e] = {}
    <3>1. class_pages[d] \cap class_pages[e] = {}
      BY <2>5 DEF IInv, PagesInv
    <3>. QED  BY <1>3, <2>2, <2>5, <3>1
  <2>. QED  BY <1>3, <2>3, <2>4, <2>5 DEF PagesInv
<1>7. /\ p \in B
      /\ \A a \in B : a \in Int /\ p <= a /\ a < p + PAGE
  <2>1. c \in Nat \ {0} /\ PAGE \in Int
    BY PerPage, Units
  <2>. QED  BY <1>2, <2>1, BlocksInPage
<1>8. \A a \in B : ~Own(ClassPages, a) /\ ~Own(HeapPages, a)
  <2>1. ASSUME NEW a \in B PROVE ~Own(ClassPages, a) /\ ~Own(HeapPages, a)
    <3>1. Own({p}, a) /\ a \in Int
      BY <1>7 DEF Own
    <3>. QED  BY <1>2, <3>1, OwnApart
  <2>. QED  BY <2>1
<1>9. \A d \in Classes : \A a \in ClassBlocks(d) : Own(ClassPages, a) /\ a \notin B
  <2>1. ASSUME NEW d \in Classes, NEW a \in ClassBlocks(d) PROVE Own(ClassPages, a)
    <3>1. a \in Int /\ a <= a /\ a < a + d
      BY ClassBlocksApart DEF IInv
    <3>. QED  BY <3>1, ClassBlocksApart DEF IInv
  <2>. QED  BY <1>8, <2>1
<1>10. \A a \in marked : a \notin B
  BY <1>9 DEF IInv, ClassInv
<1>11. /\ ClassBlocks(c)' = ClassBlocks(c) \cup B
       /\ \A d \in Classes : d # c => ClassBlocks(d)' = ClassBlocks(d)
  BY <1>3 DEF ClassBlocks
<1>12. /\ f \in Seq(Int)
       /\ \A j, k \in 1 .. Len(f) : f[j] = f[k] => j = k
       /\ \A a : (\E k \in 1 .. Len(f) : f[k] = a) <=> a \in B /\ a # p
  BY <1>2, CarvedShape
<1>. HIDE DEF B, f
<1>13. ClassInv'
  <2>1. class_free'[c] = f /\ \A d \in Classes : d # c => class_free'[d] = class_free[d]
    BY <1>1 DEF IInv, ClassInv
  <2>2. class_free' \in [Classes -> Seq(Int)]
    BY <1>1, <1>12 DEF IInv, ClassInv
  <2>3. \A a : ~(a \in marked /\ a \in ClassBlocks(c))
    <3>1. Len(class_free[c]) = 0
      BY <1>1, EmptySeq
    <3>2. \A k \in 1 .. Len(class_free[c]) : FALSE
      BY <3>1
    <3>. QED  BY <3>2 DEF IInv, ClassInv
  <2>4. \A d \in Classes : \A j, k \in 1 .. Len(class_free'[d]) :
          class_free'[d][j] = class_free'[d][k] => j = k
    <3>1. ASSUME NEW d \in Classes, d # c,
                 NEW j \in 1 .. Len(class_free[d]), NEW k \in 1 .. Len(class_free[d]),
                 class_free[d][j] = class_free[d][k]
          PROVE  j = k
      BY <3>1 DEF IInv, ClassInv
    <3>. QED  BY <1>12, <2>1, <3>1, SMTT(40)
  <2>5. ASSUME NEW d \in Classes, NEW a
        PROVE  (\E k \in 1 .. Len(class_free'[d]) : class_free'[d][k] = a)
                 <=> a \in marked' /\ a \in ClassBlocks(d)'
    <3>1. CASE d = c
      <4>1. a \in marked' /\ a \in ClassBlocks(c)' <=> a \in B /\ a # p
        BY <1>1, <1>9, <1>10, <1>11, <2>3
      <4>. QED  BY <1>12, <2>1, <3>1, <4>1
    <3>2. CASE d # c
      <4>1. (\E k \in 1 .. Len(class_free[d]) : class_free[d][k] = a)
              <=> a \in marked /\ a \in ClassBlocks(d)
        BY DEF IInv, ClassInv
      <4>2. a \in ClassBlocks(d) => a \notin B
        BY <1>9
      <4>. QED  BY <1>1, <1>11, <2>1, <3>2, <4>1, <4>2
    <3>. QED  BY <3>1, <3>2
  <2>6. \A a \in marked' : \E d \in Classes : a \in ClassBlocks(d)'
    BY <1>1, <1>11 DEF IInv, ClassInv
  <2>. QED  BY <2>2, <2>4, <2>5, <2>6 DEF ClassInv
<1>14. \A d \in live : d.at # p
  <2>1. ASSUME NEW d \in live, d.at = p PROVE FALSE
    <3>1. CASE \E g \in Held(chunks) : BackedBy(d, g)
      <4>1. PICK g \in Held(chunks) : p = Data(g)
        BY <2>1, <3>1 DEF BackedBy
      <4>2. Sound(chunks)
        BY DEF IInv, HeapInv
      <4>3. g \in ChunkSet /\ \A u \in Int : Covers(g, u) => Covered(chunks, u)
        BY <4>1, <4>2, HeldItem
      <4>4. Covers(g, p)
        BY <4>1, <4>3, ChunkFields DEF Covers
      <4>5. Own(HeapPages, p)
        BY <1>2, <4>3, <4>4 DEF IInv, HeapInv
      <4>. QED  BY <1>7, <1>8, <4>5
    <3>2. CASE \E e \in Classes : InClass(d, e)
      BY <1>7, <1>9, <2>1, <3>2 DEF InClass
    <3>. QED  BY <3>1, <3>2 DEF IInv, LiveInv
  <2>. QED  BY <2>1
<1>15. \A d \in Classes : ClassBlocks(d)' \ marked' =
                            (ClassBlocks(d) \ marked) \cup (IF d = c THEN {p} ELSE {})
  <2>1. ClassBlocks(c)' \ marked' = (ClassBlocks(c) \ marked) \cup {p}
    <3>1. ClassBlocks(c) \cap B = {} /\ marked \cap B = {} /\ p \in B
      BY <1>7, <1>9, <1>10
    <3>2. (ClassBlocks(c) \cup B) \ (marked \cup (B \ {p})) = (ClassBlocks(c) \ marked) \cup {p}
      BY <3>1
    <3>. QED  BY <1>1, <1>11, <3>2
  <2>2. ASSUME NEW d \in Classes, d # c
        PROVE  ClassBlocks(d)' \ marked' = (ClassBlocks(d) \ marked) \cup {}
    BY <1>1, <1>9, <1>11, <2>2
  <2>. QED  BY <2>1, <2>2
<1>16. p \in ClassBlocks(c)' /\ p \notin marked'
  BY <1>1, <1>7, <1>10, <1>11
<1>17. LiveInv' /\ OpInv'
  BY <1>1, <1>2, <1>5, <1>14, <1>15, <1>16, ClassLive
<1>18. ChargeStep
  <2>1. c \in Int /\ LiveInv
    BY PerPage DEF IInv
  <2>. QED  BY <1>1, <1>2, <1>5, <1>14, <1>15, <2>1, LentBlock
<1>. QED  BY <1>5, <1>6, <1>13, <1>17, <1>18 DEF IInv

----------------------------------------------------------------------------
(* free                                                                    *)

LEMMA FreeBlockStep ==
  ASSUME IInv, NEW c \in Classes, NEW a, FreeBlock(c, a), live' = {b \in live : b.at # a},
         UNCHANGED <<inited, class_pages, pages, seeded, seams>>
  PROVE  /\ PagesInv' /\ FreshInv' /\ HeapInv' /\ ClassInv' /\ LiveInv' /\ ChargeStep
         /\ \E b \in live : b.at = a
<1>1. /\ a \in ClassBlocks(c) /\ a \notin marked
      /\ marked' = marked \cup {a} /\ chunks' = chunks
      /\ class_free' = [class_free EXCEPT ![c] = <<a>> \o class_free[c]]
      /\ used' = used - c
  BY DEF FreeBlock, Freeable
<1>2. c \in Nat /\ a \in Int
  BY <1>1, ClassBlocksApart DEF IInv
<1>3. \A d \in Classes : ClassBlocks(d)' = ClassBlocks(d)
  BY DEF ClassBlocks
<1>4. \A d \in Classes : d # c => a \notin ClassBlocks(d)
  BY <1>1, ClassBlocksApart DEF IInv
<1>5. PICK b \in live : b.at = a
  BY <1>1 DEF IInv, LiveInv
<1>6. PagesInv' /\ FreshInv' /\ HeapInv'
  <2>1. HeapPages' = HeapPages
    BY DEF HeapPages, ClassPages
  <2>2. HeapInv'
    BY <1>1, <2>1 DEF IInv, HeapInv
  <2>3. PagesInv'
    BY <1>1, <1>2 DEF IInv, PagesInv
  <2>. QED  BY <1>5, <2>2, <2>3 DEF IInv, FreshInv
<1>7. ClassInv'
  <2>. DEFINE s == class_free[c]
              n == <<a>> \o s
  <2>1. s \in Seq(Int) /\ <<a>> \in Seq(Int) /\ Len(<<a>>) = 1 /\ <<a>>[1] = a
    BY <1>2 DEF IInv, ClassInv
  <2>2. /\ n \in Seq(Int) /\ Len(n) = Len(s) + 1 /\ Len(s) \in Nat
        /\ n[1] = a /\ \A k \in 2 .. Len(s) + 1 : n[k] = s[k - 1]
    <3>1. /\ n \in Seq(Int) /\ Len(n) = 1 + Len(s) /\ Len(s) \in Nat
          /\ \A k \in 1 .. 1 + Len(s) : n[k] = IF k <= 1 THEN <<a>>[k] ELSE s[k - 1]
      BY <2>1, ConcatProperties, LenProperties
    <3>. HIDE DEF n, s
    <3>. QED  BY <2>1, <3>1
  <2>3. /\ class_free' \in [Classes -> Seq(Int)] /\ class_free'[c] = n
        /\ \A d \in Classes : d # c => class_free'[d] = class_free[d]
    BY <1>1, <2>2 DEF IInv, ClassInv
  <2>4. /\ \A j, k \in 1 .. Len(s) : s[j] = s[k] => j = k
        /\ \A x : (\E k \in 1 .. Len(s) : s[k] = x) <=> x \in marked /\ x \in ClassBlocks(c)
    BY DEF IInv, ClassInv
  <2>. HIDE DEF n, s
  <2>5. \A k \in 1 .. Len(s) : s[k] # a
    BY <1>1, <2>4
  <2>6. ASSUME NEW j \in 1 .. Len(n), NEW k \in 1 .. Len(n), n[j] = n[k], j # k PROVE FALSE
    <3>1. CASE j = 1
      <4>1. k - 1 \in 1 .. Len(s) /\ n[k] = s[k - 1]
        BY <2>2, <2>6, <3>1
      <4>. QED  BY <2>2, <2>5, <2>6, <3>1, <4>1
    <3>2. CASE k = 1
      <4>1. j - 1 \in 1 .. Len(s) /\ n[j] = s[j - 1]
        BY <2>2, <2>6, <3>2
      <4>. QED  BY <2>2, <2>5, <2>6, <3>2, <4>1
    <3>3. CASE j # 1 /\ k # 1
      <4>1. /\ j - 1 \in 1 .. Len(s) /\ n[j] = s[j - 1]
            /\ k - 1 \in 1 .. Len(s) /\ n[k] = s[k - 1]
        BY <2>2, <3>3, SMTT(40)
      <4>2. j - 1 = k - 1
        BY <2>4, <2>6, <4>1
      <4>. QED  BY <2>2, <2>6, <4>2
    <3>. QED  BY <3>1, <3>2, <3>3
  <2>7. ASSUME NEW x
        PROVE  (\E k \in 1 .. Len(n) : n[k] = x) <=> x \in marked' /\ x \in ClassBlocks(c)
    <3>1. ASSUME NEW k \in 1 .. Len(n), n[k] = x PROVE x \in marked' /\ x \in ClassBlocks(c)
      <4>1. CASE k = 1
        BY <1>1, <2>2, <3>1, <4>1
      <4>2. CASE k # 1
        <5>1. k - 1 \in 1 .. Len(s) /\ s[k - 1] = x
          BY <2>2, <3>1, <4>2
        <5>. QED  BY <1>1, <2>4, <5>1
      <4>. QED  BY <4>1, <4>2
    <3>2. ASSUME x \in marked', x \in ClassBlocks(c) PROVE \E k \in 1 .. Len(n) : n[k] = x
      <4>1. CASE x = a
        <5>1. 1 \in 1 .. Len(n)
          BY <2>2
        <5>. QED  BY <2>2, <4>1, <5>1
      <4>2. CASE x # a
        <5>1. PICK k \in 1 .. Len(s) : s[k] = x
          BY <1>1, <2>4, <3>2, <4>2
        <5>2. k + 1 \in 2 .. Len(s) + 1 /\ (k + 1) - 1 = k /\ k + 1 \in 1 .. Len(n)
          BY <2>2
        <5>3. n[k + 1] = s[(k + 1) - 1]
          BY <2>2, <5>2
        <5>. QED  BY <5>1, <5>2, <5>3
      <4>. QED  BY <4>1, <4>2
    <3>. QED  BY <3>1, <3>2
  <2>8. \A d \in Classes : \A j, k \in 1 .. Len(class_free'[d]) :
          class_free'[d][j] = class_free'[d][k] => j = k
    BY <2>3, <2>6 DEF IInv, ClassInv
  <2>9. ASSUME NEW d \in Classes, NEW x
        PROVE  (\E k \in 1 .. Len(class_free'[d]) : class_free'[d][k] = x)
                 <=> x \in marked' /\ x \in ClassBlocks(d)'
    <3>1. CASE d = c
      BY <1>3, <2>3, <2>7, <3>1
    <3>2. CASE d # c
      <4>1. (\E k \in 1 .. Len(class_free[d]) : class_free[d][k] = x)
              <=> x \in marked /\ x \in ClassBlocks(d)
        BY DEF IInv, ClassInv
      <4>2. x \in ClassBlocks(d) => x # a
        BY <1>4, <3>2
      <4>. QED  BY <1>1, <1>3, <2>3, <3>2, <4>1, <4>2
    <3>. QED  BY <3>1, <3>2
  <2>10. \A x \in marked' : \E d \in Classes : x \in ClassBlocks(d)'
    BY <1>1, <1>3 DEF IInv, ClassInv
  <2>. QED  BY <2>3, <2>8, <2>9, <2>10 DEF ClassInv
<1>8. \A g \in Held(chunks) : a # Data(g)
  <2>1. ASSUME NEW g \in Held(chunks), a = Data(g) PROVE FALSE
    <3>1. Sound(chunks) /\ PagesInv /\ \A u \in Int : ~(Covered(chunks, u) /\ Own(ClassPages, u))
      BY HeapIsNoClassPage DEF IInv, HeapInv
    <3>2. g \in ChunkSet /\ \A u \in Int : Covers(g, u) => Covered(chunks, u)
      BY <3>1, HeldItem
    <3>3. Covers(g, a)
      BY <2>1, <3>2, ChunkFields DEF Covers
    <3>4. a <= a /\ a < a + c
      BY <1>1, ClassBlocksApart DEF IInv
    <3>5. Own(ClassPages, a)
      BY <1>1, <1>2, <3>1, <3>4, ClassBlocksApart
    <3>. QED  BY <1>2, <3>1, <3>2, <3>3, <3>5
  <2>. QED  BY <2>1
<1>9. LiveInv'
  <2>0. /\ live \subseteq Block
        /\ \A d \in live : \/ \E g \in Held(chunks) : BackedBy(d, g)
                           \/ \E e \in Classes : InClass(d, e)
        /\ \A g \in Held(chunks) : \E d \in live : BackedBy(d, g)
        /\ \A e \in Classes : \A x \in ClassBlocks(e) \ marked : \E d \in live : d.at = x
        /\ \A d, e \in live : d.at = e.at => d = e
    BY DEF IInv, LiveInv
  <2>1. ASSUME NEW d \in live' PROVE \/ \E g \in Held(chunks') : BackedBy(d, g)
                                     \/ \E e \in Classes : InClass(d, e)'
    <3>1. d \in live /\ d.at # a
      OBVIOUS
    <3>2. ASSUME NEW e \in Classes, InClass(d, e) PROVE InClass(d, e)'
      BY <1>1, <1>3, <3>1, <3>2 DEF InClass
    <3>. QED  BY <1>1, <2>0, <3>1, <3>2
  <2>2. \A g \in Held(chunks') : \E d \in live' : BackedBy(d, g)
    BY <1>1, <1>8, <2>0 DEF BackedBy
  <2>3. \A e \in Classes : \A x \in ClassBlocks(e)' \ marked' : \E d \in live' : d.at = x
    BY <1>1, <1>3, <2>0
  <2>. QED  BY <2>0, <2>1, <2>2, <2>3 DEF LiveInv
<1>10. ChargeStep
  <2>. DEFINE r == <<a, a + c>>
  <2>1. r[1] = a /\ r[2] - r[1] = c
    BY <1>2
  <2>2. r \in Lent
    BY <1>1, LentMembers
  <2>3. ASSUME NEW q PROVE q \in Lent' <=> q \in Lent /\ q # r
    <3>1. ASSUME NEW g \in Held(chunks), q = <<Data(g), End(g)>> PROVE q # r
      BY <1>8, <3>1
    <3>2. ASSUME NEW d \in Classes, NEW x \in ClassBlocks(d) \ marked, q = <<x, x + d>>,
                 q # r
          PROVE  x # a
      <4>1. CASE d = c
        BY <3>2, <4>1
      <4>2. CASE d # c
        BY <1>4, <4>2
      <4>. QED  BY <4>1, <4>2
    <3>3. ASSUME NEW d \in Classes, NEW x \in ClassBlocks(d)' \ marked', q = <<x, x + d>>
          PROVE  q # r /\ x \in ClassBlocks(d) \ marked
      BY <1>1, <1>3, <3>3
    <3>4. q \in Lent' => q \in Lent /\ q # r
      BY <1>1, <3>1, <3>3, LentMembers
    <3>5. q \in Lent /\ q # r => q \in Lent'
      BY <1>1, <1>3, <3>2, LentMembers
    <3>. QED  BY <3>4, <3>5
  <2>. HIDE DEF r
  <2>4. r \notin Lent' /\ Lent = Lent' \cup {r}
    BY <2>2, <2>3
  <2>. QED  BY <1>1, <2>1, <2>4 DEF ChargeStep
<1>. QED  BY <1>5, <1>6, <1>7, <1>9, <1>10

LEMMA FreeChunkStep ==
  ASSUME IInv, NEW i \in Int, NEW a, FreeChunk(i, a), live' = {b \in live : b.at # a},
         UNCHANGED <<inited, class_pages, pages, seeded, seams>>,
         \/ \E b \in live : b.at = a
         \/ \E c \in Classes : a \in ClassBlocks(c)
  PROVE  /\ PagesInv' /\ FreshInv' /\ HeapInv' /\ ClassInv' /\ LiveInv' /\ ChargeStep
         /\ \E b \in live : b.at = a
<1>. DEFINE h == chunks[i]
<1>1. /\ i \in 1 .. Len(chunks) /\ a = Data(h)
      /\ chunks' = Coalesce(SetFree(chunks, i, 1), i)
      /\ used' = IF used >= h.size THEN used - h.size ELSE used
      /\ marked' = marked /\ class_free' = class_free
  BY DEF FreeChunk
<1>2. /\ Sound(chunks) /\ chunks \in Seq(ChunkSet) /\ PagesInv
      /\ \A u \in Int : ~(Covered(chunks, u) /\ Own(ClassPages, u))
  BY HeapIsNoClassPage DEF IInv, HeapInv, Sound
<1>3. /\ h \in ChunkSet /\ h.at \in Nat /\ h.at < a /\ a < End(h) /\ a \in Nat /\ End(h) \in Nat
      /\ h.size \in Nat /\ h.free \in {0, 1}
  BY <1>1, <1>2, ListItem, ChunkFields
<1>4. \A c \in Classes : a \notin ClassBlocks(c)
  <2>1. ASSUME NEW c \in Classes, a \in ClassBlocks(c) PROVE FALSE
    <3>1. a + c <= h.at \/ End(h) <= a
      BY <1>1, <1>2, <2>1, ClassOrChunk
    <3>2. c \in Nat \ {0}
      BY PerPage
    <3>. QED  BY <1>3, <3>1, <3>2
  <2>. QED  BY <2>1
<1>5. PICK b \in live : b.at = a
  BY <1>4
<1>6. PICK g \in Held(chunks) : BackedBy(b, g)
  BY <1>4, <1>5 DEF IInv, LiveInv, InClass
<1>7. g = h /\ h.free = 0
  <2>1. PICK j \in 1 .. Len(chunks) : g = chunks[j] /\ g.free = 0
    BY <1>2, <1>6, HeldItem
  <2>2. g \in ChunkSet /\ a = Data(g)
    BY <1>2, <1>5, <1>6, HeldItem DEF BackedBy
  <2>3. g.at \in Nat /\ g.at < a /\ a < End(g) /\ End(g) \in Nat
    BY <2>2, ChunkFields
  <2>4. j # i => End(g) <= h.at \/ End(h) <= g.at
    BY <1>1, <1>2, <2>1 DEF Sound, Apart
  <2>5. j = i
    BY <1>3, <2>3, <2>4
  <2>. QED  BY <2>1, <2>5
<1>. HIDE DEF h
<1>8. /\ Sound(chunks') /\ \A u \in Int : Covered(chunks', u) <=> Covered(chunks, u)
      /\ Held(chunks') = Held(chunks) \ {h}
      /\ \A X : Tidy(chunks, X, {}) => Tidy(chunks', X, {})
  BY <1>1, <1>2, <1>7, FreeKeeps DEF h
<1>9. HeapInv'
  <2>1. HeapPages' = HeapPages
    BY DEF HeapPages, ClassPages
  <2>2. \A u \in Int : Covered(chunks', u) <=> Own(HeapPages', u)
    BY <1>8, <2>1 DEF IInv, HeapInv
  <2>. QED  BY <1>8, <2>2 DEF IInv, HeapInv
<1>10. PagesInv' /\ FreshInv'
  <2>1. used' \in Int
    BY <1>1, <1>3 DEF IInv, PagesInv
  <2>2. PagesInv'
    BY <2>1 DEF IInv, PagesInv
  <2>. QED  BY <1>5, <2>2 DEF IInv, FreshInv
<1>11. \A d \in Classes : ClassBlocks(d)' = ClassBlocks(d)
  BY DEF ClassBlocks
<1>12. ClassInv'
  BY <1>1, <1>11 DEF IInv, ClassInv
<1>13. \A k \in Held(chunks) : k # h => Data(k) # a
  <2>1. ASSUME NEW k \in Held(chunks), k # h PROVE Data(k) # a
    <3>1. k \in ChunkSet /\ (End(h) <= k.at \/ End(k) <= h.at)
      BY <1>2, <1>6, <1>7, <2>1, HeldItem DEF Apart
    <3>2. k.at \in Nat /\ k.at < Data(k) /\ Data(k) < End(k) /\ End(k) \in Nat /\ Data(k) \in Nat
      BY <3>1, ChunkFields
    <3>. QED  BY <1>3, <3>1, <3>2
  <2>. QED  BY <2>1
<1>14. LiveInv'
  <2>0. /\ live \subseteq Block
        /\ \A d \in live : \/ \E k \in Held(chunks) : BackedBy(d, k)
                           \/ \E e \in Classes : InClass(d, e)
        /\ \A k \in Held(chunks) : \E d \in live : BackedBy(d, k)
        /\ \A e \in Classes : \A x \in ClassBlocks(e) \ marked : \E d \in live : d.at = x
        /\ \A d, e \in live : d.at = e.at => d = e
    BY DEF IInv, LiveInv
  <2>1. ASSUME NEW d \in live' PROVE \/ \E k \in Held(chunks') : BackedBy(d, k)
                                     \/ \E e \in Classes : InClass(d, e)'
    <3>1. d \in live /\ d.at # a
      OBVIOUS
    <3>2. ASSUME NEW e \in Classes, InClass(d, e) PROVE InClass(d, e)'
      BY <1>1, <1>11, <3>2 DEF InClass
    <3>3. ASSUME NEW k \in Held(chunks), BackedBy(d, k) PROVE k \in Held(chunks')
      <4>1. d.at = Data(k)
        BY <3>3 DEF BackedBy
      <4>2. k # h
        BY <1>1, <3>1, <4>1 DEF h
      <4>. QED  BY <1>8, <4>2
    <3>. QED  BY <2>0, <3>1, <3>2, <3>3
  <2>2. \A k \in Held(chunks') : \E d \in live' : BackedBy(d, k)
    BY <1>8, <1>13, <2>0 DEF BackedBy
  <2>3. \A e \in Classes : \A x \in ClassBlocks(e)' \ marked' : \E d \in live' : d.at = x
    BY <1>1, <1>4, <1>11, <2>0
  <2>. QED  BY <2>0, <2>1, <2>2, <2>3 DEF LiveInv
<1>15. ChargeStep
  <2>. DEFINE r == <<Data(h), End(h)>>
  <2>1. r[1] = a /\ r[2] - r[1] = h.size
    BY <1>1, <1>3, ChunkFields DEF h
  <2>2. h \in Held(chunks)
    BY <1>6, <1>7
  <2>3. ASSUME NEW q PROVE q \in Lent' <=> q \in Lent /\ q # r
    <3>1. ASSUME NEW k \in Held(chunks), k # h, q = <<Data(k), End(k)>> PROVE q # r
      BY <1>13, <2>1, <3>1
    <3>2. ASSUME NEW d \in Classes, NEW x \in ClassBlocks(d) \ marked, q = <<x, x + d>>
          PROVE  q # r
      BY <1>4, <2>1, <3>2
    <3>3. q \in Lent' => q \in Lent /\ q # r
      BY <1>1, <1>8, <1>11, <3>1, <3>2, LentMembers
    <3>4. q \in Lent /\ q # r => q \in Lent'
      BY <1>1, <1>8, <1>11, LentMembers
    <3>. QED  BY <3>3, <3>4
  <2>4. r \in Lent
    BY <2>2, LentMembers
  <2>. HIDE DEF r
  <2>5. r \notin Lent' /\ Lent = Lent' \cup {r}
    BY <2>3, <2>4
  <2>6. \/ used' = used - h.size
        \/ used < h.size /\ used' = used
    BY <1>1, <1>3 DEF IInv, PagesInv
  <2>. QED  BY <2>1, <2>5, <2>6 DEF ChargeStep
<1>. QED  BY <1>5, <1>9, <1>10, <1>12, <1>14, <1>15

LEMMA ReleaseStep ==
  ASSUME IInv, NEW a, Release(a),
         \/ \E b \in live : b.at = a
         \/ \E c \in Classes : a \in ClassBlocks(c)
  PROVE  /\ PagesInv' /\ FreshInv' /\ HeapInv' /\ ClassInv' /\ LiveInv' /\ ChargeStep
         /\ \E b \in live : b.at = a
         /\ live' = {b \in live : b.at # a}
<1>1. /\ live' = {b \in live : b.at # a}
      /\ UNCHANGED <<inited, class_pages, pages, seeded, seams>>
  BY DEF Release
<1>2. CASE \E c \in Classes : FreeBlock(c, a)
  BY <1>1, <1>2, FreeBlockStep
<1>3. CASE \E i \in 1 .. Len(chunks) : FreeChunk(i, a)
  <2>1. PICK i \in Int : FreeChunk(i, a)
    BY <1>3
  <2>. QED  BY <1>1, <2>1, FreeChunkStep
<1>. QED  BY <1>2, <1>3 DEF Release

LEMMA FreeStep ==
  ASSUME IInv, NEW a, Free(a)
  PROVE  IInv' /\ ChargeStep /\ \E b \in live : b.at = a /\ live' = live \ {b}
<1>1. Release(a) /\ op' = op /\ ~InRealloc(a)
  BY DEF Free, MayFree
<1>2. \/ \E b \in live : b.at = a
      \/ \E c \in Classes : a \in ClassBlocks(c)
  BY DEF Free, MayFree
<1>3. /\ PagesInv' /\ FreshInv' /\ HeapInv' /\ ClassInv' /\ LiveInv' /\ ChargeStep
      /\ \E b \in live : b.at = a
      /\ live' = {b \in live : b.at # a}
  BY <1>1, <1>2, ReleaseStep
<1>4. OpInv'
  <2>1. \A t \in Threads : op[t].old # a
    BY <1>1 DEF InRealloc
  <2>2. ASSUME NEW t \in Threads, op'[t].old # None PROVE \E b \in live' : b.at = op'[t].old
    BY <1>1, <1>3, <2>1, <2>2 DEF IInv, OpInv
  <2>. QED  BY <1>1, <2>2 DEF IInv, OpInv
<1>5. \E b \in live : b.at = a /\ live' = live \ {b}
  BY <1>3 DEF IInv, LiveInv
<1>. QED  BY <1>3, <1>4, <1>5 DEF IInv

LEMMA FreeOldStep ==
  ASSUME IInv, NEW t \in Threads, FreeOld(t)
  PROVE  IInv' /\ ChargeStep /\ \E b \in live : live' = live \ {b}
<1>. DEFINE a == op[t].old
<1>1. Release(a) /\ op' = [op EXCEPT ![t] = Idle] /\ op[t].pc = "free"
  BY DEF FreeOld
<1>2. \E b \in live : b.at = a
  BY <1>1 DEF IInv, OpInv
<1>3. /\ PagesInv' /\ FreshInv' /\ HeapInv' /\ ClassInv' /\ LiveInv' /\ ChargeStep
      /\ live' = {b \in live : b.at # a}
  BY <1>1, <1>2, ReleaseStep
<1>4. OpInv'
  <2>1. OpInv /\ \A b \in live : b \in live' \/ b.at = op[t].old
    BY <1>3 DEF IInv
  <2>. QED  BY <1>1, <2>1, IdleOp
<1>5. \E b \in live : live' = live \ {b}
  BY <1>2, <1>3 DEF IInv, LiveInv
<1>. QED  BY <1>3, <1>4, <1>5 DEF IInv

----------------------------------------------------------------------------
(* Every step keeps the invariant, and allocates or releases a block or    *)
(* leaves the blocks alone.                                                *)

LEMMA StutterInv == IInv /\ UNCHANGED vars => IInv' /\ ChargeStep
<1>. SUFFICES ASSUME IInv, UNCHANGED vars PROVE IInv' /\ ChargeStep
  OBVIOUS
<1>1. /\ op' = op
      /\ UNCHANGED <<inited, chunks, class_pages, class_free, marked, used, pages, live,
                     seeded, seams>>
  BY DEF vars
<1>2. PagesInv' /\ FreshInv' /\ HeapInv' /\ ClassInv' /\ LiveInv' /\ ChargeStep
  BY <1>1, HeapFrame
<1>3. OpInv'
  BY <1>1 DEF IInv, OpInv
<1>. QED  BY <1>2, <1>3 DEF IInv

(* What a step does to the blocks that are live.                           *)
LiveStep ==
  \/ live' = live
  \/ \E t \in Threads : \E a : op[t].pc \in {"class", "general"} /\ Got(t, a)
  \/ \E b \in live : live' = live \ {b}

LEMMA NextInv == IInv /\ Next => IInv' /\ LiveStep /\ ChargeStep
<1>. SUFFICES ASSUME IInv, Next PROVE IInv' /\ LiveStep /\ ChargeStep
  OBVIOUS
<1>1. ASSUME NEW p \in pages, Preseed(p) PROVE IInv' /\ LiveStep /\ ChargeStep
  BY <1>1, PreseedStep DEF Preseed, LiveStep
<1>2. ASSUME NEW a \in 0 .. UNITS - 1, Free(a) PROVE IInv' /\ LiveStep /\ ChargeStep
  BY <1>2, FreeStep DEF LiveStep
<1>3. ASSUME NEW t \in Threads, NEW size \in SIZES, Call(t, size, None)
      PROVE  IInv' /\ LiveStep /\ ChargeStep
  <2>1. None \in Int
    BY DEF None
  <2>2. IInv' /\ ChargeStep
    BY <1>3, <2>1, CallStep
  <2>. QED  BY <1>3, <2>2 DEF Call, LiveStep
<1>4. ASSUME NEW t \in Threads, NEW size \in SIZES, NEW b \in live, ~InRealloc(b.at),
             Call(t, size, b.at)
      PROVE  IInv' /\ LiveStep /\ ChargeStep
  <2>1. b.at \in Int
    BY DEF IInv, LiveInv, Block
  <2>2. IInv' /\ ChargeStep
    BY <1>4, <2>1, CallStep
  <2>. QED  BY <1>4, <2>2 DEF Call, LiveStep
<1>5. ASSUME NEW t \in Threads, NEW c \in Classes, PopBlock(t, c) PROVE IInv' /\ LiveStep /\ ChargeStep
  <2>1. op[t].pc = "class" /\ Got(t, Head(class_free[c]))
    BY <1>5 DEF PopBlock
  <2>2. LiveStep
    BY <2>1 DEF LiveStep
  <2>. QED  BY <1>5, <2>2, PopBlockStep
<1>6. ASSUME NEW t \in Threads, NEW c \in Classes, Fallback(t, c) PROVE IInv' /\ LiveStep /\ ChargeStep
  BY <1>6, FallbackStep DEF Fallback, LiveStep
<1>7. ASSUME NEW t \in Threads, NEW c \in Classes, NEW p \in pages, NewClassPage(t, c, p)
      PROVE  IInv' /\ LiveStep /\ ChargeStep
  <2>1. op[t].pc = "class" /\ Got(t, p)
    BY <1>7 DEF NewClassPage
  <2>2. LiveStep
    BY <2>1 DEF LiveStep
  <2>. QED  BY <1>7, <2>2, NewClassPageStep
<1>8. ASSUME NEW t \in Threads, NEW i \in 1 .. Len(List), TakeChunk(t, i)
      PROVE  IInv' /\ LiveStep /\ ChargeStep
  <2>1. op[t].pc = "general" /\ Got(t, Data(List[i]))
    BY <1>8 DEF TakeChunk, TakeFrom, General
  <2>2. LiveStep
    BY <2>1 DEF LiveStep
  <2>. QED  BY <1>8, <2>2, TakeChunkStep
<1>9. ASSUME NEW t \in Threads, NEW p \in pages, NEW i \in 1 .. Len(List) + 1,
             GrowByPage(t, p, i)
      PROVE  IInv' /\ LiveStep /\ ChargeStep
  <2>1. op[t].pc = "general" /\ Got(t, Data(AddPage(List, p)[i]))
    BY <1>9 DEF GrowByPage, TakeFrom, General
  <2>2. LiveStep
    BY <2>1 DEF LiveStep
  <2>. QED  BY <1>9, <2>2, GrowByPageStep
<1>10. ASSUME NEW t \in Threads, NEW p \in pages, NEW i \in 1 .. Len(List) + 1,
              GrowByRun(t, p, i)
       PROVE  IInv' /\ LiveStep /\ ChargeStep
  <2>1. /\ op[t].pc = "general"
        /\ Got(t, Data(AddRun(List, p, RunLength(op[t].size))[i]))
    BY <1>10 DEF GrowByRun, TakeFrom, General
  <2>2. LiveStep
    BY <2>1 DEF LiveStep
  <2>. QED  BY <1>10, <2>2, GrowByRunStep
<1>11. ASSUME NEW t \in Threads, Fails(t) PROVE IInv' /\ LiveStep /\ ChargeStep
  BY <1>11, FailsStep DEF Fails, LiveStep
<1>12. ASSUME NEW t \in Threads, FreeOld(t) PROVE IInv' /\ LiveStep /\ ChargeStep
  BY <1>12, FreeOldStep DEF LiveStep
<1>. QED  BY <1>1, <1>2, <1>3, <1>4, <1>5, <1>6, <1>7, <1>8, <1>9, <1>10, <1>11, <1>12
          DEF Next

(* The invariant the theorems rest on holds of every state.                *)
THEOREM Inductive == Spec => []IInv
<1>1. Init => IInv
  BY InitInv
<1>2. IInv /\ [Next]_vars => IInv'
  BY NextInv, StutterInv
<1>. QED  BY <1>1, <1>2, PTL DEF Spec

----------------------------------------------------------------------------
(* Theorems.                                                               *)

(* Chunks, blocks, pages and calls have their types: in particular no      *)
(* chunk reaches out of memory and no chunk is empty.                      *)
THEOREM TypeCorrect == Spec => []TypeOK
<1>1. IInv => TypeOK
  <2>. SUFFICES ASSUME IInv PROVE TypeOK
    OBVIOUS
  <2>0. UNITS \in Nat /\ HEADER \in Nat
    BY Units, HeapAssumption
  <2>1. ASSUME NEW i \in 1 .. Len(chunks)
        PROVE  /\ chunks[i].at \in 0 .. UNITS - 1 /\ chunks[i].size \in 1 .. UNITS
               /\ End(chunks[i]) <= UNITS /\ chunks[i].free \in {0, 1}
    <3>1. chunks[i] \in ChunkSet /\ End(chunks[i]) <= UNITS
      BY ListItem DEF IInv, HeapInv, Sound
    <3>2. /\ chunks[i].at \in Nat /\ chunks[i].size \in Nat \ {0} /\ chunks[i].free \in {0, 1}
          /\ End(chunks[i]) = chunks[i].at + HEADER + chunks[i].size
      BY <3>1, ChunkFields
    <3>. QED  BY <2>0, <3>1, <3>2, SMTT(40)
  <2>2. \A c \in Classes : \A a \in ClassBlocks(c) : a \in 0 .. UNITS - 1
    BY <2>0, ClassBlocksApart DEF IInv
  <2>3. ASSUME NEW c \in Classes, NEW k \in 1 .. Len(class_free[c])
        PROVE  class_free[c][k] \in 0 .. UNITS - 1
    <3>1. class_free[c][k] \in ClassBlocks(c)
      BY DEF IInv, ClassInv
    <3>. QED  BY <2>2, <3>1
  <2>4. marked \subseteq 0 .. UNITS - 1
    BY <2>2 DEF IInv, ClassInv
  <2>5. \A b \in live : b.at \in 0 .. UNITS - 1
    <3>1. ASSUME NEW b \in live PROVE b.at \in 0 .. UNITS - 1
      <4>1. b.at \in Int /\ b.at >= 0 /\ b.at + b.size <= UNITS /\ b.size \in Nat \ {0}
        BY LiveApart DEF IInv
      <4>. QED  BY <2>0, <4>1
    <3>. QED  BY <3>1
  <2>6. live \subseteq [at : 0 .. UNITS - 1, size : SIZES]
    BY <2>5 DEF IInv, LiveInv, Block
  <2>7. op \in [Threads -> [pc : {"idle", "class", "general", "free"},
                            size : SIZES \cup {0}, old : (0 .. UNITS - 1) \cup {None}]]
    <3>1. ASSUME NEW t \in Threads
          PROVE  op[t].old \in (0 .. UNITS - 1) \cup {None}
      BY <2>5 DEF IInv, OpInv
    <3>2. op \in [Threads -> OpType]
      BY DEF IInv, OpInv
    <3>3. ASSUME NEW t \in Threads
          PROVE  op[t] \in [pc : {"idle", "class", "general", "free"},
                            size : SIZES \cup {0}, old : (0 .. UNITS - 1) \cup {None}]
      <4>1. op[t] \in OpType
        BY <3>2
      <4>. QED  BY <3>1, <4>1 DEF OpType
    <3>. QED  BY <3>2, <3>3
  <2>8. /\ inited \in {0, 1} /\ used \in Int
        /\ class_pages \in [Classes -> SUBSET Pages]
        /\ pages \subseteq Pages /\ seeded \subseteq Pages /\ seams \subseteq Pages
    BY DEF IInv, PagesInv
  <2>. QED  BY <2>1, <2>3, <2>4, <2>6, <2>7, <2>8 DEF TypeOK
<1>. QED  BY <1>1, Inductive, PTL

(* Every unit of the heap's pages is in exactly one chunk, and no chunk    *)
(* reaches out of them (split_chunk, coalesce, heap_add_page,              *)
(* heap_add_large_chunk), whatever the sizes and the order of the calls.   *)
THEOREM ChunksTileTheHeap == Spec => []ChunksTile
<1>1. IInv => ChunksTile
  <2>. SUFFICES ASSUME IInv PROVE ChunksTile
    OBVIOUS
  <2>1. \A i, j \in 1 .. Len(chunks) :
          i # j => End(chunks[i]) <= chunks[j].at \/ End(chunks[j]) <= chunks[i].at
    BY DEF IInv, HeapInv, Sound, Apart
  <2>2. ASSUME NEW u \in 0 .. UNITS - 1
        PROVE  (\E i \in 1 .. Len(chunks) : Covers(chunks[i], u))
                 <=> (\E p \in HeapPages : p <= u /\ u < p + PAGE)
    <3>1. u \in Int
      BY Units
    <3>. QED  BY <3>1 DEF IInv, HeapInv, Covered, Own
  <2>. QED  BY <2>1, <2>2 DEF ChunksTile
<1>. QED  BY <1>1, Inductive, PTL

(* Every block malloc has handed out has a chunk or a class block of its   *)
(* own that is marked taken and large enough, and what is marked taken has *)
(* an owner: nothing leaks and nothing is lent twice.                      *)
THEOREM BlocksHaveBacking == Spec => []BlocksAreBacked
<1>1. IInv => BlocksAreBacked
  <2>. SUFFICES ASSUME IInv PROVE BlocksAreBacked
    OBVIOUS
  <2>1. ASSUME NEW b \in live
        PROVE  \/ \E i \in 1 .. Len(chunks) : InChunk(b, i)
               \/ \E c \in Classes : InClass(b, c)
    <3>1. CASE \E h \in Held(chunks) : BackedBy(b, h)
      BY <3>1 DEF Held, BackedBy, InChunk
    <3>. QED  BY <3>1 DEF IInv, LiveInv
  <2>2. ASSUME NEW i \in 1 .. Len(chunks), chunks[i].free = 0
        PROVE  \E b \in live : InChunk(b, i)
    <3>1. chunks[i] \in Held(chunks)
      BY <2>2 DEF Held
    <3>2. PICK b \in live : BackedBy(b, chunks[i])
      BY <3>1 DEF IInv, LiveInv
    <3>. QED  BY <2>2, <3>2 DEF BackedBy, InChunk
  <2>3. \A c \in Classes : \A a \in ClassBlocks(c) \ marked : \E b \in live : b.at = a
    BY DEF IInv, LiveInv
  <2>. QED  BY <2>1, <2>2, <2>3 DEF BlocksAreBacked
<1>. QED  BY <1>1, Inductive, PTL

(* A class' list and its bits agree, each free block listed once, however  *)
(* often callers free it (mm.c:44-49).                                     *)
THEOREM DoubleFreesAreHarmless == Spec => []ClassListsExact
<1>1. IInv => ClassListsExact
  <2>. SUFFICES ASSUME IInv, NEW c \in Classes
                PROVE  /\ \A j, k \in 1 .. Len(class_free[c]) :
                            class_free[c][j] = class_free[c][k] => j = k
                       /\ {class_free[c][k] : k \in 1 .. Len(class_free[c])}
                            = marked \cap ClassBlocks(c)
    BY DEF ClassListsExact
  <2>. QED  BY DEF IInv, ClassInv
<1>. QED  BY <1>1, Inductive, PTL

(* coalesce leaves no two free chunks side by side but at the seams of     *)
(* heap_add_large_chunk.                                                   *)
THEOREM FreeChunksAreMerged == Spec => []FreeNeighboursMerged
<1>1. IInv => FreeNeighboursMerged
  BY DEF IInv, HeapInv, Tidy, FreeNeighboursMerged
<1>. QED  BY <1>1, Inductive, PTL

(* The units of places in memory, and what one more place adds to them.    *)
Cells(L) == UNION {r[1] .. r[2] - 1 : r \in L}

LEMMA OneMorePlace ==
  ASSUME NEW L, NEW r, r \notin L, Spread(L \cup {r})
  PROVE  /\ Cardinality(Cells(L)) \in Nat /\ r[2] - r[1] \in Nat
         /\ Cardinality(Cells(L \cup {r})) = Cardinality(Cells(L)) + (r[2] - r[1])
<1>. DEFINE B == r[1] .. r[2] - 1
<1>1. /\ r[1] \in Int /\ r[2] \in Int /\ r[1] < r[2]
      /\ \A q \in L : /\ q[1] \in Int /\ q[2] \in Int /\ 0 <= q[1] /\ q[2] <= UNITS
                      /\ q[2] <= r[1] \/ r[2] <= q[1]
  BY DEF Spread
<1>2. IsFiniteSet(Cells(L))
  <2>1. Cells(L) \subseteq 0 .. UNITS
    <3>1. ASSUME NEW q \in L, NEW u \in q[1] .. q[2] - 1 PROVE u \in 0 .. UNITS
      BY <1>1, Units
    <3>. QED  BY <3>1 DEF Cells
  <2>2. IsFiniteSet(0 .. UNITS)
    BY Units, FS_Interval
  <2>. QED  BY <2>1, <2>2, FS_Subset
<1>3. IsFiniteSet(B) /\ Cardinality(B) = r[2] - r[1]
  <2>1. r[2] - 1 \in Int
    BY <1>1
  <2>2. /\ IsFiniteSet(B)
        /\ Cardinality(B) = IF r[1] > r[2] - 1 THEN 0 ELSE (r[2] - 1) - r[1] + 1
    BY <1>1, <2>1, FS_Interval
  <2>. HIDE DEF B
  <2>. QED  BY <1>1, <2>2
<1>4. Cells(L) \cap B = {}
  <2>1. ASSUME NEW q \in L, NEW u \in q[1] .. q[2] - 1, u \in B PROVE FALSE
    BY <1>1, <2>1
  <2>. QED  BY <2>1 DEF Cells
<1>5. Cells(L \cup {r}) = Cells(L) \cup B
  BY DEF Cells
<1>. HIDE DEF B
<1>6. Cardinality(Cells(L) \cup B) = Cardinality(Cells(L)) + Cardinality(B) - Cardinality({})
  BY <1>2, <1>3, <1>4, FS_Union
<1>7. Cardinality(Cells(L)) \in Nat
  BY <1>2, FS_CardinalityType
<1>8. r[2] - r[1] \in Nat
  BY <1>1
<1>9. Cardinality({}) = 0
  BY FS_EmptySet
<1>10. Cardinality(Cells(L \cup {r})) = Cardinality(Cells(L)) + (r[2] - r[1]) - 0
  BY <1>3, <1>5, <1>6, <1>9
<1>. QED  BY <1>7, <1>8, <1>10

(* heap_used_size is exactly the units of chunks and class blocks that are *)
(* lent, through every malloc, free, double free and realloc: it is never  *)
(* below what is freed, so the guard of free's subtraction never bites.    *)
THEOREM UsageIsExact == Spec => []UsedExact
<1>1. Init => UsedExact
  <2>. SUFFICES ASSUME Init PROVE UsedExact
    OBVIOUS
  <2>1. Len(chunks) = 0 /\ \A c \in Classes : ClassBlocks(c) = {}
    BY EmptySeq DEF Init, ClassBlocks
  <2>2. Held(chunks) = {}
    BY <2>1 DEF Held
  <2>3. \A r : r \notin Lent
    BY <2>1, <2>2, LentMembers
  <2>4. Cells(Lent) = {}
    BY <2>3 DEF Cells
  <2>. QED  BY <2>4, FS_EmptySet DEF Init, UsedExact, Cells
<1>2. IInv => Spread(Lent)
  BY LentSpread
<1>3. IInv /\ Spread(Lent) /\ Spread(Lent)' /\ UsedExact /\ [Next]_vars => UsedExact'
  <2>. SUFFICES ASSUME IInv, Spread(Lent), Spread(Lent'), UsedExact, [Next]_vars
                PROVE  UsedExact'
    BY DEF Spread
  <2>1. ChargeStep
    BY NextInv, StutterInv
  <2>2. used = Cardinality(Cells(Lent))
    BY DEF UsedExact, Cells
  <2>3. SUFFICES used' = Cardinality(Cells(Lent'))
    BY DEF UsedExact, Cells
  <2>4. CASE Lent' = Lent /\ used' = used
    BY <2>2, <2>4
  <2>5. ASSUME NEW r, r \notin Lent, Lent' = Lent \cup {r}, used' = used + (r[2] - r[1])
        PROVE  used' = Cardinality(Cells(Lent'))
    <3>1. Cardinality(Cells(Lent \cup {r})) = Cardinality(Cells(Lent)) + (r[2] - r[1])
      BY <2>5, OneMorePlace
    <3>. QED  BY <2>2, <2>5, <3>1
  <2>6. ASSUME NEW r, r \notin Lent', Lent = Lent' \cup {r},
               \/ used' = used - (r[2] - r[1])
               \/ used < r[2] - r[1] /\ used' = used
        PROVE  used' = Cardinality(Cells(Lent'))
    <3>1. /\ Cardinality(Cells(Lent')) \in Nat /\ r[2] - r[1] \in Nat
          /\ Cardinality(Cells(Lent' \cup {r})) = Cardinality(Cells(Lent')) + (r[2] - r[1])
      BY <2>6, OneMorePlace
    <3>2. used = Cardinality(Cells(Lent')) + (r[2] - r[1])
      BY <2>2, <2>6, <3>1
    <3>. QED  BY <2>6, <3>1, <3>2
  <2>. QED  BY <2>1, <2>4, <2>5, <2>6 DEF ChargeStep
<1>. QED  BY <1>1, <1>2, <1>3, Inductive, PTL DEF Spec

(* The blocks that are live lie in memory, apart from each other.          *)
LiveSound ==
  /\ \A b \in live : /\ b.at \in Int /\ b.at >= 0 /\ b.at + b.size <= UNITS
                     /\ b.size \in Nat \ {0} /\ b.size \in SIZES
  /\ \A b, d \in live : b # d => HA!Disjoint(b, d)

(* The heap implements HeapAllocator: a block is handed out only where no  *)
(* live block is, and a free, of a block or of what is no block any more,  *)
(* or a realloc, takes back at most what it was asked to.                  *)
THEOREM HeapImplementsAllocator == Spec => ImplementsHeapAllocator
<1>1. Init => HA!Init
  BY DEF Init, HA!Init
<1>0. IInv => LiveSound
  BY LiveApart DEF IInv, LiveSound
<1>2. IInv /\ LiveSound' /\ [Next]_vars => [HA!Next]_live
  <2>. SUFFICES ASSUME IInv, LiveSound', [Next]_vars PROVE [HA!Next]_live
    OBVIOUS
  <2>1. LiveStep
    BY NextInv DEF vars, LiveStep
  <2>2. ASSUME NEW b \in live, live' = live \ {b} PROVE HA!Next
    BY <2>2 DEF HA!Next, HA!Release
  <2>3. ASSUME NEW t \in Threads, NEW a, op[t].pc \in {"class", "general"}, Got(t, a)
        PROVE  [HA!Next]_live
    <3>1. PICK b : /\ b = [at |-> a, size |-> op[t].size] /\ live' = live \cup {b}
      BY <2>3 DEF Got
    <3>2. /\ \A d \in live' : d.at \in Int /\ d.at >= 0 /\ d.at + d.size <= UNITS
                               /\ d.size \in Nat \ {0} /\ d.size \in SIZES
          /\ \A d, e \in live' : d # e => HA!Disjoint(d, e)
      BY DEF LiveSound
    <3>3. /\ b.at \in Int /\ b.at >= 0 /\ b.at + b.size <= UNITS
          /\ b.size \in Nat \ {0} /\ b.size \in SIZES /\ b.at = a /\ b.size = op[t].size
      BY <3>1, <3>2
    <3>4. a \in 0 .. UNITS - 1
      BY <3>3, Units
    <3>5. CASE b \in live
      BY <3>1, <3>5
    <3>6. CASE b \notin live
      <4>1. \A d \in live : HA!Disjoint(b, d)
        BY <3>1, <3>2, <3>6
      <4>2. HA!Allocate(b)
        BY <3>1, <3>3, <4>1 DEF HA!Allocate
      <4>. QED  BY <3>1, <3>3, <3>4, <4>2 DEF HA!Next
    <3>. QED  BY <3>5, <3>6
  <2>. QED  BY <2>1, <2>2, <2>3 DEF LiveStep
<1>. QED  BY <1>0, <1>1, <1>2, Inductive, PTL DEF Spec, ImplementsHeapAllocator, HA!Spec
=============================================================================
