------------------------------ MODULE PmmProofs -----------------------------
(***************************************************************************)
(* Proofs about the physical memory manager, for every size of machine,    *)
(* stack capacity, request size and set of clients.                        *)
(*                                                                         *)
(* The inductive invariant is the conjunction of the four invariants the   *)
(* runs check: NoSharedFrame turns "the bit is clear" into "nobody holds   *)
(* it", FreeCountExact needs both, and FreeFramesReachable needs that the  *)
(* entries a path drops are stale or taken.                                *)
(***************************************************************************)
EXTENDS Pmm, FiniteSetTheorems, SequenceTheorems, TLAPS

IInv == TypeOK /\ NoSharedFrame /\ FreeCountExact /\ FreeFramesReachable

Rank(S, x) == Cardinality({y \in S : y < x})

-----------------------------------------------------------------------------
(* Enumerating a finite set of integers.                                   *)

(* Ranks stay below the size of the set and grow strictly.                 *)
LEMMA RankMonotone ==
  ASSUME NEW S \in SUBSET Int, IsFiniteSet(S)
  PROVE  /\ Cardinality(S) \in Nat
         /\ \A x \in S : Rank(S, x) \in 0 .. Cardinality(S) - 1
         /\ \A x, y \in S : x < y => Rank(S, x) < Rank(S, y)
<1> DEFINE Below(x) == {y \in S : y < x}
<1>1. Cardinality(S) \in Nat
  BY FS_CardinalityType
<1>2. ASSUME NEW x \in S PROVE IsFiniteSet(Below(x)) /\ Cardinality(Below(x)) \in Nat
  BY FS_Subset, FS_CardinalityType, Below(x) \subseteq S
<1>3. ASSUME NEW x \in S PROVE Rank(S, x) \in 0 .. Cardinality(S) - 1
  <2>1. Below(x) \subseteq S /\ x \notin Below(x)
    OBVIOUS
  <2>2. Cardinality(Below(x)) <= Cardinality(S) /\ Cardinality(Below(x)) # Cardinality(S)
    BY <2>1, FS_Subset
  <2> QED BY <2>2, <1>1, <1>2 DEF Rank
<1>4. ASSUME NEW x \in S, NEW y \in S, x < y PROVE Rank(S, x) < Rank(S, y)
  <2>1. Below(x) \subseteq Below(y) /\ x \in Below(y) /\ x \notin Below(x)
    <3>1. x \in Int /\ y \in Int /\ S \subseteq Int
      OBVIOUS
    <3>2. \A z \in Int : z < x => z < y
      BY <3>1, <1>4
    <3>3. x \in Below(y)
      BY <1>4
    <3>4. x \notin Below(x)
      BY <3>1
    <3>5. ASSUME NEW z \in Below(x) PROVE z \in Below(y)
      BY <3>1, <3>2
    <3> HIDE DEF Below
    <3> QED BY <3>3, <3>4, <3>5
  <2>2. /\ Cardinality(Below(x)) <= Cardinality(Below(y))
        /\ Cardinality(Below(x)) # Cardinality(Below(y))
    BY <2>1, <1>2, FS_Subset
  <2> QED BY <2>2, <1>2 DEF Rank
<1> QED BY <1>1, <1>3, <1>4

(* Ascending lists every member once, in increasing order.                 *)
LEMMA AscendingProperties ==
  ASSUME NEW S \in SUBSET Int, IsFiniteSet(S)
  PROVE  /\ Cardinality(S) \in Nat
         /\ Ascending(S) \in [1 .. Cardinality(S) -> S]
         /\ \A x \in S : \E k \in 1 .. Cardinality(S) : Ascending(S)[k] = x
         /\ \A j, k \in 1 .. Cardinality(S) : j < k => Ascending(S)[j] < Ascending(S)[k]
         /\ \A k \in 1 .. Cardinality(S) : Rank(S, Ascending(S)[k]) = k - 1
<1> DEFINE n == Cardinality(S)
           r == [x \in S |-> Rank(S, x)]
<1>1. /\ n \in Nat
      /\ \A x \in S : Rank(S, x) \in 0 .. n - 1
      /\ \A x, y \in S : x < y => Rank(S, x) < Rank(S, y)
  BY RankMonotone
<1> HIDE DEF n
<1>2. \A x, y \in S : Rank(S, x) = Rank(S, y) => x = y
  BY <1>1
<1>3. r \in Injection(S, 0 .. n - 1)
  BY <1>1, <1>2 DEF Injection, IsInjective
<1>4. IsFiniteSet(0 .. n - 1) /\ Cardinality(0 .. n - 1) = n
  BY <1>1, FS_Interval
<1>5. r \in Surjection(S, 0 .. n - 1)
  BY <1>3, <1>4, FS_Injection DEF n
<1>6. \A k \in 0 .. n - 1 : \E x \in S : Rank(S, x) = k
  BY <1>5 DEF Surjection
<1>7. \A k \in 1 .. n : Ascending(S)[k] \in S /\ Rank(S, Ascending(S)[k]) = k - 1
  <2> TAKE k \in 1 .. n
  <2>1. PICK x \in S : Rank(S, x) = k - 1
    BY <1>6, <1>1
  <2>2. Ascending(S)[k] = CHOOSE y \in S : Rank(S, y) = k - 1
    BY DEF Ascending, Rank, n
  <2> HIDE DEF Rank
  <2> QED BY <2>1, <2>2
<1>8. \A x \in S : Rank(S, x) + 1 \in 1 .. n /\ Ascending(S)[Rank(S, x) + 1] = x
  <2> TAKE x \in S
  <2>1. Rank(S, x) + 1 \in 1 .. n
    BY <1>1
  <2>2. Rank(S, Ascending(S)[Rank(S, x) + 1]) = Rank(S, x)
    BY <2>1, <1>7, <1>1
  <2> QED BY <2>1, <2>2, <1>7, <1>2
<1>9. \A j, k \in 1 .. n : j < k => Ascending(S)[j] < Ascending(S)[k]
  <2> SUFFICES ASSUME NEW j \in 1 .. n, NEW k \in 1 .. n, j < k
               PROVE  Ascending(S)[j] < Ascending(S)[k]
    OBVIOUS
  <2> DEFINE x == Ascending(S)[j]
             y == Ascending(S)[k]
  <2>1. x \in S /\ y \in S /\ Rank(S, x) = j - 1 /\ Rank(S, y) = k - 1
    BY <1>7
  <2>2. x \in Int /\ y \in Int
    BY <2>1
  <2> HIDE DEF x, y
  <2>3. ~ (y < x) /\ x # y
    BY <1>1, <2>1
  <2>4. x < y
    BY <2>2, <2>3
  <2> QED BY <2>4 DEF x, y
<1>10. Ascending(S) \in [1 .. n -> S]
  BY <1>7 DEF Ascending, n
<1> QED BY <1>1, <1>7, <1>8, <1>9, <1>10 DEF n


-----------------------------------------------------------------------------
(* The live entries of the stack.                                          *)

(* TopLive enumerates the live positions downward from the top, and what   *)
(* lies above the (k+1)-th is at least k entries.                          *)
LEMMA TopLiveProperties ==
  ASSUME TypeOK
  PROVE  /\ Cardinality(Live) \in Nat
         /\ \A k \in 1 .. Cardinality(Live) :
               TopLive(k) \in Live /\ TopLive(k) \in 1 .. Len(free_stack)
         /\ \A i \in Live : \E k \in 1 .. Cardinality(Live) : TopLive(k) = i
         /\ \A j, k \in 1 .. Cardinality(Live) : j < k => TopLive(k) < TopLive(j)
         /\ \A k \in 1 .. Cardinality(Live) : TopLive(k) + k - 1 <= Len(free_stack)
<1> DEFINE n == Cardinality(Live)
           len == Len(free_stack)
           asc == Ascending(Live)
<1>1. len \in Nat /\ Live \subseteq 1 .. len
  BY DEF TypeOK, Live
<1>2. IsFiniteSet(1 .. len) /\ Cardinality(1 .. len) = len
  BY <1>1, FS_Interval
<1>3. IsFiniteSet(Live) /\ Live \in SUBSET Int
  <2>1. 1 .. len \subseteq Int
    BY <1>1
  <2> QED BY <1>1, <1>2, <2>1, FS_Subset
<1>4. /\ n \in Nat /\ asc \in [1 .. n -> Live]
      /\ \A x \in Live : \E k \in 1 .. n : asc[k] = x
      /\ \A j, k \in 1 .. n : j < k => asc[j] < asc[k]
      /\ \A k \in 1 .. n : Rank(Live, asc[k]) = k - 1
  BY <1>3, AscendingProperties
<1> HIDE DEF asc
<1>5. \A k \in 1 .. n : TopLive(k) = asc[n - k + 1]
  BY DEF TopLive, asc
<1> HIDE DEF n, len
<1>6. \A k \in 1 .. n : n - k + 1 \in 1 .. n
  BY <1>4
<1>7. \A k \in 1 .. n : TopLive(k) \in Live
  BY <1>4, <1>5, <1>6
<1>8. ASSUME NEW i \in Live PROVE \E k \in 1 .. n : TopLive(k) = i
  <2>1. PICK m \in 1 .. n : asc[m] = i
    BY <1>4
  <2>2. n - m + 1 \in 1 .. n /\ n - (n - m + 1) + 1 = m
    BY <1>4
  <2> QED BY <2>1, <2>2, <1>5
<1>9. \A j, k \in 1 .. n : j < k => TopLive(k) < TopLive(j)
  <2> SUFFICES ASSUME NEW j \in 1 .. n, NEW k \in 1 .. n, j < k
               PROVE  TopLive(k) < TopLive(j)
    OBVIOUS
  <2>1. n - k + 1 < n - j + 1
    BY <1>4
  <2> QED BY <2>1, <1>4, <1>5, <1>6
<1>10. ASSUME NEW k \in 1 .. n PROVE TopLive(k) + k - 1 <= len
  <2> DEFINE t == TopLive(k)
             below == {y \in Live : y < t}
             above == {y \in Live : y > t}
  <2>1. n - k + 1 \in 1 .. n /\ t = asc[n - k + 1]
    BY <1>5, <1>6
  <2>2. t \in Live /\ t \in 1 .. len
    BY <1>1, <1>7
  <2>3. Cardinality(below) = n - k
    <3>1. Rank(Live, asc[n - k + 1]) = (n - k + 1) - 1
      BY <1>4, <2>1
    <3>2. (n - k + 1) - 1 = n - k
      BY <1>4
    <3> QED BY <2>1, <3>1, <3>2 DEF Rank
  <2>4. /\ IsFiniteSet(below) /\ IsFiniteSet(above)
        /\ Cardinality(below) \in Nat /\ Cardinality(above) \in Nat
    BY <1>3, FS_Subset, FS_CardinalityType
  <2>in. /\ len \in Int /\ t \in Int /\ t \in Live
         /\ \A y \in Live : y \in Int /\ y <= len
    BY <1>1, <2>2
  <2> HIDE DEF t
  <2>5. t \notin below /\ t \notin above /\ below \cap above = {}
    <3>1. ~ (t < t) /\ ~ (t > t) /\ \A y \in Live : ~ (y < t /\ y > t)
      BY <2>in
    <3> QED BY <3>1, Zenon
  <2>6. Live = (below \cup {t}) \cup above
    <3>1. ASSUME NEW y \in Live PROVE y < t \/ y = t \/ y > t
      BY <2>in
    <3> QED BY <3>1, <2>in
  <2>7. above \subseteq (t + 1) .. len
    <3>1. ASSUME NEW y \in Live, y > t PROVE y \in (t + 1) .. len
      BY <2>in, <3>1
    <3> QED BY <3>1, Zenon
  <2> HIDE DEF below, above
  <2>8. IsFiniteSet(below \cup {t}) /\ Cardinality(below \cup {t}) = n - k + 1
    BY <2>3, <2>4, <2>5, FS_AddElement
  <2>9. (below \cup {t}) \cap above = {}
    BY <2>5
  <2>10. n = n - k + 1 + Cardinality(above)
    <3>1. n = Cardinality(below \cup {t}) + Cardinality(above) - Cardinality({})
      BY <2>4, <2>6, <2>8, <2>9, FS_Union DEF n
    <3>2. Cardinality({}) = 0
      BY FS_EmptySet
    <3> QED BY <3>1, <3>2, <2>8, <2>4, <1>4
  <2>11. Cardinality(above) <= len - t
    <3>1. t \in Int /\ len \in Int
      BY <1>1, <2>2
    <3>2. /\ IsFiniteSet((t + 1) .. len)
          /\ Cardinality((t + 1) .. len) = IF t + 1 > len THEN 0 ELSE len - (t + 1) + 1
      BY <3>1, FS_Interval
    <3>3. Cardinality(above) <= Cardinality((t + 1) .. len)
      BY <2>7, <3>2, FS_Subset
    <3> QED BY <3>2, <3>3, <2>2, <1>1, <2>4
  <2> QED BY <2>10, <2>11, <2>2, <2>4, <1>1, <1>4 DEF t
<1> QED BY <1>1, <1>4, <1>7, <1>8, <1>9, <1>10 DEF n, len

(* A candidate is an allocatable frame whose bit is clear.                 *)
LEMMA CandidateIsFree ==
  ASSUME TypeOK, NEW k \in 1 .. Cardinality(Live)
  PROVE  Candidate(k) \in FreeFrames /\ Candidate(k) \notin Reserved
<1>1. TopLive(k) \in Live /\ TopLive(k) \in 1 .. Len(free_stack)
  BY TopLiveProperties
<1> QED BY <1>1 DEF Candidate, TypeOK, Live, FreeFrames

(* A free frame on the stack is the candidate of some depth.               *)
LEMMA FreeFrameIsCandidate ==
  ASSUME TypeOK, NEW f \in FreeFrames, NEW i \in 1 .. Len(free_stack), free_stack[i] = f
  PROVE  \E k \in 1 .. Cardinality(Live) : TopLive(k) = i /\ Candidate(k) = f
<1>1. i \in Live
  BY DEF Live, FreeFrames
<1> QED BY <1>1, TopLiveProperties DEF Candidate

-----------------------------------------------------------------------------
(* The two ways an operation changes who holds what.                       *)

(* There are finitely many frames, free or reserved.                       *)
LEMMA FreeFramesFinite ==
  ASSUME TypeOK
  PROVE  /\ IsFiniteSet(Frames) /\ Cardinality(Frames) = TOTAL
         /\ IsFiniteSet(FreeFrames) /\ Cardinality(FreeFrames) \in Nat
         /\ FreeFrames \subseteq Frames
<1>1. TOTAL \in Nat
  BY LayoutAssumption
<1>2. IsFiniteSet(Frames) /\ Cardinality(Frames) = TOTAL
  BY <1>1, FS_Interval DEF Frames
<1>3. FreeFrames \subseteq Frames
  BY DEF FreeFrames
<1> QED BY <1>2, <1>3, FS_Subset, FS_CardinalityType

(* A block of n frames is finite and has n members.                        *)
LEMMA BlockFinite ==
  ASSUME NEW start \in Int, NEW n \in Nat
  PROVE  IsFiniteSet(Block(start, n)) /\ Cardinality(Block(start, n)) = n
<1>1. /\ IsFiniteSet(start .. (start + n - 1))
      /\ Cardinality(start .. (start + n - 1)) =
           IF start > start + n - 1 THEN 0 ELSE (start + n - 1) - start + 1
  BY FS_Interval
<1> QED BY <1>1 DEF Block

(* Taking a block of free frames keeps everything but the stack right.     *)
LEMMA TakeStep ==
  ASSUME TypeOK, NoSharedFrame, FreeCountExact,
         NEW c \in Clients, NEW start \in Int, NEW n \in Nat,
         Block(start, n) \subseteq FreeFrames, Take(c, start, n)
  PROVE  /\ bitmap' \subseteq Frames
         /\ owned' \in [Clients -> SUBSET Frames]
         /\ free_page_count' \in Nat
         /\ NoSharedFrame'
         /\ FreeCountExact'
         /\ FreeFrames' = FreeFrames \ Block(start, n)
<1> DEFINE B == Block(start, n)
<1>1. B \subseteq FreeFrames /\ FreeFrames \subseteq Frames /\ B \cap bitmap = {}
  BY DEF FreeFrames
<1>2. IsFiniteSet(B) /\ Cardinality(B) = n
  BY BlockFinite
<1> HIDE DEF B
<1>3. bitmap' = bitmap \cup B /\ free_page_count' = free_page_count - n
  BY DEF Take, B
<1>4. /\ owned' \in [Clients -> SUBSET Frames]
      /\ owned'[c] = owned[c] \cup B
      /\ \A d \in Clients : d # c => owned'[d] = owned[d]
  BY <1>1 DEF Take, B, TypeOK
<1>5. FreeFrames' = FreeFrames \ B
  BY <1>3 DEF FreeFrames, Frames
<1>6. FreeCountExact' /\ free_page_count' \in Nat
  <2>1. IsFiniteSet(FreeFrames) /\ Cardinality(FreeFrames) \in Nat
    BY FreeFramesFinite
  <2>2. FreeFrames \cap B = B
    BY <1>1
  <2>3. IsFiniteSet(FreeFrames \ B) /\ Cardinality(FreeFrames \ B) = Cardinality(FreeFrames) - n
    BY <2>1, <2>2, <1>2, FS_Difference, ZenonT(60)
  <2>4. Cardinality(FreeFrames \ B) \in Nat
    BY <2>3, FS_CardinalityType
  <2> QED BY <2>3, <2>4, <1>3, <1>5 DEF FreeCountExact
<1>7. NoSharedFrame'
  <2>1. \A d \in Clients : owned[d] \subseteq bitmap
    BY DEF NoSharedFrame
  <2>2. \A d, e \in Clients : d # e => owned'[d] \cap owned'[e] = {}
    BY <2>1, <1>1, <1>4 DEF NoSharedFrame
  <2>3. Reserved' = Reserved /\ Reserved \subseteq bitmap
    BY DEF NoSharedFrame, Reserved
  <2>4. \A d \in Clients : owned'[d] \cap Reserved = {}
    BY <2>3, <1>1, <1>4 DEF NoSharedFrame
  <2>5. bitmap' = Reserved \cup UNION {owned'[d] : d \in Clients}
    <3>1. UNION {owned'[d] : d \in Clients} = (UNION {owned[d] : d \in Clients}) \cup B
      BY <1>4
    <3> QED BY <3>1, <1>3 DEF NoSharedFrame
  <2> QED BY <2>2, <2>3, <2>4, <2>5 DEF NoSharedFrame
<1> QED BY <1>1, <1>3, <1>4, <1>5, <1>6, <1>7 DEF B, TypeOK

(* Clearing bits the caller holds keeps everything but the stack right.    *)
LEMMA GiveBackStep ==
  ASSUME TypeOK, NoSharedFrame, FreeCountExact,
         NEW c \in Clients, NEW freed \in SUBSET bitmap, NEW pushed,
         MayFree(c, freed), GiveBack(c, freed, pushed)
  PROVE  /\ bitmap' \subseteq Frames
         /\ owned' \in [Clients -> SUBSET Frames]
         /\ free_page_count' \in Nat
         /\ NoSharedFrame'
         /\ FreeCountExact'
         /\ FreeFrames' = FreeFrames \cup freed
         /\ freed \subseteq Frames \ Reserved
         /\ freed \subseteq owned[c]
<1>1. bitmap' = bitmap \ freed /\ free_page_count' = free_page_count + Cardinality(freed)
  BY DEF GiveBack
<1>2. /\ freed \subseteq owned[c] /\ freed \cap Reserved = {}
      /\ freed \subseteq Frames /\ bitmap \subseteq Frames
  BY DEF MayFree, NoSharedFrame, TypeOK
<1>3. /\ owned' \in [Clients -> SUBSET Frames]
      /\ owned'[c] = owned[c] \ freed
      /\ \A d \in Clients : d # c => owned'[d] = owned[d]
  BY DEF GiveBack, TypeOK
<1>4. FreeFrames' = FreeFrames \cup freed
  BY <1>1, <1>2 DEF FreeFrames, Frames
<1>5. FreeCountExact' /\ free_page_count' \in Nat
  <2>1. /\ IsFiniteSet(FreeFrames) /\ Cardinality(FreeFrames) \in Nat
        /\ IsFiniteSet(Frames)
    BY FreeFramesFinite
  <2>2. IsFiniteSet(freed) /\ Cardinality(freed) \in Nat
    BY <2>1, <1>2, FS_Subset, FS_CardinalityType
  <2>3. FreeFrames \cap freed = {} /\ Cardinality({}) = 0
    BY FS_EmptySet DEF FreeFrames
  <2>4. Cardinality(FreeFrames \cup freed) = Cardinality(FreeFrames) + Cardinality(freed)
    <3>1. Cardinality(FreeFrames \cup freed) =
            Cardinality(FreeFrames) + Cardinality(freed) - Cardinality(FreeFrames \cap freed)
      BY <2>1, <2>2, FS_Union
    <3>2. Cardinality(FreeFrames \cap freed) = 0
      BY <2>3
    <3> QED BY <3>1, <3>2, <2>1, <2>2
  <2> QED BY <2>1, <2>2, <2>4, <1>1, <1>4 DEF FreeCountExact
<1>6. NoSharedFrame'
  <2>1. \A d, e \in Clients : d # e => owned'[d] \cap owned'[e] = {}
    BY <1>3 DEF NoSharedFrame
  <2>2. Reserved' = Reserved
    BY DEF Reserved
  <2>3. \A d \in Clients : owned'[d] \cap Reserved = {}
    BY <1>3 DEF NoSharedFrame
  <2>4. bitmap' = Reserved \cup UNION {owned'[d] : d \in Clients}
    <3>1. \A d \in Clients : d # c => owned[d] \cap freed = {}
      BY <1>2 DEF NoSharedFrame
    <3>2. UNION {owned'[d] : d \in Clients} = (UNION {owned[d] : d \in Clients}) \ freed
      BY <1>3, <3>1
    <3> QED BY <3>2, <1>1, <1>2 DEF NoSharedFrame
  <2> QED BY <2>1, <2>2, <2>3, <2>4 DEF NoSharedFrame
<1> QED BY <1>1, <1>2, <1>3, <1>4, <1>5, <1>6 DEF TypeOK

-----------------------------------------------------------------------------
(* One lemma per operation: the invariant survives it, and it is a step of *)
(* the abstract allocator.                                                 *)

AbstractStep == FA!Next \/ UNCHANGED FA!vars

(* The instance sees the same Cardinality.                                 *)
LEMMA SameCardinality == \A S : FA!Cardinality(S) = Cardinality(S)
BY DEF FA!Cardinality, Cardinality

(* What pmm_init builds satisfies the invariant.                           *)
LEMMA InitIInv == pmm_init => IInv
<1> SUFFICES ASSUME pmm_init PROVE IInv
  OBVIOUS
<1> DEFINE free == Frames \ Reserved
           n    == Cardinality(free)
           asc  == Ascending(free)
<1>1. Reserved \subseteq Frames
  BY LayoutAssumption DEF Reserved, Frames
<1>2. FreeFrames = free
  BY DEF pmm_init, FreeFrames
<1>3. IsFiniteSet(Frames) /\ Cardinality(Frames) = TOTAL /\ free \in SUBSET Int
  <2>1. TOTAL \in Nat
    BY LayoutAssumption
  <2> QED BY <2>1, FS_Interval DEF Frames
<1>4. IsFiniteSet(free) /\ n \in Nat /\ n <= TOTAL
  BY <1>3, FS_Subset, FS_CardinalityType
<1>5. /\ asc \in [1 .. n -> free]
      /\ \A x \in free : \E k \in 1 .. n : asc[k] = x
  BY <1>3, <1>4, AscendingProperties
<1> HIDE DEF asc, n, free
<1>6. free_stack = [k \in 1 .. n |-> asc[n - k + 1]]
  BY DEF pmm_init, asc, n, free
<1>7. \A k \in 1 .. n : n - k + 1 \in 1 .. n /\ n - (n - k + 1) + 1 = k
  BY <1>4
<1>8. free_stack \in Seq(free) /\ Len(free_stack) = n
  BY <1>4, <1>5, <1>6, <1>7
<1>9. TypeOK
  <2>1. Len(free_stack) <= FREE_STACK_SIZE
    BY <1>4, <1>8, LayoutAssumption, SizesAssumption
  <2>2. owned \in [Clients -> SUBSET Frames] /\ overflowed \in BOOLEAN
    BY DEF pmm_init
  <2>3. bitmap \subseteq Frames /\ free_page_count \in Nat
    BY <1>1, <1>4 DEF pmm_init, n, free
  <2> QED BY <1>8, <2>1, <2>2, <2>3 DEF TypeOK, free
<1>10. NoSharedFrame
  BY DEF pmm_init, NoSharedFrame
<1>11. FreeCountExact
  BY <1>2 DEF pmm_init, FreeCountExact, n, free
<1>12. FreeFramesReachable
  <2> SUFFICES ASSUME NEW f \in free PROVE \E i \in 1 .. n : free_stack[i] = f
    BY <1>2, <1>8 DEF FreeFramesReachable
  <2>1. PICK k \in 1 .. n : asc[k] = f
    BY <1>5
  <2>2. free_stack[n - k + 1] = f
    BY <2>1, <1>6, <1>7
  <2> QED BY <2>2, <1>7
<1> QED BY <1>9, <1>10, <1>11, <1>12 DEF IInv

(* Taking a block is the abstract Alloc.                                   *)
LEMMA TakeIsAlloc ==
  ASSUME IInv, NEW c \in Clients, NEW start \in Int, NEW n \in Nat \ {0},
         Block(start, n) \subseteq FreeFrames, Take(c, start, n)
  PROVE  AbstractStep
<1>1. start \in Block(start, n) /\ start \in Frames /\ start + n - 1 \in Block(start, n)
  BY FreeFramesFinite DEF Block, IInv
<1>2. FA!Unheld = FreeFrames
  BY DEF FA!Unheld, FA!Held, FreeFrames, IInv, NoSharedFrame
<1>3. n \in 1 .. Cardinality(Frames)
  <2>1. start + n - 1 < TOTAL /\ start >= 0 /\ TOTAL \in Nat
    BY <1>1, FreeFramesFinite, LayoutAssumption DEF Frames, IInv
  <2>2. Cardinality(Frames) = TOTAL
    BY FreeFramesFinite DEF IInv
  <2> QED BY <2>1, <2>2
<1>4. FA!Alloc(c, start, n)
  BY <1>2 DEF FA!Alloc, Take, Block
<1>5. start \in FA!Unheld
  BY <1>1, <1>2
<1>6. \E m \in 1 .. FA!Cardinality(Frames) : FA!Alloc(c, start, m)
  BY <1>3, <1>4, SameCardinality
<1>7. \E b \in FA!Unheld : \E m \in 1 .. FA!Cardinality(Frames) : FA!Alloc(c, b, m)
  BY <1>5, <1>6
<1> QED BY <1>7, Zenon DEF AbstractStep, FA!Next

(* Giving frames back is the abstract Free, or nothing.                    *)
LEMMA GiveBackIsFree ==
  ASSUME IInv, NEW c \in Clients, NEW freed \in SUBSET bitmap, NEW pushed,
         MayFree(c, freed), GiveBack(c, freed, pushed)
  PROVE  AbstractStep
<1>1. freed \subseteq owned[c]
  BY GiveBackStep DEF IInv
<1>2. CASE freed = {}
  <2>1. owned' = owned
    BY <1>2 DEF GiveBack, IInv, TypeOK
  <2>2. free_page_count' = free_page_count
    BY <1>2, FS_EmptySet DEF GiveBack, IInv, TypeOK
  <2> QED BY <2>1, <2>2 DEF AbstractStep, FA!vars
<1>3. CASE freed # {}
  <2>1. FA!Free(c, freed)
    BY <1>1, <1>3, SameCardinality DEF FA!Free, GiveBack
  <2> QED BY <1>1, <2>1, Zenon DEF AbstractStep, FA!Next
<1> QED BY <1>2, <1>3

(* The part of the step that does not look at the stack.                   *)
LEMMA FailStep ==
  ASSUME IInv, Fail
  PROVE  /\ bitmap' \subseteq Frames
         /\ owned' \in [Clients -> SUBSET Frames]
         /\ free_page_count' \in Nat
         /\ NoSharedFrame' /\ FreeCountExact'
         /\ FreeFrames' = FreeFrames
         /\ AbstractStep
BY DEF IInv, Fail, TypeOK, NoSharedFrame, FreeCountExact, FreeFrames, Frames, Reserved,
       AbstractStep, FA!vars

(* What cutting the stack below position m leaves.                         *)
LEMMA CutStack ==
  ASSUME TypeOK, NEW m \in Int, 0 <= m, m <= Len(free_stack)
  PROVE  /\ SubSeq(free_stack, 1, m) \in Seq(Frames \ Reserved)
         /\ Len(SubSeq(free_stack, 1, m)) = m
         /\ \A i \in 1 .. m : SubSeq(free_stack, 1, m)[i] = free_stack[i]
<1>1. free_stack \in Seq(Frames \ Reserved) /\ \A i \in 1 .. m : free_stack[i] \in Frames \ Reserved
  BY DEF TypeOK
<1> QED BY <1>1, SubSeqProperties

(* A run taken off the stack: the entries above it were stale.             *)
LEMMA TakeFromStack ==
  ASSUME IInv, NEW c \in Clients, NEW n \in 1 .. Cardinality(Live), IsRun(n),
         free_stack' = SubSeq(free_stack, 1, TopLive(n) - 1),
         Take(c, Candidate(1), n), UNCHANGED overflowed
  PROVE  IInv' /\ AbstractStep
<1> DEFINE m == TopLive(n) - 1
           B == Block(Candidate(1), n)
<1>1. /\ Cardinality(Live) \in Nat /\ n \in Nat \ {0} /\ 1 \in 1 .. Cardinality(Live)
      /\ m \in Int /\ 0 <= m /\ m <= Len(free_stack)
  BY TopLiveProperties DEF IInv, TypeOK
<1>2. Candidate(1) \in Int /\ Candidate(1) \in FreeFrames
  BY <1>1, CandidateIsFree, FreeFramesFinite DEF IInv, Frames
<1>3. \A f \in B : \E k \in 1 .. n : f = Candidate(k)
  <2> TAKE f \in B
  <2>1. f - Candidate(1) + 1 \in 1 .. n /\ f = Candidate(1) + (f - Candidate(1) + 1) - 1
    BY <1>1, <1>2 DEF Block
  <2> QED BY <2>1 DEF IsRun
<1>4. \A k \in 1 .. n : Candidate(k) \in B
  BY <1>1, <1>2 DEF Block, IsRun
<1>5. B \subseteq FreeFrames
  BY <1>1, <1>3, CandidateIsFree DEF IInv
<1> HIDE DEF B
<1>6. /\ bitmap' \subseteq Frames
      /\ owned' \in [Clients -> SUBSET Frames]
      /\ free_page_count' \in Nat
      /\ NoSharedFrame' /\ FreeCountExact'
      /\ FreeFrames' = FreeFrames \ B
  BY <1>1, <1>2, <1>5, TakeStep DEF B, IInv
<1>7. /\ free_stack' \in Seq(Frames \ Reserved) /\ Len(free_stack') = m
      /\ \A i \in 1 .. m : free_stack'[i] = free_stack[i]
  BY <1>1, CutStack DEF IInv
<1>8. TypeOK'
  BY <1>1, <1>6, <1>7, SizesAssumption, LayoutAssumption DEF TypeOK, IInv, Frames, Reserved
<1>9. FreeFramesReachable'
  <2> SUFFICES ASSUME ~ overflowed, NEW f \in FreeFrames \ B
               PROVE  \E i \in 1 .. m : free_stack'[i] = f
    BY <1>6, <1>7 DEF FreeFramesReachable
  <2>1. PICK i \in 1 .. Len(free_stack) : free_stack[i] = f
    BY DEF IInv, FreeFramesReachable
  <2>2. PICK k \in 1 .. Cardinality(Live) : TopLive(k) = i /\ Candidate(k) = f
    BY <2>1, FreeFrameIsCandidate DEF IInv
  <2>3. k \notin 1 .. n
    BY <1>4, <2>2
  <2>4. n < k
    BY <1>1, <2>3
  <2>5. TopLive(k) < TopLive(n)
    BY <2>4, TopLiveProperties DEF IInv
  <2>6. i \in 1 .. m
    BY <1>1, <2>1, <2>2, <2>5, TopLiveProperties, SMTT(40) DEF IInv
  <2> QED BY <1>7, <2>1, <2>6
<1>10. AbstractStep
  BY <1>1, <1>2, <1>5, TakeIsAlloc DEF B
<1> QED BY <1>6, <1>8, <1>9, <1>10 DEF IInv

(* pmm_alloc_page keeps the invariant and is an abstract step.             *)
LEMMA AllocPageStep ==
  ASSUME IInv, NEW c \in Clients, pmm_alloc_page(c)
  PROVE  IInv' /\ AbstractStep
<1>1. CASE /\ Live # {}
           /\ free_stack' = SubSeq(free_stack, 1, TopLive(1) - 1)
           /\ Take(c, Candidate(1), 1)
           /\ UNCHANGED overflowed
  <2>1. Cardinality(Live) \in Nat /\ 1 \in 1 .. Cardinality(Live)
    <3>1. PICK k \in 1 .. Cardinality(Live) : TRUE
      BY <1>1, TopLiveProperties DEF IInv
    <3> QED BY <3>1, TopLiveProperties DEF IInv
  <2>2. IsRun(1)
    <3>1. Candidate(1) \in Int
      BY <2>1, CandidateIsFree, FreeFramesFinite DEF IInv, Frames
    <3> QED BY <3>1 DEF IsRun
  <2> QED BY <1>1, <2>1, <2>2, TakeFromStack
<1>2. CASE Live = {} /\ free_stack' = << >> /\ Fail /\ UNCHANGED overflowed
  <2>1. /\ bitmap' \subseteq Frames
        /\ owned' \in [Clients -> SUBSET Frames]
        /\ free_page_count' \in Nat
        /\ NoSharedFrame' /\ FreeCountExact'
        /\ FreeFrames' = FreeFrames
        /\ AbstractStep
    BY <1>2, FailStep
  <2>2. TypeOK'
    BY <1>2, <2>1, SizesAssumption DEF TypeOK, IInv, Frames, Reserved
  <2>3. ~ overflowed => FreeFrames = {}
    BY <1>2 DEF IInv, FreeFramesReachable, Live, FreeFrames
  <2>4. FreeFramesReachable'
    BY <1>2, <2>1, <2>3 DEF FreeFramesReachable
  <2> QED BY <2>1, <2>2, <2>4 DEF IInv
<1> QED BY <1>1, <1>2 DEF pmm_alloc_page

(* A scan of the bitmap: whichever block it takes is free.                 *)
LEMMA TakeLeastStep ==
  ASSUME IInv, NEW c \in Clients, NEW n \in Nat \ {0},
         NEW starts \in SUBSET FreeFrames,
         \A f \in starts : Block(f, n) \subseteq FreeFrames,
         TakeLeast(c, starts, n)
  PROVE  /\ bitmap' \subseteq Frames
         /\ owned' \in [Clients -> SUBSET Frames]
         /\ free_page_count' \in Nat
         /\ NoSharedFrame' /\ FreeCountExact'
         /\ FreeFrames' \subseteq FreeFrames
         /\ AbstractStep
<1>1. CASE starts = {}
  BY <1>1, FailStep DEF TakeLeast
<1>2. CASE starts # {}
  <2>1. PICK f \in starts : Take(c, f, n)
    BY <1>2 DEF TakeLeast
  <2>2. f \in Int /\ Block(f, n) \subseteq FreeFrames
    BY FreeFramesFinite DEF IInv, Frames
  <2>3. AbstractStep
    BY <2>1, <2>2, TakeIsAlloc
  <2>4. n \in Nat
    OBVIOUS
  <2> QED BY <2>1, <2>2, <2>3, <2>4, TakeStep DEF IInv
<1> QED BY <1>1, <1>2

(* s is a stack that fits and holds every frame that is free now.          *)
Covers(s) ==
  /\ s \in Seq(Frames \ Reserved) /\ Len(s) <= FREE_STACK_SIZE
  /\ ~ overflowed => \A f \in FreeFrames : \E i \in 1 .. Len(s) : s[i] = f

(* The invariant follows when the new stack still covers the free frames.  *)
LEMMA StackReplaced ==
  ASSUME IInv, UNCHANGED overflowed,
         bitmap' \subseteq Frames, owned' \in [Clients -> SUBSET Frames],
         free_page_count' \in Nat, NoSharedFrame', FreeCountExact',
         FreeFrames' \subseteq FreeFrames,
         Covers(free_stack')
  PROVE  IInv'
<1>1. TypeOK'
  BY DEF TypeOK, IInv, Frames, Reserved, Covers
<1>2. FreeFramesReachable'
  BY DEF FreeFramesReachable, Covers
<1> QED BY <1>1, <1>2 DEF IInv

(* Pushing back a partial run: stale entries go, every live one stays.     *)
LEMMA PushBackStack ==
  ASSUME IInv, NEW got \in Nat, got <= Cardinality(Live)
  PROVE  Covers(PushBack(got))
<1> DEFINE t == PushBack(got)
           m == IF got = Cardinality(Live) THEN 0 ELSE TopLive(got + 1)
           low == SubSeq(free_stack, 1, m)
           run == [k \in 1 .. got |-> Candidate(got - k + 1)]
           A   == Frames \ Reserved
<1>1. Cardinality(Live) \in Nat /\ Len(free_stack) \in Nat
  BY TopLiveProperties DEF IInv, TypeOK
<1>2. got # Cardinality(Live) => got + 1 \in 1 .. Cardinality(Live)
  BY <1>1
<1>3. m \in Int /\ 0 <= m /\ m <= Len(free_stack)
  BY <1>1, <1>2, TopLiveProperties DEF IInv
<1>4. m + got <= Len(free_stack)
  <2>1. CASE got = Cardinality(Live)
    <3>1. CASE got = 0
      BY <2>1, <3>1, <1>1
    <3>2. CASE got # 0
      <4>1. got \in 1 .. Cardinality(Live)
        BY <2>1, <3>2
      <4>2. TopLive(got) + got - 1 <= Len(free_stack) /\ TopLive(got) \in 1 .. Len(free_stack)
        BY <4>1, TopLiveProperties DEF IInv
      <4> QED BY <4>2, <2>1, <1>1
    <3> QED BY <3>1, <3>2
  <2>2. CASE got # Cardinality(Live)
    <3>1. TopLive(got + 1) + (got + 1) - 1 <= Len(free_stack) /\ TopLive(got + 1) \in Int
      BY <2>2, <1>2, TopLiveProperties DEF IInv
    <3> QED BY <3>1, <2>2
  <2> QED BY <2>1, <2>2
<1>5. low \in Seq(A) /\ Len(low) = m /\ \A i \in 1 .. m : low[i] = free_stack[i]
  BY <1>3, CutStack DEF IInv
<1> HIDE DEF m, low
<1>6. \A k \in 1 .. got : got - k + 1 \in 1 .. Cardinality(Live) /\ got - k + 1 \in 1 .. got
  BY <1>1
<1>7. \A k \in 1 .. got : Candidate(got - k + 1) \in A
  BY <1>6, CandidateIsFree, FreeFramesFinite DEF IInv
<1>8. run \in Seq(A) /\ Len(run) = got /\ \A k \in 1 .. got : run[k] = Candidate(got - k + 1)
  BY <1>7
<1> HIDE DEF run, A
<1>9. t = low \o run
  BY DEF low, run, m, PushBack
<1> HIDE DEF t
<1>10. /\ t \in Seq(A) /\ Len(t) = m + got
       /\ \A i \in 1 .. m + got : t[i] = IF i <= m THEN low[i] ELSE run[i - m]
  <2>1. /\ low \o run \in Seq(A)
        /\ Len(low \o run) = Len(low) + Len(run)
        /\ \A i \in 1 .. Len(low) + Len(run) :
             (low \o run)[i] = IF i <= Len(low) THEN low[i] ELSE run[i - Len(low)]
    BY <1>5, <1>8, ConcatProperties
  <2> QED BY <2>1, <1>5, <1>8, <1>9
<1>11. Len(t) <= FREE_STACK_SIZE
  BY <1>1, <1>3, <1>4, <1>10, SizesAssumption DEF IInv, TypeOK
<1>12. ASSUME ~ overflowed, NEW f \in FreeFrames
       PROVE  \E i \in 1 .. Len(t) : t[i] = f
  <2>1. PICK i \in 1 .. Len(free_stack) : free_stack[i] = f
    BY <1>12 DEF IInv, FreeFramesReachable
  <2>2. PICK k \in 1 .. Cardinality(Live) : TopLive(k) = i /\ Candidate(k) = f
    BY <2>1, FreeFrameIsCandidate DEF IInv
  <2>3. CASE k <= got
    <3>1. got - k + 1 \in 1 .. got /\ got - (got - k + 1) + 1 = k
      BY <2>3, <1>1
    <3>2. run[got - k + 1] = f
      BY <3>1, <1>8, <2>2
    <3>3. PICK j \in Int : j = m + (got - k + 1)
      BY <3>1, <1>3
    <3>4. j \in 1 .. m + got /\ ~ (j <= m) /\ j - m = got - k + 1
      BY <3>1, <3>3, <1>3
    <3>5. t[j] = run[j - m]
      BY <3>4, <1>10
    <3>6. t[j] = f
      BY <3>2, <3>4, <3>5
    <3> QED BY <3>4, <3>6, <1>10
  <2>4. CASE k > got
    <3>1. got # Cardinality(Live) /\ got + 1 \in 1 .. Cardinality(Live)
      BY <2>4, <1>1
    <3>2. k = got + 1 \/ got + 1 < k
      BY <2>4, <1>1
    <3>3. i <= m
      <4>1. TopLive(k) <= TopLive(got + 1)
        <5>1. TopLive(got + 1) \in Int /\ TopLive(k) \in Int
          BY <3>1, TopLiveProperties DEF IInv
        <5>2. CASE k = got + 1
          BY <5>1, <5>2
        <5>3. CASE got + 1 < k
          <6>1. TopLive(k) < TopLive(got + 1)
            BY <5>3, <3>1, TopLiveProperties DEF IInv
          <6> QED BY <6>1, <5>1
        <5> QED BY <3>2, <5>2, <5>3
      <4> QED BY <4>1, <3>1, <2>2 DEF m
    <3>4. i \in 1 .. m /\ i \in 1 .. m + got
      BY <3>3, <1>3, <1>1
    <3>5. t[i] = f
      BY <3>3, <3>4, <1>5, <1>10, <2>1
    <3>6. i \in 1 .. Len(t)
      BY <3>4, <1>10
    <3> QED BY <3>5, <3>6
  <2> QED BY <2>3, <2>4, <1>1
<1> QED BY <1>10, <1>11, <1>12 DEF A, t, Covers

(* A small request keeps the invariant, served by the stack or by the scan.*)
LEMMA AllocSmallStep ==
  ASSUME IInv, NEW c \in Clients, NEW n \in 2 .. MAX_REQUEST, AllocSmall(c, n)
  PROVE  IInv' /\ AbstractStep
<1>1. n \in Nat \ {0} /\ UNCHANGED overflowed
  BY DEF AllocSmall
<1>2. PICK got \in 0 .. n :
        /\ Gathers(n, got)
        /\ \/ /\ got = n
              /\ free_stack' = SubSeq(free_stack, 1, TopLive(n) - 1)
              /\ Take(c, Candidate(1), n)
           \/ /\ got < n
              /\ free_stack' = PushBack(got)
              /\ TakeLeast(c, SmallStarts(n), n)
  BY DEF AllocSmall
<1>3. got \in Nat /\ got <= Cardinality(Live) /\ IsRun(got) /\ Cardinality(Live) \in Nat
  BY <1>1, <1>2, TopLiveProperties DEF Gathers, IInv
<1>4. CASE got = n
  <2>1. n \in 1 .. Cardinality(Live)
    BY <1>1, <1>3, <1>4
  <2> QED BY <1>1, <1>2, <1>3, <1>4, <2>1, TakeFromStack
<1>5. CASE got < n
  <2>1. Covers(free_stack')
    BY <1>2, <1>3, <1>5, PushBackStack
  <2>2. /\ SmallStarts(n) \in SUBSET FreeFrames
        /\ \A f \in SmallStarts(n) : Block(f, n) \subseteq FreeFrames
    BY DEF SmallStarts, LowestOfByte
  <2>3. TakeLeast(c, SmallStarts(n), n)
    BY <1>2, <1>5
  <2> QED BY <1>1, <2>1, <2>2, <2>3, TakeLeastStep, StackReplaced
<1> QED BY <1>2, <1>4, <1>5

(* A large request keeps the invariant: its frames stay on the stack.      *)
LEMMA AllocLargeStep ==
  ASSUME IInv, NEW c \in Clients, NEW n \in 2 .. MAX_REQUEST, AllocLarge(c, n)
  PROVE  IInv' /\ AbstractStep
<1>1. /\ n \in Nat \ {0} /\ UNCHANGED <<free_stack, overflowed>>
      /\ TakeLeast(c, LargeStarts(n), n)
  BY DEF AllocLarge
<1>2. /\ LargeStarts(n) \in SUBSET FreeFrames
      /\ \A f \in LargeStarts(n) : Block(f, n) \subseteq FreeFrames
  BY DEF LargeStarts
<1>3. Covers(free_stack')
  BY <1>1 DEF IInv, TypeOK, FreeFramesReachable, Covers
<1> QED BY <1>1, <1>2, <1>3, TakeLeastStep, StackReplaced

(* Pushing what was freed: it is all on the stack unless a push is dropped. *)
LEMMA GiveBackInv ==
  ASSUME IInv, NEW c \in Clients, NEW freed \in SUBSET bitmap,
         NEW pushed \in Seq(freed), MayFree(c, freed), GiveBack(c, freed, pushed),
         \A f \in freed : \E k \in 1 .. Len(pushed) : pushed[k] = f
  PROVE  IInv' /\ AbstractStep
<1> DEFINE A == Frames \ Reserved
           all == free_stack \o pushed
           ls == Len(free_stack)
           lp == Len(pushed)
<1>1. /\ bitmap' \subseteq Frames /\ owned' \in [Clients -> SUBSET Frames]
      /\ free_page_count' \in Nat /\ NoSharedFrame' /\ FreeCountExact'
      /\ FreeFrames' = FreeFrames \cup freed /\ freed \subseteq A
  BY GiveBackStep DEF IInv
<1>2. free_stack \in Seq(A) /\ pushed \in Seq(A) /\ ls \in Nat /\ lp \in Nat
  BY <1>1 DEF IInv, TypeOK
<1>3. /\ all \in Seq(A) /\ Len(all) = ls + lp
      /\ \A i \in 1 .. ls + lp : all[i] = IF i <= ls THEN free_stack[i] ELSE pushed[i - ls]
  BY <1>2, ConcatProperties
<1> HIDE DEF all
<1>4. /\ free_stack' = IF ls + lp <= FREE_STACK_SIZE THEN all ELSE SubSeq(all, 1, FREE_STACK_SIZE)
      /\ overflowed' = (overflowed \/ ls + lp > FREE_STACK_SIZE)
  BY <1>3 DEF GiveBack, PushAll, all
<1>5. free_stack' \in Seq(A) /\ Len(free_stack') <= FREE_STACK_SIZE
  <2>1. CASE ls + lp <= FREE_STACK_SIZE
    BY <2>1, <1>3, <1>4
  <2>2. CASE ls + lp > FREE_STACK_SIZE
    <3>1. FREE_STACK_SIZE \in Nat
      BY SizesAssumption
    <3>2. \A i \in 1 .. FREE_STACK_SIZE : all[i] \in A
      BY <1>2, <1>3, <2>2, <3>1
    <3>3. /\ SubSeq(all, 1, FREE_STACK_SIZE) \in Seq(A)
          /\ Len(SubSeq(all, 1, FREE_STACK_SIZE)) =
               IF 1 <= FREE_STACK_SIZE THEN FREE_STACK_SIZE - 1 + 1 ELSE 0
      BY <3>1, <3>2, SubSeqProperties
    <3>4. free_stack' = SubSeq(all, 1, FREE_STACK_SIZE)
      BY <1>2, <1>4, <2>2, <3>1
    <3> QED BY <3>1, <3>3, <3>4
  <2> QED BY <2>1, <2>2, <1>2, SizesAssumption
<1>6. TypeOK'
  BY <1>1, <1>4, <1>5 DEF TypeOK, IInv, Frames, Reserved
<1>7. FreeFramesReachable'
  <2> SUFFICES ASSUME ~ overflowed', NEW f \in FreeFrames \cup freed
               PROVE  \E i \in 1 .. Len(free_stack') : free_stack'[i] = f
    BY <1>1 DEF FreeFramesReachable
  <2>1. ~ overflowed /\ ~ (ls + lp > FREE_STACK_SIZE)
    BY <1>4, Zenon
  <2>2. free_stack' = all
    BY <2>1, <1>2, <1>4, SizesAssumption
  <2>3. CASE f \in FreeFrames
    <3>1. PICK i \in 1 .. ls : free_stack[i] = f
      BY <2>1, <2>3 DEF IInv, FreeFramesReachable
    <3>2. i \in 1 .. ls + lp /\ all[i] = f
      BY <3>1, <1>2, <1>3
    <3> QED BY <3>2, <2>2, <1>3
  <2>4. CASE f \in freed
    <3>1. PICK k \in 1 .. lp : pushed[k] = f
      BY <2>4
    <3>2. PICK j \in Int : j = ls + k
      BY <1>2
    <3>3. j \in 1 .. ls + lp /\ ~ (j <= ls) /\ j - ls = k
      BY <3>1, <3>2, <1>2
    <3>4. all[j] = f
      BY <3>1, <3>3, <1>3
    <3> QED BY <3>3, <3>4, <2>2, <1>3
  <2> QED BY <2>3, <2>4
<1>8. AbstractStep
  BY GiveBackIsFree
<1> QED BY <1>1, <1>6, <1>7, <1>8 DEF IInv

(* A step that changes nothing keeps the invariant.                        *)
LEMMA StutterStep ==
  ASSUME IInv, UNCHANGED vars
  PROVE  IInv' /\ AbstractStep
BY DEF IInv, vars, TypeOK, NoSharedFrame, FreeCountExact, FreeFramesReachable,
       FreeFrames, Frames, Reserved, AbstractStep, FA!vars

(* pmm_free_page keeps the invariant, whether or not the bit was set.      *)
LEMMA FreePageStep ==
  ASSUME IInv, NEW c \in Clients, NEW f \in 0 .. TOTAL, pmm_free_page(c, f)
  PROVE  IInv' /\ AbstractStep
<1>1. CASE f # 0 /\ f < TOTAL /\ f \in bitmap
  <2>1. GiveBack(c, {f}, <<f>>) /\ MayFree(c, {f}) /\ {f} \in SUBSET bitmap
    BY <1>1 DEF pmm_free_page
  <2>2. <<f>> \in Seq({f}) /\ \A g \in {f} : \E k \in 1 .. Len(<<f>>) : <<f>>[k] = g
    OBVIOUS
  <2> QED BY <2>1, <2>2, GiveBackInv
<1>2. CASE ~ (f # 0 /\ f < TOTAL /\ f \in bitmap)
  BY <1>2, StutterStep DEF pmm_free_page
<1> QED BY <1>1, <1>2

(* pmm_free_pages keeps the invariant, whatever part was already free.     *)
LEMMA FreePagesStep ==
  ASSUME IInv, NEW c \in Clients, NEW start \in 1 .. TOTAL - 1, NEW n \in 1 .. MAX_REQUEST,
         pmm_free_pages(c, start, n)
  PROVE  IInv' /\ AbstractStep
<1> DEFINE freed == Block(start, n) \cap bitmap
<1>1. MayFree(c, freed) /\ GiveBack(c, freed, Ascending(freed)) /\ freed \in SUBSET bitmap
  BY DEF pmm_free_pages
<1>2. IsFiniteSet(freed) /\ freed \in SUBSET Int
  <2>1. IsFiniteSet(Frames) /\ bitmap \subseteq Frames /\ Frames \subseteq Int
    BY FreeFramesFinite DEF IInv, TypeOK, Frames
  <2> QED BY <2>1, FS_Subset
<1> HIDE DEF freed
<1>3. /\ Cardinality(freed) \in Nat
      /\ Ascending(freed) \in [1 .. Cardinality(freed) -> freed]
      /\ \A x \in freed : \E k \in 1 .. Cardinality(freed) : Ascending(freed)[k] = x
  BY <1>2, AscendingProperties
<1>4. Ascending(freed) \in Seq(freed) /\ Len(Ascending(freed)) = Cardinality(freed)
  BY <1>3
<1> QED BY <1>1, <1>3, <1>4, GiveBackInv

(* Every step keeps the invariant and is an abstract step or a stutter.    *)
LEMMA NextStep ==
  ASSUME IInv, [Next]_vars
  PROVE  IInv' /\ AbstractStep
<1>1. ASSUME NEW c \in Clients, pmm_alloc_page(c) PROVE IInv' /\ AbstractStep
  BY <1>1, AllocPageStep
<1>2. ASSUME NEW c \in Clients, NEW n \in 2 .. MAX_REQUEST, AllocSmall(c, n)
      PROVE IInv' /\ AbstractStep
  BY <1>2, AllocSmallStep
<1>3. ASSUME NEW c \in Clients, NEW n \in 2 .. MAX_REQUEST, AllocLarge(c, n)
      PROVE IInv' /\ AbstractStep
  BY <1>3, AllocLargeStep
<1>4. ASSUME NEW c \in Clients, NEW f \in 0 .. TOTAL, pmm_free_page(c, f)
      PROVE IInv' /\ AbstractStep
  BY <1>4, FreePageStep
<1>5. ASSUME NEW c \in Clients, NEW start \in 1 .. TOTAL - 1, NEW n \in 1 .. MAX_REQUEST,
             pmm_free_pages(c, start, n)
      PROVE IInv' /\ AbstractStep
  BY <1>5, FreePagesStep
<1>6. CASE UNCHANGED vars
  BY <1>6, StutterStep
<1> QED BY <1>1, <1>2, <1>3, <1>4, <1>5, <1>6 DEF Next

-----------------------------------------------------------------------------
(* The theorems.                                                           *)

(* The inductive invariant, on which the theorems below rest.              *)
THEOREM Inductive == Spec => []IInv
<1>1. pmm_init => IInv
  BY InitIInv
<1>2. IInv /\ [Next]_vars => IInv'
  BY NextStep
<1> QED BY <1>1, <1>2, PTL DEF Spec

(* The stack stays within its array and holds allocatable frames only, and *)
(* the free count does not wrap.                                           *)
THEOREM TypeCorrect == Spec => []TypeOK
<1>1. IInv => TypeOK
  BY DEF IInv
<1> QED BY <1>1, Inductive, PTL

(* Stale and duplicate stack entries never hand a frame out twice.         *)
THEOREM NoFrameIsShared == Spec => []NoSharedFrame
<1>1. IInv => NoSharedFrame
  BY DEF IInv
<1> QED BY <1>1, Inductive, PTL

(* The free count is the number of clear bits after every operation.       *)
THEOREM FreeCountIsExact == Spec => []FreeCountExact
<1>1. IInv => FreeCountExact
  BY DEF IInv
<1> QED BY <1>1, Inductive, PTL

(* Until a push is dropped, pmm_alloc_page can reach every free frame.     *)
THEOREM FreeFramesAreReachable == Spec => []FreeFramesReachable
<1>1. IInv => FreeFramesReachable
  BY DEF IInv
<1> QED BY <1>1, Inductive, PTL

(* Every operation of the allocator is one of the abstract allocator's, or *)
(* changes nothing a caller can see.                                       *)
THEOREM Refinement == Spec => ImplementsFrameAllocator
<1>1. pmm_init => FA!Init
  BY SameCardinality DEF pmm_init, FA!Init
<1>2. IInv /\ [Next]_vars => [FA!Next]_(FA!vars)
  BY NextStep DEF AbstractStep
<1> QED BY <1>1, <1>2, Inductive, PTL DEF Spec, FA!Spec, ImplementsFrameAllocator

=============================================================================
