--------------------------- MODULE BumpHeapProofs ---------------------------
(***************************************************************************)
(* Theorems about lib/libk/src/memory.rs for every word size, every heap   *)
(* that kheap_init may be given in the lower half of the address space,    *)
(* and every sequence of sizes and alignments.                             *)
(***************************************************************************)
EXTENDS BumpHeap, TLAPS

(* The padding in front of a block is shorter than its alignment. *)
LEMMA PaddingBound ==
  ASSUME NEW c \in Nat, NEW a \in Nat \ {0}
  PROVE  Padding(c, a) \in 0 .. a - 1
<1>1. c % a \in 0 .. a - 1
  OBVIOUS
<1>2. a - (c % a) \in Int
  BY <1>1
<1>3. \A m \in Int : m % a \in 0 .. a - 1
  OBVIOUS
<1> QED BY <1>2, <1>3 DEF Padding

(* The padding brings an address to a multiple of the alignment. *)
LEMMA PaddingAligns ==
  ASSUME NEW c \in Nat, NEW a \in Nat \ {0}
  PROVE  (c + Padding(c, a)) % a = 0
<1> DEFINE q == c \div a
<1> DEFINE r == c % a
<1>1. c = a * q + r /\ r \in 0 .. a - 1 /\ q \in Int
  OBVIOUS
<1>2. CASE r = 0
  <2>1. Padding(c, a) = a % a
    BY <1>2 DEF Padding
  <2>2. a % a = 0
    OBVIOUS
  <2> QED BY <1>2, <2>1, <2>2
<1>3. CASE r # 0
  <2>1. a - r \in 0 .. a - 1
    BY <1>1, <1>3
  <2>2. (a - r) % a = a - r
    <3> DEFINE m == a - r
    <3> HIDE DEF m
    <3>1. m \in 0 .. a - 1 => m % a = m
      OBVIOUS
    <3> QED BY <2>1, <3>1 DEF m
  <2>3. c + Padding(c, a) = a * (q + 1)
    BY <1>1, <2>2 DEF Padding
  <2>4. (a * (q + 1)) % a = 0
    <3> DEFINE k == q + 1
    <3>1. k \in Int
      BY <1>1
    <3> HIDE DEF k
    <3> QED BY <3>1
  <2> QED BY <2>3, <2>4
<1> QED BY <1>2, <1>3

(* In the lower half of the address space the sum never wraps, so a block
   starts at or after the cursor. *)
LEMMA AlignedNoWrap ==
  ASSUME TypeOK, NEW a \in PowersOfTwo
  PROVE  Aligned(a) = HEAP_CURRENT + Padding(HEAP_CURRENT, a) /\ Aligned(a) \in Nat
         /\ Aligned(a) >= HEAP_CURRENT
<1>1. a \in Nat \ {0} /\ a <= HALF /\ HALF \in Nat \ {0} /\ WORD = 2 * HALF
  BY HeapAssumption
<1>2. HEAP_CURRENT \in Nat /\ HEAP_CURRENT <= HALF
  BY <1>1 DEF TypeOK
<1>3. Padding(HEAP_CURRENT, a) \in 0 .. a - 1
  BY <1>1, <1>2, PaddingBound
<1> DEFINE sum == HEAP_CURRENT + Padding(HEAP_CURRENT, a)
<1>4. sum \in 0 .. WORD - 1 /\ sum >= HEAP_CURRENT
  BY <1>1, <1>2, <1>3
<1>5. sum % WORD = sum
  <2> HIDE DEF sum
  <2> QED BY <1>1, <1>4
<1> QED BY <1>4, <1>5, <1>1 DEF Aligned

Inv == TypeOK /\ BlocksDisjoint /\ CopyDisjoint

LEMMA InvInit == Init => Inv
<1> SUFFICES ASSUME Init PROVE Inv
  OBVIOUS
<1>1. HALF \in Nat /\ 0 \in 0 .. HALF /\ 0 \in 0 .. 0
  BY HeapAssumption
<1>2. TypeOK
  BY <1>1 DEF Init, TypeOK, NoCopy
<1>3. BlocksDisjoint /\ CopyDisjoint
  BY DEF Init, BlocksDisjoint, CopyDisjoint, NoCopy
<1> QED BY <1>2, <1>3 DEF Inv

(* What Allocate does to the cursor, and where the new block lies. *)
LEMMA AllocateBlock ==
  ASSUME TypeOK, NEW size \in Sizes, NEW a \in PowersOfTwo, Allocate(size, a)
  PROVE  /\ HEAP_CURRENT <= Aligned(a)
         /\ HEAP_CURRENT' = Aligned(a) + size /\ HEAP_CURRENT' <= HEAP_END
         /\ HEAP_START' = HEAP_START /\ HEAP_END' = HEAP_END
         /\ HEAP_INITIALIZED' = HEAP_INITIALIZED
         /\ Block(size, a) \in [addr : 0 .. HALF, size : 0 .. HALF, align : PowersOfTwo]
         /\ HEAP_CURRENT' \in HEAP_START .. HEAP_END
         /\ Aligned(a) \in 0 .. HALF
<1>1. size \in Nat /\ HALF \in Nat
  BY HeapAssumption
<1>2. HEAP_START \in Nat /\ HEAP_END \in Nat /\ HEAP_CURRENT \in Nat
      /\ HEAP_START <= HEAP_CURRENT /\ HEAP_END <= HALF
  BY <1>1 DEF TypeOK
<1>3. Aligned(a) \in Nat /\ Aligned(a) >= HEAP_CURRENT
  BY AlignedNoWrap
<1>4. Aligned(a) + size <= HEAP_END /\ HEAP_CURRENT' = Aligned(a) + size
  BY DEF Allocate, Fits, Bump
<1> QED BY <1>1, <1>2, <1>3, <1>4 DEF Allocate, Block

(* A block beyond the cursor is apart from every block below it. *)
LEMMA NewBlockApart ==
  ASSUME Inv, NEW size \in Sizes, NEW a \in PowersOfTwo, Allocate(size, a),
         NEW kept \in SUBSET live, live' = kept \cup {Block(size, a)}
  PROVE  BlocksDisjoint'
<1>1. /\ HEAP_CURRENT <= Aligned(a)
      /\ HEAP_CURRENT' = Aligned(a) + size
      /\ HEAP_START' = HEAP_START
      /\ Aligned(a) \in 0 .. HALF
  BY AllocateBlock DEF Inv
<1>2. size \in Nat /\ HALF \in Nat
  BY HeapAssumption
<1>3. HEAP_START \in Nat /\ HEAP_CURRENT \in Nat /\ HEAP_START <= HEAP_CURRENT
  BY <1>2 DEF Inv, TypeOK
<1>4. \A b \in kept : /\ b.addr \in Nat /\ b.size \in Nat
                      /\ HEAP_START <= b.addr /\ b.addr + b.size <= HEAP_CURRENT
  BY <1>2 DEF Inv, TypeOK, BlocksDisjoint
<1>5. Block(size, a).addr = Aligned(a) /\ Block(size, a).size = size
  BY DEF Block
<1>6. \A b \in live' : HEAP_START' <= b.addr /\ b.addr + b.size <= HEAP_CURRENT'
  BY <1>1, <1>2, <1>3, <1>4, <1>5
<1>7. \A b, d \in live' : b # d => Apart(b.addr, b.size, d.addr, d.size)
  <2> SUFFICES ASSUME NEW b \in live', NEW d \in live', b # d
               PROVE  Apart(b.addr, b.size, d.addr, d.size)
    OBVIOUS
  <2>1. CASE b \in kept /\ d \in kept
    BY <2>1 DEF Inv, BlocksDisjoint
  <2>2. CASE b \in kept /\ d = Block(size, a)
    BY <2>2, <1>1, <1>2, <1>3, <1>4, <1>5 DEF Apart
  <2>3. CASE b = Block(size, a) /\ d \in kept
    BY <2>3, <1>1, <1>2, <1>3, <1>4, <1>5 DEF Apart
  <2> QED BY <2>1, <2>2, <2>3
<1> QED BY <1>6, <1>7 DEF BlocksDisjoint

LEMMA InvNext == Inv /\ [Next]_vars => Inv'
<1> SUFFICES ASSUME Inv, [Next]_vars PROVE Inv'
  OBVIOUS
<1>0. HALF \in Nat /\ WORD = 2 * HALF /\ 8 \in PowersOfTwo
  BY HeapAssumption
<1>1. ASSUME NEW r \in Arenas, kheap_init(r[1], r[2]) PROVE Inv'
  <2>1. r[1] \in Nat /\ r[2] \in Nat /\ r[1] + r[2] <= HALF
    BY HeapAssumption
  <2>2. (r[1] + r[2]) % WORD = r[1] + r[2]
    <3> DEFINE n == r[1] + r[2]
    <3>1. n \in 0 .. WORD - 1 /\ WORD \in Nat \ {0}
      BY <1>0, <2>1, HeapAssumption
    <3> HIDE DEF n
    <3>2. n % WORD = n
      BY <3>1
    <3> QED BY <3>2 DEF n
  <2>3. HEAP_START' = r[1] /\ HEAP_END' = r[1] + r[2] /\ HEAP_CURRENT' = r[1]
        /\ HEAP_INITIALIZED' = TRUE /\ live' = {} /\ copy' = NoCopy
    BY <1>1, <2>2 DEF kheap_init
  <2> QED BY <1>0, <2>1, <2>3 DEF Inv, TypeOK, BlocksDisjoint, CopyDisjoint, NoCopy
<1>2. ASSUME NEW s \in Sizes, NEW a \in PowersOfTwo, kmalloc_aligned(s, a) PROVE Inv'
  <2>1. Allocate(s, a) /\ live' = live \cup {Block(s, a)} /\ copy' = copy
    BY <1>2 DEF kmalloc_aligned
  <2>2. TypeOK'
    BY <2>1, AllocateBlock DEF Inv, TypeOK
  <2>3. BlocksDisjoint'
    BY <2>1, NewBlockApart
  <2> QED BY <2>1, <2>2, <2>3 DEF Inv, CopyDisjoint
<1>3. ASSUME NEW b \in live, kfree(b) PROVE Inv'
  BY <1>3 DEF kfree, heap, Inv, TypeOK, BlocksDisjoint, CopyDisjoint
<1>4. ASSUME NEW b \in live, NEW s \in Sizes, krealloc(b, s), ~kfree(b) PROVE Inv'
  <2> DEFINE len == IF b.size < s THEN b.size ELSE s
  <2>1. /\ Allocate(s, 8)
        /\ live' = (live \ {b}) \cup {Block(s, 8)}
        /\ copy' = [src |-> b.addr, dst |-> Aligned(8), len |-> len]
    BY <1>4 DEF krealloc
  <2>2. /\ b.addr \in 0 .. HALF /\ b.size \in 0 .. HALF /\ b.addr + b.size <= HEAP_CURRENT
        /\ s \in Nat
    BY HeapAssumption DEF Inv, TypeOK, BlocksDisjoint
  <2>3. HEAP_CURRENT <= Aligned(8) /\ Aligned(8) \in 0 .. HALF /\ HEAP_CURRENT \in Nat
    BY <1>0, <2>1, AllocateBlock DEF Inv, TypeOK
  <2>4. len \in 0 .. HALF /\ len <= b.size
    BY <1>0, <2>2
  <2>5. TypeOK'
    <3>1. copy' \in [src : 0 .. HALF, dst : 0 .. HALF, len : 0 .. HALF]
      BY <2>1, <2>2, <2>3, <2>4
    <3>2. Block(s, 8) \in [addr : 0 .. HALF, size : 0 .. HALF, align : PowersOfTwo]
          /\ HEAP_CURRENT' \in HEAP_START .. HEAP_END
          /\ HEAP_START' = HEAP_START /\ HEAP_END' = HEAP_END
          /\ HEAP_INITIALIZED' = HEAP_INITIALIZED
      BY <1>0, <2>1, AllocateBlock DEF Inv
    <3> QED BY <2>1, <3>1, <3>2 DEF Inv, TypeOK
  <2>6. BlocksDisjoint'
    BY <1>0, <2>1, NewBlockApart
  <2>7. CopyDisjoint'
    <3>1. copy'.src + copy'.len <= copy'.dst
      BY <2>1, <2>2, <2>3, <2>4
    <3> QED BY <3>1 DEF CopyDisjoint, Apart
  <2> QED BY <2>5, <2>6, <2>7 DEF Inv
<1>5. CASE UNCHANGED vars
  BY <1>5 DEF vars, heap, Inv, TypeOK, BlocksDisjoint, CopyDisjoint
<1>6. CASE Next
  <2>1. CASE \E s \in Sizes : kmalloc(s)
    BY <1>0, <1>2, <2>1 DEF kmalloc
  <2>2. CASE \E s \in Sizes, a \in Aligns : kmalloc_aligned(s, a)
    BY <1>2, <2>2 DEF kmalloc_aligned
  <2>3. CASE \E b \in live : kfree(b) \/ \E s \in Sizes : krealloc(b, s)
    BY <1>3, <1>4, <2>3
  <2> QED BY <1>1, <1>6, <2>1, <2>2, <2>3 DEF Next
<1> QED BY <1>5, <1>6

LEMMA Invariance == Spec => []Inv
  BY InvInit, InvNext, PTL DEF Spec

(* The cursor stays inside the heap, for every word size and request. *)
THEOREM TypeCorrect == Spec => []TypeOK
  BY Invariance, PTL DEF Inv

(* Blocks handed out never share a byte and never leave the heap. *)
THEOREM BlocksNeverOverlap == Spec => []BlocksDisjoint
  BY Invariance, PTL DEF Inv

(* krealloc never calls copy_nonoverlapping on ranges that overlap. *)
THEOREM CopiesNeverOverlap == Spec => []CopyDisjoint
  BY Invariance, PTL DEF Inv

(* Every block starts at a multiple of the alignment its caller asked for. *)
THEOREM BlocksStayAligned == Spec => []BlocksAligned
<1>1. Init => BlocksAligned
  BY DEF Init, BlocksAligned
<1>2. Inv /\ BlocksAligned /\ [Next]_vars => BlocksAligned'
  <2> SUFFICES ASSUME Inv, BlocksAligned, [Next]_vars PROVE BlocksAligned'
    OBVIOUS
  <2>0. \A s \in Sizes, a \in PowersOfTwo : Block(s, a).addr % Block(s, a).align = 0
    <3> TAKE s \in Sizes, a \in PowersOfTwo
    <3>1. Aligned(a) = HEAP_CURRENT + Padding(HEAP_CURRENT, a)
      BY AlignedNoWrap DEF Inv
    <3>2. HEAP_CURRENT \in Nat /\ a \in Nat \ {0}
      BY HeapAssumption DEF Inv, TypeOK
    <3>3. (HEAP_CURRENT + Padding(HEAP_CURRENT, a)) % a = 0
      BY <3>2, PaddingAligns
    <3> QED BY <3>1, <3>3 DEF Block
  <2>1. CASE \E r \in Arenas : kheap_init(r[1], r[2])
    BY <2>1 DEF kheap_init, BlocksAligned
  <2>2. ASSUME NEW s \in Sizes, NEW a \in PowersOfTwo, kmalloc_aligned(s, a)
        PROVE  BlocksAligned'
    BY <2>0, <2>2 DEF kmalloc_aligned, BlocksAligned
  <2>3. CASE \E s \in Sizes : kmalloc(s)
    BY <2>2, <2>3, HeapAssumption DEF kmalloc
  <2>4. CASE \E s \in Sizes, a \in Aligns : kmalloc_aligned(s, a)
    BY <2>2, <2>4 DEF kmalloc_aligned
  <2>5. ASSUME NEW b \in live, kfree(b) PROVE BlocksAligned'
    BY <2>5 DEF kfree, BlocksAligned
  <2>6. ASSUME NEW b \in live, NEW s \in Sizes, krealloc(b, s) PROVE BlocksAligned'
    BY <2>0, <2>5, <2>6, HeapAssumption DEF krealloc, BlocksAligned
  <2>7. CASE UNCHANGED vars
    BY <2>7 DEF vars, BlocksAligned
  <2> QED BY <2>1, <2>3, <2>4, <2>5, <2>6, <2>7 DEF Next
<1> QED BY <1>1, <1>2, Invariance, PTL DEF Spec

(* Two different multiples are at least their divisor apart. *)
LEMMA MultiplesApart ==
  ASSUME NEW a \in Nat \ {0}, NEW p \in Nat, NEW q \in Nat, p % a = 0, q % a = 0, p < q
  PROVE  p + a <= q
<1> DEFINE x == p \div a
           y == q \div a
<1>1. p = a * x /\ q = a * y /\ x \in Int /\ y \in Int
  OBVIOUS
<1> HIDE DEF x, y
<1>2. x < y
  <2>1. \A i, j \in Int : j <= i => a * j <= a * i
    OBVIOUS
  <2> QED BY <1>1, <2>1
<1>3. a * (x + 1) <= a * y
  <2>1. \A i, j \in Int : j <= i => a * j <= a * i
    OBVIOUS
  <2> QED BY <1>1, <1>2, <2>1
<1>4. a * (x + 1) = p + a
  BY <1>1
<1> QED BY <1>1, <1>3, <1>4

(* kmalloc refuses a request only if no multiple of the alignment between the
   cursor and the end of the heap has room for it: the padding is never longer
   than it must be, and neither sum is refused for wrapping. *)
THEOREM RefusalsAreNeeded == Spec => []RefusedOnlyWhenFull
<1>1. ASSUME TypeOK, NEW s \in Sizes, NEW a \in PowersOfTwo,
             NEW p \in HEAP_CURRENT .. HEAP_END, p % a = 0, p + s <= HEAP_END
      PROVE  Fits(s, a)
  <2>1. /\ a \in Nat \ {0} /\ s \in Nat /\ HALF \in Nat \ {0} /\ WORD = 2 * HALF
        /\ HEAP_CURRENT \in Nat /\ HEAP_END \in Nat /\ HEAP_END <= HALF /\ p \in Nat
    BY <1>1, HeapAssumption DEF TypeOK
  <2>2. /\ Aligned(a) = HEAP_CURRENT + Padding(HEAP_CURRENT, a) /\ Aligned(a) \in Nat
    BY <1>1, AlignedNoWrap
  <2>3. Padding(HEAP_CURRENT, a) \in 0 .. a - 1
    BY <2>1, PaddingBound
  <2>4. Aligned(a) % a = 0
    BY <2>1, <2>2, PaddingAligns
  <2>5. Aligned(a) <= p
    <3>1. ASSUME p < Aligned(a) PROVE FALSE
      <4>1. p + a <= Aligned(a)
        BY <1>1, <2>1, <2>2, <2>4, <3>1, MultiplesApart
      <4> QED BY <2>1, <2>2, <2>3, <4>1
    <3> QED BY <2>1, <2>2, <3>1
  <2>6. Aligned(a) + s <= HEAP_END /\ Aligned(a) + s < WORD
    BY <1>1, <2>1, <2>2, <2>5
  <2> QED BY <2>6 DEF Fits
<1>2. Inv => RefusedOnlyWhenFull
  BY <1>1 DEF Inv, RefusedOnlyWhenFull
<1> QED BY <1>2, Invariance, PTL
=============================================================================
