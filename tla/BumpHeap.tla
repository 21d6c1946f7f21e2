------------------------------ MODULE BumpHeap ------------------------------
(***************************************************************************)
(* The kernel heap of lib/libk/src/memory.rs: a bump allocator behind      *)
(* kmalloc, kmalloc_aligned, krealloc and kfree.  Addresses are usize, so  *)
(* sums wrap at WORD except where the code uses checked_add.               *)
(*                                                                         *)
(* live is what the callers hold: the blocks handed out since kheap_init   *)
(* and not given to kfree.                                                 *)
(***************************************************************************)
EXTENDS Integers

CONSTANTS
  WORD,          \* 2 ^ the width of usize
  HALF,          \* WORD \div 2
  PowersOfTwo,   \* the powers of two below WORD
  Arenas,        \* the <<start, size>> that kheap_init may be given
  Sizes, Aligns  \* the sizes and alignments callers ask for

ASSUME HeapAssumption ==
  /\ HALF \in Nat \ {0} /\ WORD = 2 * HALF
  /\ PowersOfTwo \subseteq 1 .. HALF
  /\ \A a \in Arenas : a[1] \in Nat /\ a[2] \in Nat /\ a[1] + a[2] <= HALF
  /\ Sizes \subseteq 0 .. WORD - 1 /\ Aligns \subseteq 0 .. WORD - 1
  /\ 8 \in PowersOfTwo

VARIABLES
  HEAP_START, HEAP_END, HEAP_CURRENT, HEAP_INITIALIZED,
  live,
  copy           \* the latest copy_nonoverlapping of krealloc

heap == <<HEAP_START, HEAP_END, HEAP_CURRENT, HEAP_INITIALIZED>>
vars == <<heap, live, copy>>

NoCopy == [src |-> 0, dst |-> 0, len |-> 0]

Init ==
  /\ HEAP_START = 0 /\ HEAP_END = 0 /\ HEAP_CURRENT = 0 /\ HEAP_INITIALIZED = FALSE
  /\ live = {} /\ copy = NoCopy

(* Calling it again gives up every block handed out before. *)
kheap_init(start, size) ==
  /\ HEAP_START' = start
  /\ HEAP_END' = (start + size) % WORD
  /\ HEAP_CURRENT' = start
  /\ HEAP_INITIALIZED' = TRUE
  /\ live' = {} /\ copy' = NoCopy

-----------------------------------------------------------------------------
PaddingBackwards(current, align) == current % align
PaddingUnreduced(current, align) == align - (current % align)
Padding(current, align) == (align - (current % align)) % align

Aligned(align) == (HEAP_CURRENT + Padding(HEAP_CURRENT, align)) % WORD

FitsUnchecked(size, align) == (Aligned(align) + size) % WORD <= HEAP_END
Fits(size, align) ==
  /\ Aligned(align) + size < WORD          \* checked_add
  /\ Aligned(align) + size <= HEAP_END

Ready == HEAP_INITIALIZED /\ HEAP_START # 0

BumpIgnoresPadding(size, align) == HEAP_CURRENT' = HEAP_CURRENT + size
Bump(size, align) == HEAP_CURRENT' = Aligned(align) + size

Block(size, align) == [addr |-> Aligned(align), size |-> size, align |-> align]

(* A request that does not fit returns null and changes nothing: no step. *)
Allocate(size, align) ==
  /\ Ready /\ Fits(size, align)
  /\ Bump(size, align)
  /\ UNCHANGED <<HEAP_START, HEAP_END, HEAP_INITIALIZED>>

kmalloc_aligned(size, align) ==
  /\ align \in PowersOfTwo
  /\ Allocate(size, align)
  /\ live' = live \cup {Block(size, align)}
  /\ UNCHANGED copy

kmalloc(size) == kmalloc_aligned(size, 8)

(* kfree ignores its argument: only the caller's view changes. *)
kfree(b) == live' = live \ {b} /\ UNCHANGED <<heap, copy>>

(* krealloc of a block to size 0 frees it; of one that finds no room leaves
   it where it was.  The caller passes the size it asked for. *)
krealloc(b, new_size) ==
  \/ new_size = 0 /\ kfree(b)
  \/ /\ new_size > 0
     /\ Allocate(new_size, 8)
     /\ live' = (live \ {b}) \cup {Block(new_size, 8)}
     /\ copy' = [src |-> b.addr, dst |-> Aligned(8),
                 len |-> IF b.size < new_size THEN b.size ELSE new_size]

Next ==
  \/ \E a \in Arenas : kheap_init(a[1], a[2])
  \/ \E s \in Sizes : kmalloc(s)
  \/ \E s \in Sizes, a \in Aligns : kmalloc_aligned(s, a)
  \/ \E b \in live : kfree(b) \/ \E s \in Sizes : krealloc(b, s)

Spec == Init /\ [][Next]_vars

-----------------------------------------------------------------------------
(* Every variable stays a usize, and the cursor inside the heap. *)
TypeOK ==
  /\ HEAP_START \in 0 .. HALF /\ HEAP_END \in HEAP_START .. HALF
  /\ HEAP_CURRENT \in HEAP_START .. HEAP_END
  /\ HEAP_INITIALIZED \in BOOLEAN
  /\ live \subseteq [addr : 0 .. HALF, size : 0 .. HALF, align : PowersOfTwo]
  /\ copy \in [src : 0 .. HALF, dst : 0 .. HALF, len : 0 .. HALF]

Apart(a, m, b, n) == a + m <= b \/ b + n <= a

(* No byte belongs to two blocks, and every block lies inside the heap: no
   request overlaps what another caller still holds, whatever sizes and
   alignments came before it. *)
BlocksDisjoint ==
  /\ \A b \in live : HEAP_START <= b.addr /\ b.addr + b.size <= HEAP_CURRENT
  /\ \A b, d \in live : b # d => Apart(b.addr, b.size, d.addr, d.size)

(* A block starts at a multiple of the alignment asked for. *)
BlocksAligned == \A b \in live : b.addr % b.align = 0

(* What krealloc tells copy_nonoverlapping: the two ranges do not overlap. *)
CopyDisjoint == copy.len > 0 => Apart(copy.src, copy.len, copy.dst, copy.len)

(* A request is refused only if no placement after the last block would do. *)
RefusedOnlyWhenFull ==
  \A s \in Sizes, a \in Aligns \cap PowersOfTwo :
    Ready /\ ~Fits(s, a) =>
      ~\E p \in HEAP_CURRENT .. HEAP_END : p % a = 0 /\ p + s <= HEAP_END
=============================================================================
