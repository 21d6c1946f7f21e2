------------------------------- MODULE Paging -------------------------------
(***************************************************************************)
(* The physical page allocator and the four-level page tables of           *)
(* kernel/mm/paging.c, with the TLB of the processor they drive.           *)
(*                                                                         *)
(* Physical pages are numbered.  A page of memory is an array of entries:  *)
(* that is how the code sees a page it uses as a table, and what a page    *)
(* holds before that is JUNK that reads as present entries.  The callers   *)
(* of the allocator map only pages they own or pages below FIRST_FREE, and *)
(* free only pages they own and have unmapped.                             *)
(***************************************************************************)
EXTENDS Integers

CONSTANTS
  PAGES_TOTAL,       \* pages the bitmap covers
  FIRST_FREE,        \* 0x200000 / PAGE_SIZE
  MAP_END,           \* map_end / PAGE_SIZE, the end of RAM
  PAGES_PER_TABLE,
  Virts,             \* the virtual pages in use, each a sequence of four indices
  Flags,             \* the sets of flag bits a caller may ask for
  Dirs, kernel_dir,  \* the page directories
  BOOT               \* the tables the boot loader left in cr3

Pages == 0 .. PAGES_TOTAL - 1
Idx   == 0 .. PAGES_PER_TABLE - 1
Nodes == Dirs \cup Pages
NONE  == -1

ASSUME PagingAssumption ==
  /\ PAGES_TOTAL \in Nat \ {0} /\ FIRST_FREE \in Nat \ {0} /\ MAP_END \in Nat
  /\ PAGES_PER_TABLE \in Nat \ {0}
  /\ Virts \subseteq [1 .. 4 -> Idx]
  /\ kernel_dir \in Dirs /\ BOOT \notin Dirs /\ Dirs \cap Int = {}

(* An entry is a page number and a set of flag bits. *)
EMPTY   == [page |-> 0, flags |-> {}]
Entry   == [page : Pages, flags : SUBSET ({"P", "W", "U"} \cup UNION Flags)]
Present(e) == "P" \in e.flags
ZERO    == [i \in Idx |-> EMPTY]
JUNK    == [i \in Idx |-> [page |-> 0, flags |-> {"P"}]]

VARIABLES
  page_bitmap,       \* the pages whose bit is set: free
  present,           \* the pages whose struct page says present
  mem,               \* [Nodes -> [Idx -> Entry]]
  current_dir,
  cr3,
  tlb,               \* [Virts -> Entry], EMPTY where nothing is cached
  use                \* what each page was last handed out as (history variable)

alloc == <<page_bitmap, present>>
vars  == <<alloc, mem, current_dir, cr3, tlb, use>>

(* mm_init and paging_init.  Neither loads cr3. *)
mm_initUnbounded == {p \in FIRST_FREE .. MAP_END : p < MAP_END}
mm_init == {p \in Pages : FIRST_FREE <= p /\ p < MAP_END}

Init ==
  /\ page_bitmap = mm_init /\ present = mm_init
  /\ mem = [n \in Nodes |-> IF n \in Dirs THEN ZERO ELSE JUNK]
  /\ current_dir = kernel_dir /\ cr3 = BOOT
  /\ tlb = [v \in Virts |-> EMPTY]
  /\ use = [p \in Pages |-> IF p \in mm_init THEN "free" ELSE "reserved"]

-----------------------------------------------------------------------------
(* mm_alloc_page takes the lowest free page.  Page 0 would read as failure. *)
FirstFree(bitmap) == CHOOSE p \in bitmap : \A q \in bitmap : p <= q

TakenNotCleared(bitmap, p) == bitmap
Taken(bitmap, p) == bitmap \ {p}

mm_alloc_page ==
  /\ page_bitmap # {}
  /\ LET p == FirstFree(page_bitmap)
     IN  /\ page_bitmap' = Taken(page_bitmap, p)
         /\ present' = present \cup {p}
         /\ use' = [use EXCEPT ![p] = "client"]
         /\ mem' = [mem EXCEPT ![p] = JUNK]
  /\ UNCHANGED <<current_dir, cr3, tlb>>

FreedForgetsBit(p) == page_bitmap' = page_bitmap /\ present' = present \ {p}
Freed(p) == page_bitmap' = page_bitmap \cup {p} /\ present' = present \ {p}

(* The entry of a virtual page in a directory: the walk the processor does. *)
Translate(dir, v) ==
  LET e1 == mem[dir][v[1]]
      e2 == mem[e1.page][v[2]]
      e3 == mem[e2.page][v[3]]
  IN  IF Present(e1) /\ Present(e2) /\ Present(e3) /\ Present(mem[e3.page][v[4]])
      THEN mem[e3.page][v[4]]
      ELSE EMPTY

Mapped(p) == \E d \in Dirs, v \in Virts : Present(Translate(d, v)) /\ Translate(d, v).page = p

mm_free_page(p) ==
  /\ use[p] = "client" /\ ~Mapped(p)
  /\ Freed(p)
  /\ use' = [use EXCEPT ![p] = "free"]
  /\ UNCHANGED <<mem, current_dir, cr3, tlb>>

-----------------------------------------------------------------------------
(* get_pte, one level at a time.  A walk carries the memory it has written,
   the allocator, and the table it has reached, NONE once it has failed.    *)
NewTableDirty(s, p) == s.mem
NewTable(s, p) == [s.mem EXCEPT ![p] = ZERO]

Level(s, i, create, level) ==
  IF s.node = NONE
  THEN s
  ELSE IF Present(s.mem[s.node][i])
  THEN [s EXCEPT !.node = s.mem[s.node][i].page]
  ELSE IF ~create \/ s.bitmap = {}
  THEN [s EXCEPT !.node = NONE]
  ELSE LET p == FirstFree(s.bitmap)
       IN  [mem     |-> [NewTable(s, p) EXCEPT ![s.node] =
                           [@ EXCEPT ![i] = [page |-> p, flags |-> {"P", "W", "U"}]]],
            bitmap  |-> Taken(s.bitmap, p),
            present |-> s.present \cup {p},
            use     |-> [s.use EXCEPT ![p] = level],
            node    |-> p]

get_pteNoLastTable(v, create) ==
  LET s0 == [mem |-> mem, bitmap |-> page_bitmap, present |-> present, use |-> use,
             node |-> current_dir]
      s1 == Level(s0, v[1], create, "pdpt")
      s2 == Level(s1, v[2], create, "pd")
  IN  Level(s2, v[3], FALSE, "pt")

get_pte(v, create) ==
  LET s0 == [mem |-> mem, bitmap |-> page_bitmap, present |-> present, use |-> use,
             node |-> current_dir]
      s1 == Level(s0, v[1], create, "pdpt")
      s2 == Level(s1, v[2], create, "pd")
  IN  Level(s2, v[3], create, "pt")

PtIdx(v) == v[4]

InvalidateNothing(v) == UNCHANGED tlb
Invalidate(v) == tlb' = [tlb EXCEPT ![v] = EMPTY]

mm_map_page(p, v, flags) ==
  LET s == get_pte(v, TRUE)
      e == [page |-> p, flags |-> flags \cup {"P"}]
  IN  /\ use[p] \in {"client", "reserved"}
      /\ page_bitmap' = s.bitmap /\ present' = s.present /\ use' = s.use
      /\ \/ s.node = NONE /\ mem' = s.mem /\ UNCHANGED tlb
         \/ /\ s.node # NONE
            /\ mem' = [s.mem EXCEPT ![s.node] = [@ EXCEPT ![PtIdx(v)] = e]]
            /\ Invalidate(v)
      /\ UNCHANGED <<current_dir, cr3>>

mm_unmap_page(v) ==
  LET s == get_pte(v, FALSE)
  IN  /\ s.node # NONE /\ Present(mem[s.node][PtIdx(v)])
      /\ mem' = [mem EXCEPT ![s.node] = [@ EXCEPT ![PtIdx(v)] = EMPTY]]
      /\ Invalidate(v)
      /\ UNCHANGED <<alloc, use, current_dir, cr3>>

LoadCr3(dir) == tlb' = [v \in Virts |-> EMPTY]

paging_switch_directory(dir) ==
  /\ current_dir' = dir /\ cr3' = dir
  /\ LoadCr3(dir)
  /\ UNCHANGED <<alloc, mem, use>>

(* The processor may cache the translation of any page, at any time. *)
TlbFill(v) ==
  /\ cr3 \in Dirs
  /\ tlb' = [tlb EXCEPT ![v] = Translate(cr3, v)]
  /\ UNCHANGED <<alloc, mem, use, current_dir, cr3>>

Next ==
  \/ mm_alloc_page
  \/ \E p \in Pages : mm_free_page(p)
  \/ \E p \in Pages, v \in Virts, flags \in Flags : mm_map_page(p, v, flags)
  \/ \E v \in Virts : mm_unmap_page(v) \/ TlbFill(v)
  \/ \E d \in Dirs : paging_switch_directory(d)

Spec == Init /\ [][Next]_vars

-----------------------------------------------------------------------------
(* Every variable keeps the type the C declarations give it. *)
TypeOK ==
  /\ page_bitmap \subseteq Pages /\ present \subseteq Pages
  /\ mem \in [Nodes -> [Idx -> Entry]]
  /\ current_dir \in Dirs /\ cr3 \in Dirs \cup {BOOT}
  /\ tlb \in [Virts -> Entry]
  /\ use \in [Pages -> {"reserved", "free", "client", "pdpt", "pd", "pt"}]

(* A page is in the bitmap exactly while nobody holds it, and every page that
   was handed out is marked present: nothing is handed out twice, and a page
   that a failed mm_map_page took is not given away again. *)
PagesAccounted ==
  /\ page_bitmap = {p \in Pages : use[p] = "free"}
  /\ \A p \in Pages : use[p] \notin {"free", "reserved"} => p \in present

(* The tables form trees: a present entry of a table leads to a table of the
   next level, and every page taken for a table hangs on exactly one entry.
   So a mm_map_page that ran out of memory half way leaks no page, and no two
   addresses or directories share a table. *)
Tables(u) == IF u = "pml4" THEN Dirs ELSE {p \in Pages : use[p] = u}
Links(u)  == {l \in Tables(u) \X Idx : Present(mem[l[1]][l[2]])}
Target(l) == mem[l[1]][l[2]].page

TreeShaped ==
  \A u \in {<<"pml4", "pdpt">>, <<"pdpt", "pd">>, <<"pd", "pt">>} :
    /\ \A l \in Links(u[1]) : use[Target(l)] = u[2]
    /\ \A p \in Tables(u[2]) :
         \E l \in Links(u[1]) : \A k \in Links(u[1]) : Target(k) = p <=> k = l

(* What is mapped is a page its user holds or a reserved one: no mapping
   reaches a free page or a page table. *)
MappedPagesHeld == \A l \in Links("pt") : use[Target(l)] \in {"client", "reserved"}

(* A cached translation is the one the active tables hold: every change of a
   live entry and every switch of directory evicts what it makes stale. *)
TlbCoherent ==
  \A v \in Virts : Present(tlb[v]) => cr3 \in Dirs /\ tlb[v] = Translate(cr3, v)

(* The tables implement one map per directory: a call changes at most one
   page, and of the current directory only, however the tables are shared out
   and whatever the pages they are built in held before. *)
Spaces == INSTANCE AddressSpaces WITH
  Entries <- [page : Pages, flags : {f \cup {"P"} : f \in Flags}], Unmapped <- EMPTY, First <- kernel_dir,
  current <- current_dir,
  space <- [d \in Dirs |-> [v \in Virts |-> Translate(d, v)]]
RefinesAddressSpaces == Spaces!Spec

(* mm_map_page either maps the page it names or fails, which it does only when
   no page is left; a call that failed half way has changed no mapping. *)
MapFailsOnlyWhenExhausted ==
  [][\A p \in Pages, v \in Virts, flags \in Flags :
       mm_map_page(p, v, flags) =>
         \/ Translate(current_dir, v)' = [page |-> p, flags |-> flags \cup {"P"}]
         \/ /\ page_bitmap' = {}
            /\ \A w \in Virts : Translate(current_dir, w)' = Translate(current_dir, w)]_vars
=============================================================================
